-------------------------- MODULE DecodeTXTProofs ---------------------------
(***************************************************************************)
(* DNSDecodeTXT is right for RDATA of every length and content.            *)
(*                                                                         *)
(* No induction over the data is needed: the loop carries the part of the  *)
(* cut that is behind it, and a cut gives each byte to one string, so that *)
(* the byte in front of the loop can only be the size of the next.         *)
(***************************************************************************)
EXTENDS DecodeTXT, SequenceTheorems, TLAPS

\* The input is a sequence of bytes, and the loop inside it.
LEMMA BytesAreSmall ==
    ASSUME DecodeTypeOK
    PROVE  /\ rdata \in Seq(Byte)
           /\ Len(rdata) \in Nat
           /\ \A i \in 1 .. Len(rdata) : rdata[i] \in Byte /\ rdata[i] \in Nat
           /\ at \in Nat \ {0} /\ at <= Len(rdata) + 1
<1>1. rdata \in Seq(Byte)
  BY RDataAssumption DEF DecodeTypeOK
<1>2. Len(rdata) \in Nat /\ \A i \in 1 .. Len(rdata) : rdata[i] \in Byte
  BY <1>1, LenProperties, ElementOfSeq
<1>3. \A b \in Byte : b \in Nat
  BY DEF Byte
<1> QED
  BY <1>1, <1>2, <1>3 DEF DecodeTypeOK

\* The types, at first,
LEMMA InitType == DecodeInit => DecodeTypeOK
<1>1. \A r \in RData : Len(r) \in Nat
  BY RDataAssumption, LenProperties
<1> QED
  BY <1>1 DEF DecodeInit, DecodeTypeOK

\* and after a step: no string reaches past the end.
LEMMA NextType == ASSUME DecodeTypeOK, [DecodeNext]_decodeVars PROVE DecodeTypeOK'
<1> USE DEF DecodeTypeOK
<1>1. CASE NextString
  <2>1. at \in 1 .. Len(rdata) /\ rdata[at] \in Nat /\ at + rdata[at] <= Len(rdata)
    BY <1>1, BytesAreSmall DEF NextString, Turn, Fits
  <2>2. String(at) \in Seq(Byte)
    BY <2>1, BytesAreSmall, SubSeqProperties DEF String
  <2>3. txt' \in Seq(Seq(Byte))
    BY <1>1, <2>2, AppendProperties DEF NextString
  <2>4. at' \in 1 .. Len(rdata) + 1
    <3>1. at' = at + 1 + rdata[at]
      BY <1>1 DEF NextString
    <3> QED
      BY <2>1, <3>1, BytesAreSmall
  <2> QED
    BY <1>1, <2>3, <2>4 DEF NextString
<1>2. CASE EmptyString
  BY <1>2, BytesAreSmall DEF EmptyString, Turn
<1>3. CASE Exceeds \/ ReturnTxt
  BY <1>3 DEF Exceeds, ReturnTxt
<1>4. CASE UNCHANGED decodeVars
  BY <1>4 DEF decodeVars
<1> QED
  BY <1>1, <1>2, <1>3, <1>4 DEF DecodeNext
-----------------------------------------------------------------------------
(* One turn of the loop *)

\* The strings behind the loop and the next one are a cut again.
LEMMA CutGrows ==
    ASSUME DecodeTypeOK, at <= Len(rdata), NEW P \in SUBSET (1 .. at - 1), CutAt(P, at - 1)
    PROVE  CutAt(P \cup {at}, at + rdata[at])
<1> DEFINE m == at + rdata[at]
<1>0. at \in Nat \ {0} /\ rdata[at] \in Nat /\ P \subseteq Nat
  BY BytesAreSmall DEF DecodeTypeOK
<1>1. UNION {Extent(i) : i \in P} = 1 .. at - 1
  BY DEF CutAt
<1>2. UNION {Extent(i) : i \in P \cup {at}} = (UNION {Extent(i) : i \in P}) \cup Extent(at)
  OBVIOUS
<1>3. UNION {Extent(i) : i \in P \cup {at}} = 1 .. m
  BY <1>0, <1>1, <1>2 DEF Extent
<1>4. ASSUME NEW i \in P PROVE Extent(i) \cap Extent(at) = {}
  <2>1. Extent(i) \subseteq 1 .. at - 1
    BY <1>1
  <2> QED
    BY <1>0, <2>1 DEF Extent
<1>5. \A i, j \in P \cup {at} : i # j => Extent(i) \cap Extent(j) = {}
  BY <1>4 DEF CutAt
<1> QED
  BY <1>3, <1>5 DEF CutAt

\* A cut of rdata in which P is what is behind the loop goes on at position
\* at, and with a string that fits.
LEMMA CutGoesOn ==
    ASSUME DecodeTypeOK, at <= Len(rdata), NEW P \in SUBSET (1 .. at - 1), CutAt(P, at - 1),
           NEW C \in Cuts, C \cap (1 .. at - 1) = P
    PROVE  /\ Fits(at)
           /\ C \cap (1 .. at + rdata[at]) = P \cup {at}
<1>0. /\ at \in 1 .. Len(rdata) /\ Len(rdata) \in Nat
      /\ \A i \in 1 .. Len(rdata) : rdata[i] \in Nat
  BY BytesAreSmall DEF DecodeTypeOK
<1>1. /\ C \subseteq 1 .. Len(rdata)
      /\ UNION {Extent(i) : i \in C} = 1 .. Len(rdata)
      /\ \A i, j \in C : i # j => Extent(i) \cap Extent(j) = {}
  BY DEF Cuts, CutAt
<1>2. PICK i \in C : at \in Extent(i)
  BY <1>0, <1>1
<1>3. i = at
  <2>1. i \in Nat /\ i <= at
    BY <1>0, <1>1, <1>2 DEF Extent
  <2>2. CASE i < at
    <3>1. i \in P
      BY <1>0, <1>1, <2>1, <2>2
    <3>2. Extent(i) \subseteq 1 .. at - 1
      BY <3>1 DEF CutAt
    <3> QED
      BY <1>0, <1>2, <3>2
  <2> QED
    BY <1>0, <2>1, <2>2
<1>4. Fits(at)
  <2>1. at + rdata[at] \in Extent(at)
    BY <1>0 DEF Extent
  <2> QED
    BY <1>0, <1>1, <1>2, <1>3, <2>1 DEF Fits
<1>5. ASSUME NEW j \in C, j <= at + rdata[at] PROVE j \in P \cup {at}
  <2>1. CASE j < at
    BY <1>0, <1>1, <2>1
  <2>2. CASE j > at
    <3>1. j \in Extent(at) /\ j \in Extent(j)
      BY <1>0, <1>1, <1>5, <2>2 DEF Extent
    <3> QED
      BY <1>1, <1>2, <1>3, <2>2, <3>1
  <2> QED
    BY <1>0, <1>1, <2>1, <2>2
<1>6. at \in C /\ P \subseteq C /\ P \cup {at} \subseteq 1 .. at + rdata[at]
  BY <1>0, <1>2, <1>3
<1> QED
  BY <1>1, <1>4, <1>5, <1>6

\* A string that is appended comes after the others.
LEMMA StringAdded ==
    ASSUME DecodeTypeOK, NextString, NEW P \in SUBSET (1 .. at - 1), InTxt(P),
           NEW Q, Q = P \cup {at}
    PROVE  InTxt(Q)'
<1>1. PICK f \in [DOMAIN txt -> {i \in P : rdata[i] > 0}] :
        /\ \A k, l \in DOMAIN txt : k < l => f[k] < f[l]
        /\ \A i \in P : rdata[i] > 0 => \E k \in DOMAIN txt : f[k] = i
        /\ \A k \in DOMAIN txt : txt[k] = String(f[k])
  BY DEF InTxt
<1> DEFINE n == Len(txt)
           g == [k \in 1 .. n + 1 |-> IF k = n + 1 THEN at ELSE f[k]]
<1>2. /\ n \in Nat /\ DOMAIN txt = 1 .. n /\ at \in Nat
      /\ \A k \in 1 .. n : f[k] \in P /\ f[k] < at
  <2>1. n \in Nat /\ DOMAIN txt = 1 .. n /\ at \in Nat
    BY LenProperties, BytesAreSmall DEF DecodeTypeOK
  <2>2. \A k \in 1 .. n : f[k] \in P
    BY <1>1, <2>1
  <2>3. \A i \in P : i < at
    BY <2>1
  <2> QED
    BY <2>1, <2>2, <2>3
<1>3. /\ txt' = Append(txt, String(at)) /\ rdata' = rdata /\ rdata[at] > 0
  BY DEF NextString
<1>4. /\ DOMAIN txt' = 1 .. n + 1
      /\ txt'[n + 1] = String(at)
      /\ \A k \in 1 .. n : txt'[k] = txt[k]
  BY <1>2, <1>3, AppendProperties DEF DecodeTypeOK
<1> HIDE DEF n
<1>5. g \in [DOMAIN txt' -> {i \in Q : rdata'[i] > 0}]
  BY <1>1, <1>2, <1>3, <1>4
<1>6. \A k, l \in 1 .. n + 1 : k < l => g[k] < g[l]
  BY <1>1, <1>2
<1>7. \A i \in Q : rdata[i] > 0 => \E k \in 1 .. n + 1 : g[k] = i
  <2> SUFFICES ASSUME NEW i \in Q, rdata[i] > 0 PROVE \E k \in 1 .. n + 1 : g[k] = i
    OBVIOUS
  <2>1. CASE i = at
    <3>1. n + 1 \in 1 .. n + 1 /\ g[n + 1] = i
      BY <1>2, <2>1
    <3> QED
      BY <3>1
  <2>2. CASE i \in P
    <3>1. PICK k \in 1 .. n : f[k] = i
      BY <1>1, <1>2, <2>2
    <3>2. k \in 1 .. n + 1 /\ g[k] = i
      BY <1>2, <3>1
    <3> QED
      BY <3>2
  <2> QED
    BY <2>1, <2>2
<1>8. \A k \in 1 .. n + 1 : txt'[k] = String(g[k])
  <2> SUFFICES ASSUME NEW k \in 1 .. n + 1 PROVE txt'[k] = String(g[k])
    OBVIOUS
  <2>1. CASE k = n + 1
    BY <1>2, <1>4, <2>1
  <2>2. CASE k \in 1 .. n
    <3>1. g[k] = f[k]
      BY <1>2, <2>2
    <3> QED
      BY <1>1, <1>2, <1>4, <2>2, <3>1
  <2> QED
    BY <1>2, <2>1, <2>2
<1> HIDE DEF g
<1>9. /\ \A k, l \in DOMAIN txt' : k < l => g[k] < g[l]
      /\ \A i \in Q : rdata'[i] > 0 => \E k \in DOMAIN txt' : g[k] = i
      /\ \A k \in DOMAIN txt' : txt'[k] = SubSeq(rdata', g[k] + 1, g[k] + rdata'[g[k]])
  BY <1>3, <1>4, <1>6, <1>7, <1>8 DEF String
<1> QED
  BY <1>5, <1>9, Zenon DEF InTxt, String

\* An empty one is not in the list.
LEMMA EmptySkipped ==
    ASSUME EmptyString, NEW P, InTxt(P), NEW Q, Q = P \cup {at}
    PROVE  InTxt(Q)'
<1>1. rdata[at] = 0 /\ rdata' = rdata /\ txt' = txt
  BY DEF EmptyString
<1>2. {i \in Q : rdata[i] > 0} = {i \in P : rdata[i] > 0}
  BY <1>1
<1>3. InTxt(Q)
  BY <1>1, <1>2 DEF InTxt
<1> QED
  BY <1>1, <1>3 DEF InTxt, String
-----------------------------------------------------------------------------
(* The invariant *)

\* Nothing is behind the loop at first.
LEMMA InitLoop == DecodeInit => LoopInv
<1> SUFFICES ASSUME DecodeInit PROVE LoopInv
  OBVIOUS
<1>1. at - 1 = 0 /\ 1 .. at - 1 = {} /\ ret = "none"
  BY DEF DecodeInit
<1>2. CutAt({}, at - 1)
  BY <1>1 DEF CutAt
<1>3. InTxt({})
  <2>1. DOMAIN txt = {}
    BY DEF DecodeInit
  <2>2. [x \in {} |-> x] \in [DOMAIN txt -> {i \in {} : rdata[i] > 0}]
    BY <2>1
  <2> QED
    BY <2>1, <2>2 DEF InTxt
<1>4. \A C \in Cuts : C \cap (1 .. at - 1) = {}
  BY <1>1
<1> QED
  BY <1>1, <1>2, <1>3, <1>4 DEF LoopInv

\* A turn that finds a string, or an empty one, moves the cut on.
LEMMA LoopGoesOn ==
    ASSUME DecodeTypeOK, LoopInv, NextString \/ EmptyString
    PROVE  LoopInv'
<1>1. /\ ret = "none" /\ ret' = "none" /\ at <= Len(rdata) /\ rdata' = rdata
      /\ at' = at + rdata[at] + 1
  BY BytesAreSmall DEF NextString, EmptyString, Turn
<1>2. PICK P \in SUBSET (1 .. at - 1) :
        CutAt(P, at - 1) /\ InTxt(P) /\ \A C \in Cuts : C \cap (1 .. at - 1) = P
  BY <1>1 DEF LoopInv
<1>q. PICK Q : Q = P \cup {at}
  OBVIOUS
<1>3. at' - 1 = at + rdata[at] /\ Q \in SUBSET (1 .. at' - 1)
  <2>1. at' - 1 = at + rdata[at] /\ 1 .. at - 1 \subseteq 1 .. at' - 1 /\ at \in 1 .. at' - 1
    BY <1>1, BytesAreSmall
  <2> QED
    BY <1>q, <2>1
<1>4. CutAt(Q, at + rdata[at])
  BY <1>1, <1>2, <1>q, CutGrows
<1>5. CutAt(Q, at - 1)'
  BY <1>1, <1>3, <1>4 DEF CutAt, Extent
<1>6. InTxt(Q)'
  BY <1>2, <1>q, StringAdded, EmptySkipped
<1>7. \A C \in Cuts : C \cap (1 .. at' - 1) = Q
  BY <1>1, <1>2, <1>3, <1>q, CutGoesOn
<1>8. Cuts' = Cuts
  BY <1>1 DEF Cuts, CutAt, Extent
<1> QED
  BY <1>1, <1>3, <1>5, <1>6, <1>7, <1>8 DEF LoopInv

\* When a size exceeds the data there is no cut, and when the loop has gone
\* through all of it there is one.
LEMMA LoopEnds == ASSUME DecodeTypeOK, LoopInv, Exceeds \/ ReturnTxt PROVE LoopInv'
<1>1. ret = "none" /\ UNCHANGED <<rdata, at, txt>>
  BY DEF Exceeds, ReturnTxt, Turn
<1>2. PICK P \in SUBSET (1 .. at - 1) :
        CutAt(P, at - 1) /\ InTxt(P) /\ \A C \in Cuts : C \cap (1 .. at - 1) = P
  BY <1>1 DEF LoopInv
<1>3. Cuts' = Cuts /\ CutAt(P, at - 1)' = CutAt(P, at - 1) /\ InTxt(P)' = InTxt(P)
  BY <1>1 DEF Cuts, CutAt, Extent, InTxt, String
<1>4. CASE Exceeds
  <2>1. Cuts = {}
    BY <1>2, <1>4, CutGoesOn DEF Exceeds, Turn
  <2> QED
    BY <1>3, <1>4, <2>1 DEF LoopInv, Exceeds
<1>5. CASE ReturnTxt
  <2>1. at = Len(rdata) + 1
    BY <1>5, BytesAreSmall DEF ReturnTxt
  <2> QED
    BY <1>1, <1>2, <1>3, <1>5, <2>1 DEF LoopInv, ReturnTxt
<1> QED
  BY <1>4, <1>5

\* All of it.
LEMMA NextLoop == ASSUME DecodeTypeOK, LoopInv, [DecodeNext]_decodeVars PROVE LoopInv'
<1>1. CASE UNCHANGED decodeVars
  <2>1. Cuts' = Cuts /\ \A P : InTxt(P)' = InTxt(P) /\ \A n : CutAt(P, n)' = CutAt(P, n)
    BY <1>1 DEF decodeVars, Cuts, CutAt, Extent, InTxt, String
  <2>2. at' = at /\ ret' = ret /\ rdata' = rdata
    BY <1>1 DEF decodeVars
  <2> QED
    BY <2>1, <2>2 DEF LoopInv
<1> QED
  BY <1>1, LoopGoesOn, LoopEnds DEF DecodeNext

\* The types, and what is behind the loop.
THEOREM DecodeInvariance == DecodeSpec => [](DecodeTypeOK /\ LoopInv)
<1>1. DecodeTypeOK /\ LoopInv /\ [DecodeNext]_decodeVars => DecodeTypeOK' /\ LoopInv'
  BY NextType, NextLoop
<1> QED
  BY <1>1, InitType, InitLoop, PTL DEF DecodeSpec

\* For every RDATA, DNSDecodeTXT returns the strings it is made of, without
\* the empty ones, and nil exactly if it is not made of strings.  There is at
\* most one way to cut it, so that this says all about the result.
THEOREM DecodesExactly == DecodeSpec => []TxtDecodeExact
<1>1. DecodeTypeOK /\ LoopInv => TxtDecodeExact
  <2> SUFFICES ASSUME DecodeTypeOK, LoopInv, ret = "txt"
               PROVE  Cuts # {} /\ \A C \in Cuts : InTxt(C)
    BY DEF TxtDecodeExact, LoopInv, DecodeTypeOK
  <2>1. at - 1 = Len(rdata)
    BY BytesAreSmall DEF LoopInv
  <2>2. PICK P \in SUBSET (1 .. Len(rdata)) :
          /\ CutAt(P, Len(rdata)) /\ InTxt(P)
          /\ \A C \in Cuts : C \cap (1 .. Len(rdata)) = P
    BY <2>1 DEF LoopInv
  <2>3. P \in Cuts /\ \A C \in Cuts : C = P
    BY <2>2 DEF Cuts
  <2> QED
    BY <2>2, <2>3
<1> QED
  BY <1>1, DecodeInvariance, PTL
=============================================================================
