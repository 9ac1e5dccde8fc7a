------------------------- MODULE DomainCodecProofs --------------------------
(***************************************************************************)
(* DomainSlice undoes DomainFrom for all labels, of any number and length, *)
(* and DomainNormalize spells the labels of all names, however they are    *)
(* escaped.                                                                *)
(*                                                                         *)
(* A map pos says where in the name each byte of each label is, and what   *)
(* comes after it.  The one makes the map, and the other follows it.       *)
(***************************************************************************)
EXTENDS DomainCodec, SequenceTheorems, TLAPS

Pos == [Nat -> [Nat -> Nat]]

\* Byte j of label m of lb, or what comes after its last byte, is at pos[m][j]
\* in the name nm, and the next is right behind it.
Placed(nm, lb, pos, m, j) ==
    /\ pos[m][j] >= 1
    /\ j <= Len(lb[m]) /\ lb[m][j] \in Special =>
         /\ nm[pos[m][j]] = Backslash /\ nm[pos[m][j] + 1] = lb[m][j]
         /\ pos[m][j + 1] = pos[m][j] + 2 /\ pos[m][j] + 1 <= Len(nm)
    /\ j <= Len(lb[m]) /\ lb[m][j] \notin Special =>
         /\ nm[pos[m][j]] = lb[m][j]
         /\ pos[m][j + 1] = pos[m][j] + 1 /\ pos[m][j] <= Len(nm)
    /\ j > Len(lb[m]) /\ m < Len(lb) =>
         /\ nm[pos[m][j]] = Dot
         /\ pos[m + 1][1] = pos[m][j] + 1 /\ pos[m][j] <= Len(nm)

\* The labels are in the name, up to what comes at place nx.
PlacedTo(nm, lb, pos, nx) ==
    /\ pos[1][1] = 1
    /\ \A m \in 1 .. Len(lb) : \A j \in 1 .. Len(lb[m]) + 1 : Placed(nm, lb, pos, m, j)
    /\ pos[Len(lb)][Len(lb[Len(lb)]) + 1] = nx

\* They are all of the name.
AllPlaced(nm, lb, pos) == PlacedTo(nm, lb, pos, Len(nm) + 1)

\* So are those that DomainFrom has been through when it is at byte c of label
\* n, and it goes on behind them.
Joined(nm, lb, n, c, pos) ==
    /\ pos[1][1] = 1
    /\ \A m \in 1 .. n : \A j \in 1 .. Len(lb[m]) + 1 :
         m < n \/ j < c => Placed(nm, lb, pos, m, j)
    /\ pos[n][c] = Len(nm) + 1

\* What DomainSlice has read, sl, is what is in the labels, and it is at the
\* beginning of the next, nx, or behind the last.
Sliced(nm, lb, sl, nx, pos) ==
    /\ Len(sl) <= Len(lb)
    /\ \A k \in 1 .. Len(sl) : sl[k] = lb[k]
    /\ nx = IF Len(sl) < Len(lb) THEN pos[Len(sl) + 1][1] ELSE Len(nm) + 1
    /\ sl # <<>> => nx >= 2

\* So is what avahi_unescape_label has read, o.  It is behind by a byte at least
\* as soon as a dot or a backslash was escaped, or a label came before.
Unescaped(lb, sl, o, nx, pos) ==
    /\ Len(sl) < Len(lb)
    /\ \A k \in 1 .. Len(sl) : sl[k] = lb[k]
    /\ Len(o) <= Len(lb[Len(sl) + 1])
    /\ \A k \in 1 .. Len(o) : o[k] = lb[Len(sl) + 1][k]
    /\ nx = pos[Len(sl) + 1][Len(o) + 1]
    /\ nx >= Len(o) + 1
    /\ sl # <<>> => nx >= Len(o) + 2
    /\ sl = <<>> =>
         (nx = Len(o) + 1 <=> \A k \in 1 .. Len(o) : lb[1][k] \notin Special)

\* The inductive invariant, for DomainSlice after DomainFrom.
JoinInv ==
    /\ ln \in 1 .. Len(labels) /\ cn \in 1 .. Len(labels[ln]) + 1
    /\ next = 1 /\ slices = <<>>
    /\ \E pos \in Pos : Joined(name, labels, ln, cn, pos)

SliceInv ==
    \E pos \in Pos : AllPlaced(name, labels, pos) /\ Sliced(name, labels, slices, next, pos)

LabelInv ==
    \E pos \in Pos : AllPlaced(name, labels, pos) /\ Unescaped(labels, slices, out, next, pos)

CodecInv ==
    given \in {"labels", "valid"} /\ labels # <<>> =>
        /\ pc = "join" => JoinInv
        /\ pc = "slice" => SliceInv
        /\ pc = "label" => LabelInv
        /\ pc # "join" => \E pos \in Pos : AllPlaced(name, labels, pos)
        /\ SliceInvertsFrom
-----------------------------------------------------------------------------
(* Types *)

\* What is escaped is one byte or two.
LEMMA EscapeType ==
    ASSUME NEW c \in Char
    PROVE  /\ Escape(c) \in Seq(Char)
           /\ c \in Special => Len(Escape(c)) = 2 /\ Escape(c)[1] = Backslash /\ Escape(c)[2] = c
           /\ c \notin Special => Len(Escape(c)) = 1 /\ Escape(c)[1] = c
<1>1. Backslash \in Char
  BY DEF Backslash, Char
<1> QED
  BY <1>1 DEF Escape

\* The labels are made of bytes.
LEMMA LabelType ==
    ASSUME NEW lb \in Seq(Seq(Char))
    PROVE  /\ Len(lb) \in Nat
           /\ \A m \in 1 .. Len(lb) :
                /\ lb[m] \in Seq(Char) /\ Len(lb[m]) \in Nat
                /\ \A j \in 1 .. Len(lb[m]) : lb[m][j] \in Char
BY LenProperties, ElementOfSeq

\* An escaped byte that is accepted ends before the name does.
LEMMA ReadType ==
    ASSUME NEW nm \in Seq(Char), NEW k \in 1 .. Len(nm), ValidAt(nm, k)
    PROVE  /\ ByteAt(nm, k) \in Char
           /\ k + WidthAt(nm, k) \in 1 .. Len(nm) + 1
<1>1. Len(nm) \in Nat /\ \A i \in 1 .. Len(nm) : nm[i] \in Char
  BY LenProperties, ElementOfSeq
<1>2. CASE nm[k] = Backslash
  <2>1. /\ k < Len(nm)
        /\ nm[k + 1] \in Special \/ (k + 3 <= Len(nm) /\ Number(nm, k + 1) \in Char)
    <3>1. /\ k < Len(nm)
          /\ nm[k + 1] \in Special \/ (IsNumber(nm, k + 1) /\ Number(nm, k + 1) \in Char)
      BY <1>2 DEF ValidAt
    <3>2. IsNumber(nm, k + 1) => k + 3 <= Len(nm)
      BY <1>1 DEF IsNumber
    <3> QED
      BY <3>1, <3>2
  <2>2. CASE nm[k + 1] \in Special
    <3>1. ByteAt(nm, k) = nm[k + 1] /\ WidthAt(nm, k) = 2
      BY <1>2, <2>2 DEF ByteAt, WidthAt
    <3> QED
      BY <1>1, <2>1, <3>1
  <2>3. CASE nm[k + 1] \notin Special
    <3>1. ByteAt(nm, k) = Number(nm, k + 1) /\ WidthAt(nm, k) = 4
      BY <1>2, <2>3 DEF ByteAt, WidthAt
    <3> QED
      BY <1>1, <2>1, <2>3, <3>1
  <2> QED
    BY <2>2, <2>3
<1>3. CASE nm[k] # Backslash
  BY <1>1, <1>3 DEF ValidAt, ByteAt, WidthAt
<1> QED
  BY <1>2, <1>3

\* The types at first,
LEMMA InitType == CodecInit => CodecTypeOK
<1>1. <<>> \in Seq(Char) /\ <<>> \in Seq(Seq(Char)) /\ Len(<<>>) = 0
  BY EmptySeq
<1>2. ASSUME NEW l \in Seq(Seq(Char)), JoinStart(l) PROVE CodecTypeOK
  BY <1>1, <1>2 DEF JoinStart, AtStart, CodecTypeOK
<1>3. ASSUME NEW d \in Seq(Char), SliceStart(d) PROVE CodecTypeOK
  <2>1. Len(d) \in Nat
    BY LenProperties
  <2> QED
    BY <1>1, <1>3, <2>1 DEF SliceStart, AtStart, CodecTypeOK
<1> QED
  BY <1>2, <1>3 DEF CodecInit

\* and after a step: DomainSlice does not leave the name.
LEMMA NextType == ASSUME CodecTypeOK, [CodecNext]_codecVars PROVE CodecTypeOK'
<1> USE DEF CodecTypeOK
<1>1. Len(name) \in Nat /\ Len(labels) \in Nat
  BY LenProperties
<1>2. CASE JoinByte
  <2>1. labels[ln][cn] \in Char
    <3>1. ln \in 1 .. Len(labels) /\ cn \in 1 .. Len(labels[ln])
      <4>1. ln \in 1 .. Len(labels)
        BY <1>1, <1>2 DEF JoinByte, InLabel
      <4>2. Len(labels[ln]) \in Nat
        BY <4>1, LabelType
      <4> QED
        BY <1>2, <4>1, <4>2 DEF JoinByte, InLabel
    <3> QED
      BY <3>1, LabelType
  <2>2. name' \in Seq(Char) /\ Len(name') >= Len(name) /\ Len(name') \in Nat
    <3>1. Escape(labels[ln][cn]) \in Seq(Char)
      BY <2>1, EscapeType
    <3>2. Len(Escape(labels[ln][cn])) \in Nat
      BY <3>1, LenProperties
    <3>3. name \o Escape(labels[ln][cn]) \in Seq(Char)
      BY <3>1, ConcatProperties
    <3>4. Len(name \o Escape(labels[ln][cn])) = Len(name) + Len(Escape(labels[ln][cn]))
      BY <3>1, ConcatProperties
    <3> QED
      BY <1>1, <1>2, <3>2, <3>3, <3>4 DEF JoinByte
  <2>3. next' \in 1 .. Len(name') + 1
    BY <1>1, <1>2, <2>2 DEF JoinByte, sliceVars
  <2> QED
    BY <1>2, <2>2, <2>3 DEF JoinByte, sliceVars
<1>3. CASE JoinLabel
  <2>1. Dot \in Char
    BY DEF Dot, Char
  <2>2. name' \in Seq(Char) /\ Len(name') = Len(name) + 1
    BY <1>3, <2>1, AppendProperties DEF JoinLabel
  <2> QED
    BY <1>1, <1>3, <2>2 DEF JoinLabel, sliceVars
<1>4. CASE JoinDone \/ SliceLabel \/ SliceDone \/ NoRoom \/ BadEscape \/ BadLabel
  <2>1. <<>> \in Seq(Char)
    BY EmptySeq
  <2> QED
    BY <1>4, <2>1
       DEF JoinDone, SliceLabel, SliceDone, NoRoom, BadEscape, BadLabel, joinVars, sliceVars
<1>5. CASE UnescapeByte
  <2>1. next \in 1 .. Len(name) /\ ValidAt(name, next)
    BY <1>1, <1>5 DEF UnescapeByte, AtEnd
  <2>2. ByteAt(name, next) \in Char /\ next + WidthAt(name, next) \in 1 .. Len(name) + 1
    BY <2>1, ReadType
  <2>3. out' \in Seq(Char)
    BY <1>5, <2>2, AppendProperties DEF UnescapeByte
  <2> QED
    BY <1>5, <2>2, <2>3 DEF UnescapeByte, joinVars
<1>6. CASE LabelDone
  <2>1. slices' \in Seq(Seq(Char))
    BY <1>6, AppendProperties DEF LabelDone
  <2>2. next' \in 1 .. Len(name) + 1
    BY <1>1, <1>6 DEF LabelDone
  <2> QED
    BY <1>6, <2>1, <2>2 DEF LabelDone, joinVars
<1>7. CASE Normalize
  <2>1. <<>> \in Seq(Char) /\ <<>> \in Seq(Seq(Char)) /\ Len(<<>>) = 0
    BY EmptySeq
  <2> QED
    BY <1>7, <2>1 DEF Normalize
<1>8. CASE UNCHANGED codecVars
  BY <1>8 DEF codecVars, joinVars, sliceVars
<1> QED
  BY <1>2, <1>3, <1>4, <1>5, <1>6, <1>7, <1>8 DEF CodecNext
-----------------------------------------------------------------------------
(* DomainFrom makes the map *)

\* A place in a name of length n is one in a longer name.
LEMMA PlaceGrows ==
    ASSUME NEW n \in Nat, NEW n2 \in Nat, n <= n2, NEW i \in Nat, i >= 1
    PROVE  /\ i <= n => i \in 1 .. n /\ i <= n2
           /\ i + 1 <= n => i \in 1 .. n /\ i + 1 \in 1 .. n /\ i + 1 <= n2
OBVIOUS

\* What is in a label is not behind it.
LEMMA NotBehind ==
    ASSUME NEW n \in Nat, NEW i \in Nat, i <= n
    PROVE  ~(i > n)
OBVIOUS

\* A place in the name keeps its byte when the name grows, and the map does not
\* change there.
LEMMA PlacedKept ==
    ASSUME NEW nm, NEW nm2, NEW lb, NEW pos, NEW pos2, NEW m \in Nat, NEW j \in Nat,
           Len(nm) \in Nat, Len(nm2) \in Nat, Len(nm) <= Len(nm2),
           Len(lb) \in Nat, Len(lb[m]) \in Nat,
           \A i \in 1 .. Len(nm) : nm2[i] = nm[i],
           pos[m][j] \in Nat,
           pos2[m][j] = pos[m][j],
           j <= Len(lb[m]) => pos2[m][j + 1] = pos[m][j + 1],
           j > Len(lb[m]) /\ m < Len(lb) => pos2[m + 1][1] = pos[m + 1][1],
           Placed(nm, lb, pos, m, j)
    PROVE  Placed(nm2, lb, pos2, m, j)
<1>1. CASE j <= Len(lb[m]) /\ lb[m][j] \in Special
  <2>1. /\ pos[m][j] >= 1 /\ pos[m][j] + 1 <= Len(nm)
        /\ nm[pos[m][j]] = Backslash /\ nm[pos[m][j] + 1] = lb[m][j]
        /\ pos[m][j + 1] = pos[m][j] + 2
    BY <1>1 DEF Placed
  <2>2. /\ pos[m][j] \in 1 .. Len(nm) /\ pos[m][j] + 1 \in 1 .. Len(nm)
        /\ pos[m][j] + 1 <= Len(nm2)
    BY <2>1, PlaceGrows, Zenon
  <2>3. nm2[pos[m][j]] = Backslash /\ nm2[pos[m][j] + 1] = lb[m][j]
    BY <2>1, <2>2, Zenon
  <2>4. ~(j > Len(lb[m]))
    BY <1>1, NotBehind, Zenon
  <2> QED
    BY <1>1, <2>1, <2>2, <2>3, <2>4, Zenon DEF Placed
<1>2. CASE j <= Len(lb[m]) /\ lb[m][j] \notin Special
  <2>1. /\ pos[m][j] >= 1 /\ pos[m][j] <= Len(nm) /\ nm[pos[m][j]] = lb[m][j]
        /\ pos[m][j + 1] = pos[m][j] + 1
    BY <1>2 DEF Placed
  <2>2. pos[m][j] \in 1 .. Len(nm) /\ pos[m][j] <= Len(nm2)
    BY <2>1, PlaceGrows, Zenon
  <2>3. nm2[pos[m][j]] = lb[m][j]
    BY <2>1, <2>2, Zenon
  <2>4. ~(j > Len(lb[m]))
    BY <1>2, NotBehind, Zenon
  <2> QED
    BY <1>2, <2>1, <2>2, <2>3, <2>4, Zenon DEF Placed
<1>3. CASE j > Len(lb[m])
  BY <1>3 DEF Placed
<1> QED
  BY <1>1, <1>2, <1>3

\* What the name is after a byte, or a dot, was appended.
LEMMA NameGrows ==
    ASSUME NEW nm \in Seq(Char), NEW e \in Seq(Char)
    PROVE  /\ Len(nm) \in Nat /\ Len(e) \in Nat
           /\ Len(nm \o e) = Len(nm) + Len(e)
           /\ \A i \in 1 .. Len(nm) : (nm \o e)[i] = nm[i]
           /\ \A i \in 1 .. Len(e) : (nm \o e)[Len(nm) + i] = e[i]
<1>1. Len(nm) \in Nat /\ Len(e) \in Nat
  BY LenProperties
<1>2. Len(nm \o e) = Len(nm) + Len(e)
  BY ConcatProperties
<1>3. \A i \in 1 .. Len(nm) : (nm \o e)[i] = nm[i]
  BY <1>1, ConcatProperties
<1>4. ASSUME NEW i \in 1 .. Len(e) PROVE (nm \o e)[Len(nm) + i] = e[i]
  BY <1>1, ConcatProperties
<1> QED
  BY <1>1, <1>2, <1>3, <1>4

\* The map after the next byte of a label.
LEMMA JoinsByte ==
    ASSUME NEW nm \in Seq(Char), NEW lb \in Seq(Seq(Char)), NEW pos \in Pos,
           NEW n \in 1 .. Len(lb), NEW c \in 1 .. Len(lb[n]),
           Joined(nm, lb, n, c, pos)
    PROVE  \E pos2 \in Pos : Joined(nm \o Escape(lb[n][c]), lb, n, c + 1, pos2)
<1> DEFINE e == Escape(lb[n][c])
           nm2 == nm \o e
           pos2 == [m \in Nat |-> [j \in Nat |->
                      IF m = n /\ j = c + 1 THEN Len(nm2) + 1 ELSE pos[m][j]]]
<1>1. Len(lb) \in Nat /\ \A m \in 1 .. Len(lb) : Len(lb[m]) \in Nat
  BY LabelType
<1>2. lb[n][c] \in Char /\ n \in Nat /\ c \in Nat /\ n >= 1 /\ c >= 1
  BY <1>1, LabelType
<1>3. /\ e \in Seq(Char)
      /\ lb[n][c] \in Special => Len(e) = 2 /\ e[1] = Backslash /\ e[2] = lb[n][c]
      /\ lb[n][c] \notin Special => Len(e) = 1 /\ e[1] = lb[n][c]
  BY <1>2, EscapeType
<1>4. /\ Len(nm) \in Nat /\ Len(e) \in Nat /\ Len(nm2) = Len(nm) + Len(e)
      /\ \A i \in 1 .. Len(nm) : nm2[i] = nm[i]
      /\ \A i \in 1 .. Len(e) : nm2[Len(nm) + i] = e[i]
  BY <1>3, NameGrows
<1>5. /\ pos2 \in Pos /\ pos2[n][c + 1] = Len(nm2) + 1
      /\ \A m \in Nat, j \in Nat :
           pos[m][j] \in Nat /\ (m # n \/ j # c + 1 => pos2[m][j] = pos[m][j])
  <2>1. Len(nm2) + 1 \in Nat /\ c + 1 \in Nat
    BY <1>2, <1>4
  <2>2. \A m \in Nat : \A j \in Nat : pos[m][j] \in Nat
    BY DEF Pos
  <2> HIDE DEF nm2
  <2>3. pos2 \in Pos
    BY <2>1, <2>2 DEF Pos
  <2>4. ASSUME NEW m \in Nat, NEW j \in Nat
        PROVE  pos2[m][j] = IF m = n /\ j = c + 1 THEN Len(nm2) + 1 ELSE pos[m][j]
    OBVIOUS
  <2> HIDE DEF pos2
  <2> QED
    BY <1>2, <2>1, <2>2, <2>3, <2>4
<1> HIDE DEF e, nm2, pos2
<1>6. pos2[1][1] = 1 /\ pos[n][c] = Len(nm) + 1
  <2>1. pos2[1][1] = pos[1][1]
    <3>1. 1 # c + 1 /\ 1 \in Nat
      BY <1>2
    <3> QED
      BY <1>5, <3>1
  <2>2. pos[1][1] = 1 /\ pos[n][c] = Len(nm) + 1
    BY DEF Joined
  <2> QED
    BY <2>1, <2>2
<1>7. ASSUME NEW m \in 1 .. n, NEW j \in 1 .. Len(lb[m]) + 1, m < n \/ j < c + 1
      PROVE  Placed(nm2, lb, pos2, m, j)
  <2>1. m \in Nat /\ j \in Nat /\ m \in 1 .. Len(lb) /\ Len(lb[m]) \in Nat
    BY <1>1
  <2>2. CASE m = n /\ j = c
    <3>1. pos2[m][j] = Len(nm) + 1 /\ pos2[m][j + 1] = Len(nm2) + 1
      BY <1>2, <1>5, <1>6, <2>2
    <3>2. j <= Len(lb[m]) /\ ~(j > Len(lb[m]))
      BY <1>1, <2>1, <2>2
    <3>3. CASE lb[n][c] \in Special
      <4>1. Len(e) = 2 /\ e[1] = Backslash /\ e[2] = lb[m][j]
        BY <1>3, <2>2, <3>3
      <4>2. 1 \in 1 .. Len(e) /\ 2 \in 1 .. Len(e)
        BY <4>1
      <4>3. nm2[Len(nm) + 1] = Backslash /\ nm2[Len(nm) + 2] = lb[m][j]
        BY <1>4, <4>1, <4>2
      <4>4. Len(nm2) = Len(nm) + 2 /\ pos2[m][j] + 1 = Len(nm) + 2
        BY <1>4, <3>1, <4>1
      <4>5. nm2[pos2[m][j]] = Backslash /\ nm2[pos2[m][j] + 1] = lb[m][j]
        BY <3>1, <4>3, <4>4
      <4>6. /\ pos2[m][j] >= 1 /\ pos2[m][j + 1] = pos2[m][j] + 2
            /\ pos2[m][j] + 1 <= Len(nm2)
        <5>1. Len(nm) + 1 >= 1 /\ Len(nm2) + 1 = (Len(nm) + 1) + 2
          BY <1>4, <4>4
        <5>2. pos2[m][j] + 1 <= Len(nm2)
          BY <1>4, <4>4
        <5> QED
          BY <3>1, <5>1, <5>2
      <4>7. lb[m][j] \in Special
        BY <2>2, <3>3
      <4> QED
        BY <3>2, <4>5, <4>6, <4>7, Zenon DEF Placed
    <3>4. CASE lb[n][c] \notin Special
      <4>1. Len(e) = 1 /\ e[1] = lb[m][j]
        BY <1>3, <2>2, <3>4
      <4>2. 1 \in 1 .. Len(e)
        BY <4>1
      <4>3. nm2[Len(nm) + 1] = lb[m][j]
        BY <1>4, <4>1, <4>2
      <4>4. nm2[pos2[m][j]] = lb[m][j]
        BY <3>1, <4>3
      <4>5. /\ pos2[m][j] >= 1 /\ pos2[m][j + 1] = pos2[m][j] + 1
            /\ pos2[m][j] <= Len(nm2)
        BY <1>4, <3>1, <4>1
      <4>6. lb[m][j] \notin Special
        BY <2>2, <3>4
      <4> QED
        BY <3>2, <4>4, <4>5, <4>6, Zenon DEF Placed
    <3> QED
      BY <3>3, <3>4
  <2>3. CASE m < n \/ j < c
    <3>1. Placed(nm, lb, pos, m, j)
      BY <2>3 DEF Joined
    <3>2. pos2[m][j] = pos[m][j] /\ (j <= Len(lb[m]) => pos2[m][j + 1] = pos[m][j + 1])
      <4>1. (m # n \/ j # c + 1) /\ (m # n \/ j + 1 # c + 1) /\ j + 1 \in Nat
        <5>1. m # n \/ j < c
          BY <1>2, <2>1, <2>3
        <5> QED
          BY <1>2, <2>1, <5>1
      <4> QED
        BY <1>5, <2>1, <4>1
    <3>3. pos2[m + 1][1] = pos[m + 1][1]
      <4>1. 1 # c + 1 /\ m + 1 \in Nat /\ 1 \in Nat
        BY <1>2, <2>1
      <4> QED
        BY <1>5, <4>1
    <3>4. Len(nm) <= Len(nm2) /\ Len(nm2) \in Nat
      BY <1>4
    <3>5. pos[m][j] \in Nat
      BY <1>5, <2>1
    <3> QED
      BY <1>1, <1>4, <2>1, <3>1, <3>2, <3>3, <3>4, <3>5, PlacedKept
  <2> QED
    BY <1>2, <1>7, <2>1, <2>2, <2>3
<1>8. Joined(nm2, lb, n, c + 1, pos2)
  BY <1>5, <1>6, <1>7 DEF Joined
<1> QED
  BY <1>5, <1>8 DEF nm2, e

\* The map after the dot behind a label.
LEMMA JoinsLabel ==
    ASSUME NEW nm \in Seq(Char), NEW lb \in Seq(Seq(Char)), NEW pos \in Pos,
           NEW n \in 1 .. Len(lb), n < Len(lb),
           Joined(nm, lb, n, Len(lb[n]) + 1, pos)
    PROVE  \E pos2 \in Pos : Joined(Append(nm, Dot), lb, n + 1, 1, pos2)
<1> DEFINE nm2 == Append(nm, Dot)
           pos2 == [m \in Nat |-> [j \in Nat |->
                      IF m = n + 1 /\ j = 1 THEN Len(nm2) + 1 ELSE pos[m][j]]]
<1>1. Len(lb) \in Nat /\ \A m \in 1 .. Len(lb) : Len(lb[m]) \in Nat
  BY LabelType
<1>2. n \in Nat /\ n >= 1 /\ Len(lb[n]) \in Nat /\ Dot \in Char
  BY <1>1 DEF Dot, Char
<1>3. Len(nm) \in Nat
  BY LenProperties
<1>4. /\ Len(nm2) = Len(nm) + 1 /\ nm2[Len(nm) + 1] = Dot
      /\ \A i \in 1 .. Len(nm) : nm2[i] = nm[i]
  BY <1>2, <1>3, AppendProperties
<1>5. /\ pos2 \in Pos /\ pos2[n + 1][1] = Len(nm2) + 1
      /\ \A m \in Nat, j \in Nat :
           pos[m][j] \in Nat /\ (m # n + 1 \/ j # 1 => pos2[m][j] = pos[m][j])
  <2>1. Len(nm2) + 1 \in Nat /\ n + 1 \in Nat
    BY <1>2, <1>3, <1>4
  <2>2. \A m \in Nat : \A j \in Nat : pos[m][j] \in Nat
    BY DEF Pos
  <2> HIDE DEF nm2
  <2>3. pos2 \in Pos
    BY <2>1, <2>2 DEF Pos
  <2>4. ASSUME NEW m \in Nat, NEW j \in Nat
        PROVE  pos2[m][j] = IF m = n + 1 /\ j = 1 THEN Len(nm2) + 1 ELSE pos[m][j]
    OBVIOUS
  <2> HIDE DEF pos2
  <2> QED
    BY <1>2, <2>1, <2>2, <2>3, <2>4
<1> HIDE DEF nm2, pos2
<1>6. pos2[1][1] = 1 /\ pos[n][Len(lb[n]) + 1] = Len(nm) + 1
  <2>1. pos2[1][1] = pos[1][1]
    <3>1. 1 # n + 1 /\ 1 \in Nat
      BY <1>2
    <3> QED
      BY <1>5, <3>1
  <2>2. pos[1][1] = 1 /\ pos[n][Len(lb[n]) + 1] = Len(nm) + 1
    BY DEF Joined
  <2> QED
    BY <2>1, <2>2
<1>7. ASSUME NEW m \in 1 .. n + 1, NEW j \in 1 .. Len(lb[m]) + 1, m < n + 1 \/ j < 1
      PROVE  Placed(nm2, lb, pos2, m, j)
  <2>1. /\ m \in Nat /\ m \in 1 .. n /\ m \in 1 .. Len(lb)
        /\ Len(lb[m]) \in Nat /\ j \in Nat /\ j >= 1
    <3>1. m \in 1 .. Len(lb)
      BY <1>1, <1>2
    <3>2. Len(lb[m]) \in Nat
      BY <1>1, <3>1
    <3>3. j \in Nat /\ j >= 1
      BY <3>2
    <3>4. m \in 1 .. n
      BY <1>2, <1>7, <3>3
    <3> QED
      BY <3>1, <3>2, <3>3, <3>4
  <2>2. pos2[m][j] = pos[m][j] /\ pos2[m][j + 1] = pos[m][j + 1]
    <3>1. m # n + 1 /\ j + 1 \in Nat
      BY <1>2, <2>1
    <3> QED
      BY <1>5, <2>1, <3>1
  <2>3. CASE m = n /\ j = Len(lb[n]) + 1
    <3>1. pos2[m][j] = Len(nm) + 1 /\ pos2[m + 1][1] = Len(nm2) + 1
      BY <1>5, <1>6, <2>2, <2>3
    <3>2. ~(j <= Len(lb[m]))
      BY <2>1, <2>3
    <3> QED
      BY <1>3, <1>4, <2>1, <3>1, <3>2 DEF Placed
  <2>4. CASE m < n \/ j < Len(lb[n]) + 1
    <3>1. Placed(nm, lb, pos, m, j)
      BY <2>1, <2>4 DEF Joined
    <3>2. m < n => pos2[m + 1][1] = pos[m + 1][1]
      BY <1>2, <1>5, <2>1
    <3>3. j > Len(lb[m]) => m < n
      BY <1>2, <2>1, <2>4
    <3>4. Len(nm) <= Len(nm2) /\ Len(nm2) \in Nat
      BY <1>3, <1>4
    <3>5. pos[m][j] \in Nat
      BY <1>5, <2>1
    <3> QED
      BY <1>1, <1>2, <1>3, <1>4, <2>1, <2>2, <3>1, <3>2, <3>3, <3>4, <3>5, PlacedKept
  <2>5. m = n \/ m < n
    BY <1>2, <2>1
  <2>6. m = n => j = Len(lb[n]) + 1 \/ j < Len(lb[n]) + 1
    BY <1>2, <2>1
  <2> QED
    BY <2>3, <2>4, <2>5, <2>6
<1>8. Joined(nm2, lb, n + 1, 1, pos2)
  BY <1>5, <1>6, <1>7 DEF Joined
<1> QED
  BY <1>5, <1>8 DEF nm2
-----------------------------------------------------------------------------
(* DomainSlice follows the map *)

\* What is not before the last is the last.
LEMMA TheLast ==
    ASSUME NEW n \in Nat, NEW i \in 1 .. n, ~(i < n)
    PROVE  i = n
OBVIOUS

\* What is not in a label, but in the range of it and its end, is at the end.
LEMMA TheEnd ==
    ASSUME NEW n \in Nat, NEW i \in Nat, i >= 1, i <= n + 1, i \notin 1 .. n
    PROVE  i = n + 1
OBVIOUS

\* What is not the last, behind n others, is one of them.
LEMMA OneBehind ==
    ASSUME NEW n \in Nat, NEW i \in 1 .. n + 1
    PROVE  i \in 1 .. n \/ (i = n + 1 /\ ~(i < n + 1))
OBVIOUS

\* Where the map has a byte of a label, avahi_unescape_label reads it.
LEMMA ReadsByte ==
    ASSUME NEW nm \in Seq(Char), NEW lb \in Seq(Seq(Char)), NEW pos \in Pos,
           AllPlaced(nm, lb, pos), NEW m \in 1 .. Len(lb), NEW j \in 1 .. Len(lb[m])
    PROVE  /\ pos[m][j] \in 1 .. Len(nm) /\ nm[pos[m][j]] # Dot
           /\ ValidAt(nm, pos[m][j]) /\ ByteAt(nm, pos[m][j]) = lb[m][j]
           /\ pos[m][j + 1] = pos[m][j] + WidthAt(nm, pos[m][j])
           /\ WidthAt(nm, pos[m][j]) = IF lb[m][j] \in Special THEN 2 ELSE 1
<1>1. PICK at : at = pos[m][j]
  OBVIOUS
<1>2. Len(lb) \in Nat /\ Len(lb[m]) \in Nat /\ Len(nm) \in Nat
  BY LabelType, LenProperties
<1>3. m \in Nat /\ j \in Nat /\ at \in Nat
  BY <1>1, <1>2 DEF Pos
<1>4. Placed(nm, lb, pos, m, j) /\ j <= Len(lb[m])
  <2>1. j \in 1 .. Len(lb[m]) + 1 /\ j <= Len(lb[m])
    BY <1>2
  <2> QED
    BY <2>1 DEF AllPlaced, PlacedTo
<1>5. CASE lb[m][j] \in Special
  <2>1. /\ at >= 1 /\ at + 1 <= Len(nm) /\ pos[m][j + 1] = at + 2
        /\ nm[at] = Backslash /\ nm[at + 1] = lb[m][j]
    BY <1>1, <1>4, <1>5 DEF Placed
  <2>2. Backslash # Dot
    BY DEF Backslash, Dot
  <2>3. ValidAt(nm, at) /\ ByteAt(nm, at) = lb[m][j] /\ WidthAt(nm, at) = 2
    BY <1>2, <1>3, <1>5, <2>1 DEF ValidAt, ByteAt, WidthAt
  <2>4. at \in 1 .. Len(nm)
    BY <1>2, <1>3, <2>1
  <2> QED
    BY <1>1, <1>5, <2>1, <2>2, <2>3, <2>4
<1>6. CASE lb[m][j] \notin Special
  <2>1. /\ at >= 1 /\ at <= Len(nm) /\ pos[m][j + 1] = at + 1 /\ nm[at] = lb[m][j]
    BY <1>1, <1>4, <1>6 DEF Placed
  <2>2. nm[at] # Dot /\ nm[at] # Backslash
    BY <1>6, <2>1 DEF Special
  <2>3. ValidAt(nm, at) /\ ByteAt(nm, at) = lb[m][j] /\ WidthAt(nm, at) = 1
    BY <2>1, <2>2 DEF ValidAt, ByteAt, WidthAt
  <2>4. at \in 1 .. Len(nm)
    BY <1>2, <1>3, <2>1
  <2> QED
    BY <1>1, <1>6, <2>1, <2>2, <2>3, <2>4
<1> QED
  BY <1>5, <1>6

\* Behind the last byte of a label it finds the dot, or the end.
LEMMA ReadsEnd ==
    ASSUME NEW nm \in Seq(Char), NEW lb \in Seq(Seq(Char)), NEW pos \in Pos,
           AllPlaced(nm, lb, pos), NEW m \in 1 .. Len(lb), NEW j, j = Len(lb[m]) + 1
    PROVE  /\ m < Len(lb) => /\ pos[m][j] \in 1 .. Len(nm) /\ nm[pos[m][j]] = Dot
                             /\ pos[m + 1][1] = pos[m][j] + 1
           /\ ~(m < Len(lb)) => pos[m][j] = Len(nm) + 1 /\ m = Len(lb)
<1>1. Len(lb) \in Nat /\ Len(lb[m]) \in Nat /\ Len(nm) \in Nat
  BY LabelType, LenProperties
<1>2. m \in Nat /\ j \in Nat /\ pos[m][j] \in Nat
  <2>1. m \in Nat /\ j \in Nat
    BY <1>1
  <2> QED
    BY <2>1 DEF Pos
<1>3. CASE m < Len(lb)
  <2>1. Placed(nm, lb, pos, m, j)
    <3>1. j \in 1 .. Len(lb[m]) + 1
      BY <1>1
    <3> QED
      BY <3>1 DEF AllPlaced, PlacedTo
  <2> QED
    BY <1>1, <1>2, <1>3, <2>1 DEF Placed
<1>4. CASE ~(m < Len(lb))
  <2>1. m = Len(lb)
    BY <1>1, <1>4
  <2> QED
    BY <1>4, <2>1 DEF AllPlaced, PlacedTo
<1> QED
  BY <1>3, <1>4

\* Where the next label begins in the map, so does the reading of it.
LEMMA StartsLabel ==
    ASSUME NEW nm \in Seq(Char), NEW lb \in Seq(Seq(Char)), NEW pos \in Pos,
           NEW sl \in Seq(Seq(Char)), NEW nx \in Nat,
           AllPlaced(nm, lb, pos), Sliced(nm, lb, sl, nx, pos), nx <= Len(nm)
    PROVE  Unescaped(lb, sl, <<>>, nx, pos)
<1>1. /\ Len(lb) \in Nat /\ Len(nm) \in Nat /\ Len(sl) \in Nat /\ Len(<<>>) = 0
      /\ sl = <<>> => Len(sl) = 0
  BY LabelType, LenProperties, EmptySeq
<1>2. Len(sl) < Len(lb) /\ nx = pos[Len(sl) + 1][1] /\ Len(sl) + 1 \in 1 .. Len(lb)
  BY <1>1 DEF Sliced
<1>3. Len(lb[Len(sl) + 1]) \in Nat
  BY <1>2, LabelType
<1>4. nx >= 1
  <2>1. Placed(nm, lb, pos, Len(sl) + 1, 1)
    BY <1>2, <1>3 DEF AllPlaced, PlacedTo
  <2> QED
    BY <1>2, <2>1 DEF Placed
<1>5. sl = <<>> => nx = 1
  BY <1>1, <1>2 DEF AllPlaced, PlacedTo
<1> QED
  BY <1>1, <1>2, <1>3, <1>4, <1>5 DEF Sliced, Unescaped

\* A byte that is read is the next of the label.
LEMMA ReadsNext ==
    ASSUME NEW nm \in Seq(Char), NEW lb \in Seq(Seq(Char)), NEW pos \in Pos,
           NEW sl \in Seq(Seq(Char)), NEW o \in Seq(Char), NEW nx \in Nat,
           AllPlaced(nm, lb, pos), Unescaped(lb, sl, o, nx, pos),
           nx <= Len(nm), nm[nx] # Dot
    PROVE  /\ ValidAt(nm, nx)
           /\ Unescaped(lb, sl, Append(o, ByteAt(nm, nx)), nx + WidthAt(nm, nx), pos)
<1> DEFINE m == Len(sl) + 1
           j == Len(o) + 1
           o2 == Append(o, lb[m][j])
           nx2 == nx + WidthAt(nm, nx)
<1>1. /\ Len(lb) \in Nat /\ Len(nm) \in Nat /\ Len(sl) \in Nat /\ Len(o) \in Nat
      /\ sl = <<>> => Len(sl) = 0
  BY LabelType, LenProperties, EmptySeq
<1>2. m \in 1 .. Len(lb) /\ nx = pos[m][j] /\ j <= Len(lb[m]) + 1
  <2>1. Len(sl) < Len(lb) /\ nx = pos[m][j] /\ Len(o) <= Len(lb[m])
    BY DEF Unescaped
  <2>2. m \in 1 .. Len(lb)
    BY <1>1, <2>1
  <2>3. Len(lb[m]) \in Nat
    BY <2>2, LabelType
  <2> QED
    BY <1>1, <2>1, <2>2, <2>3
<1>3. Len(lb[m]) \in Nat
  BY <1>2, LabelType
<1>4. j = Len(o) + 1 /\ j \in Nat /\ j >= 1
  BY <1>1
<1> HIDE DEF m, j
<1>5. j \in 1 .. Len(lb[m])
  <2>1. nx # Len(nm) + 1
    BY <1>1
  <2>2. ASSUME j = Len(lb[m]) + 1 PROVE FALSE
    <3>1. m < Len(lb) => nm[nx] = Dot
      <4>1. m \in 1 .. Len(lb) /\ nx = pos[m][j]
        BY <1>2, Zenon
      <4>2. j \in 1 .. Len(lb[m]) + 1 /\ j > Len(lb[m])
        BY <1>3, <2>2
      <4>3. Placed(nm, lb, pos, m, j)
        BY <4>1, <4>2, Zenon DEF AllPlaced, PlacedTo
      <4> QED
        BY <4>1, <4>2, <4>3, Zenon DEF Placed
    <3>2. ~(m < Len(lb)) => nx = Len(nm) + 1
      <4>1. m \in 1 .. Len(lb) /\ nx = pos[m][j]
        BY <1>2
      <4>2. ~(m < Len(lb)) => m = Len(lb)
        BY <1>1, <4>1, TheLast, Zenon
      <4>3. m = Len(lb) => pos[m][j] = Len(nm) + 1
        BY <2>2, Zenon DEF AllPlaced, PlacedTo
      <4> QED
        BY <4>1, <4>2, <4>3, Zenon
    <3> QED
      BY <2>1, <3>1, <3>2
  <2> QED
    BY <1>2, <1>3, <1>4, <2>2
<1>6. /\ ValidAt(nm, nx) /\ ByteAt(nm, nx) = lb[m][j] /\ pos[m][j + 1] = nx2
      /\ WidthAt(nm, nx) = IF lb[m][j] \in Special THEN 2 ELSE 1
  BY <1>2, <1>5, ReadsByte
<1>7. lb[m][j] \in Char
  BY <1>2, <1>5, LabelType
<1>8. Len(o2) = j /\ o2[j] = lb[m][j] /\ \A k \in 1 .. Len(o) : o2[k] = o[k]
  BY <1>1, <1>7, <1>4, AppendProperties
<1> HIDE DEF o2
<1>9. \A k \in 1 .. Len(o2) : o2[k] = lb[m][k]
  <2>1. \A k \in 1 .. Len(o) : o[k] = lb[m][k]
    BY DEF Unescaped, m
  <2>2. ASSUME NEW k \in 1 .. Len(o2) PROVE k \in 1 .. Len(o) \/ k = j
    BY <1>1, <1>8, <1>4
  <2> QED
    BY <1>8, <2>1, <2>2
<1>10. nx2 >= Len(o2) + 1 /\ (sl # <<>> => nx2 >= Len(o2) + 2)
  <2>1. nx >= Len(o) + 1 /\ (sl # <<>> => nx >= Len(o) + 2)
    BY DEF Unescaped
  <2>2. WidthAt(nm, nx) \in {1, 2}
    BY <1>6
  <2> QED
    BY <1>1, <1>8, <1>4, <2>1, <2>2
<1>11. sl = <<>> => (nx2 = Len(o2) + 1 <=> \A k \in 1 .. Len(o2) : lb[1][k] \notin Special)
  <2> SUFFICES ASSUME sl = <<>>
               PROVE  nx2 = Len(o2) + 1 <=> \A k \in 1 .. Len(o2) : lb[1][k] \notin Special
    OBVIOUS
  <2>1. m = 1
    BY <1>1 DEF m
  <2>2. nx = Len(o) + 1 <=> \A k \in 1 .. Len(o) : lb[1][k] \notin Special
    BY DEF Unescaped
  <2>3. nx >= Len(o) + 1
    BY DEF Unescaped
  <2>4. nx2 = Len(o2) + 1 <=> nx = Len(o) + 1 /\ lb[1][j] \notin Special
    <3>1. PICK w : w = WidthAt(nm, nx)
      OBVIOUS
    <3>2. nx2 = nx + w /\ w = IF lb[1][j] \in Special THEN 2 ELSE 1
      BY <1>6, <2>1, <3>1, Zenon
    <3>3. Len(o2) = Len(o) + 1
      BY <1>4, <1>8, Zenon
    <3> HIDE DEF nx2
    <3>4. CASE lb[1][j] \in Special
      BY <1>1, <2>3, <3>2, <3>3, <3>4
    <3>5. CASE lb[1][j] \notin Special
      BY <1>1, <2>3, <3>2, <3>3, <3>5
    <3> QED
      BY <3>4, <3>5, Zenon
  <2>5. 1 .. Len(o2) = 1 .. Len(o) \cup {j}
    BY <1>1, <1>8, <1>4
  <2> QED
    BY <2>2, <2>4, <2>5, Zenon
<1> QED
  <2>1. Unescaped(lb, sl, o2, nx2, pos)
    <3>1. Len(sl) < Len(lb) /\ \A k \in 1 .. Len(sl) : sl[k] = lb[k]
      BY DEF Unescaped
    <3>2. Len(o2) <= Len(lb[m])
      BY <1>3, <1>5, <1>8
    <3>3. nx2 = pos[m][Len(o2) + 1]
      BY <1>6, <1>8
    <3> QED
      BY <1>9, <1>10, <1>11, <3>1, <3>2, <3>3, Zenon DEF Unescaped, m
  <2> QED
    BY <1>6, <2>1 DEF o2

\* A label that ends is all of the label.
LEMMA EndsLabel ==
    ASSUME NEW nm \in Seq(Char), NEW lb \in Seq(Seq(Char)), NEW pos \in Pos,
           NEW sl \in Seq(Seq(Char)), NEW o \in Seq(Char), NEW nx \in Nat,
           AllPlaced(nm, lb, pos), Unescaped(lb, sl, o, nx, pos),
           nx <= Len(nm) => nm[nx] = Dot, Len(o) < Len(nm)
    PROVE  /\ Sliced(nm, lb, Append(sl, o), IF nx > Len(nm) THEN nx ELSE nx + 1, pos)
           /\ Len(sl) + 1 \in 1 .. Len(lb) /\ o = lb[Len(sl) + 1]
<1> DEFINE m == Len(sl) + 1
           j == Len(o) + 1
           sl2 == Append(sl, o)
           nx2 == IF nx > Len(nm) THEN nx ELSE nx + 1
<1>1. /\ Len(lb) \in Nat /\ Len(nm) \in Nat /\ Len(sl) \in Nat /\ Len(o) \in Nat
      /\ sl = <<>> => Len(sl) = 0
  BY LabelType, LenProperties, EmptySeq
<1>2. m \in 1 .. Len(lb) /\ nx = pos[m][j] /\ j <= Len(lb[m]) + 1
  <2>1. Len(sl) < Len(lb) /\ nx = pos[m][j] /\ Len(o) <= Len(lb[m])
    BY DEF Unescaped
  <2>2. m \in 1 .. Len(lb)
    BY <1>1, <2>1
  <2>3. Len(lb[m]) \in Nat
    BY <2>2, LabelType
  <2> QED
    BY <1>1, <2>1, <2>2, <2>3
<1>3. Len(lb[m]) \in Nat /\ lb[m] \in Seq(Char)
  BY <1>2, LabelType
<1>4. /\ Len(sl2) = m /\ sl2[m] = o /\ \A k \in 1 .. Len(sl) : sl2[k] = sl[k]
      /\ sl2 # <<>>
  <2>1. Len(sl2) = m /\ sl2[m] = o /\ \A k \in 1 .. Len(sl) : sl2[k] = sl[k]
    BY <1>1, AppendProperties
  <2>2. Len(<<>>) = 0 /\ m # 0
    BY <1>1, EmptySeq
  <2> HIDE DEF m, sl2
  <2> QED
    BY <2>1, <2>2
<1>5. nx >= Len(o) + 1
  BY DEF Unescaped
<1>6. \A k \in 1 .. Len(sl) : sl[k] = lb[k]
  BY DEF Unescaped
<1>7. \A k \in 1 .. Len(o) : o[k] = lb[m][k]
  BY DEF Unescaped
<1>8. \A k \in 1 .. Len(sl2) : k \in 1 .. Len(sl) \/ k = m
  BY <1>1, <1>4
<1>9. j = Len(o) + 1 /\ j \in Nat /\ j >= 1
  BY <1>1
<1> HIDE DEF m, j, sl2
<1>10. j = Len(lb[m]) + 1
  <2>1. j \in 1 .. Len(lb[m]) => nx \in 1 .. Len(nm) /\ nm[nx] # Dot
    BY <1>2, ReadsByte
  <2>2. j \notin 1 .. Len(lb[m])
    BY <1>1, <2>1
  <2>3. Len(lb[m]) \in Nat /\ j \in Nat /\ j >= 1 /\ j <= Len(lb[m]) + 1
    BY <1>2, <1>3, <1>9
  <2> QED
    BY <2>2, <2>3, TheEnd, Zenon
<1>11. o = lb[m]
  <2>1. Len(o) = Len(lb[m])
    <3>1. \A x, y \in Nat : x + 1 = y + 1 => x = y
      OBVIOUS
    <3>2. Len(o) + 1 = Len(lb[m]) + 1
      BY <1>9, <1>10, Zenon
    <3> QED
      BY <1>1, <1>3, <3>1, <3>2, Zenon
  <2> QED
    BY <1>3, <1>7, <2>1, SeqEqual, Zenon
<1>12. \A k \in 1 .. Len(sl2) : sl2[k] = lb[k]
  BY <1>4, <1>6, <1>8, <1>11
<1>13. nx2 = IF m < Len(lb) THEN pos[m + 1][1] ELSE Len(nm) + 1
  <2>1. m < Len(lb) => nx \in 1 .. Len(nm) /\ pos[m + 1][1] = nx + 1
    BY <1>2, <1>10, ReadsEnd
  <2>2. ~(m < Len(lb)) => nx = Len(nm) + 1
    <3>1. m \in 1 .. Len(lb) /\ nx = pos[m][j]
      BY <1>2
    <3>2. ~(m < Len(lb)) => m = Len(lb)
      BY <1>1, <3>1, TheLast, Zenon
    <3>3. m = Len(lb) => pos[m][j] = Len(nm) + 1
      BY <1>10, Zenon DEF AllPlaced, PlacedTo
    <3> QED
      BY <3>1, <3>2, <3>3, Zenon
  <2> QED
    BY <1>1, <2>1, <2>2
<1>14. nx2 >= 2
  BY <1>1, <1>5
<1>15. m <= Len(lb)
  BY <1>1, <1>2
<1> HIDE DEF nx2
<1> QED
  <2>1. Sliced(nm, lb, sl2, nx2, pos)
    BY <1>4, <1>12, <1>13, <1>14, <1>15 DEF Sliced
  <2> QED
    BY <1>2, <1>11, <2>1 DEF sl2, nx2, m

\* At the end of the name all the labels are there, if the last is not empty.
LEMMA EndsName ==
    ASSUME NEW nm \in Seq(Char), NEW lb \in Seq(Seq(Char)), NEW pos \in Pos,
           NEW sl \in Seq(Seq(Char)), NEW nx \in Nat,
           AllPlaced(nm, lb, pos), Sliced(nm, lb, sl, nx, pos), nx > Len(nm),
           lb # <<>>, lb[Len(lb)] # <<>>
    PROVE  sl = lb
<1> DEFINE m == Len(sl) + 1
<1>1. Len(lb) \in Nat /\ Len(nm) \in Nat /\ Len(sl) \in Nat
  BY LabelType, LenProperties
<1>2. Len(sl) <= Len(lb) /\ \A k \in 1 .. Len(sl) : sl[k] = lb[k]
  BY DEF Sliced
<1>3. ~(Len(sl) < Len(lb))
  <2> SUFFICES ASSUME Len(sl) < Len(lb) PROVE FALSE
    OBVIOUS
  <2>1. m \in 1 .. Len(lb) /\ nx = pos[m][1]
    BY <1>1 DEF Sliced
  <2>2. Len(lb[m]) \in Nat /\ lb[m] \in Seq(Char)
    BY <2>1, LabelType
  <2> HIDE DEF m
  <2>3. 1 \notin 1 .. Len(lb[m])
    BY <1>1, <2>1, ReadsByte
  <2>4. Len(lb[m]) = 0 /\ 1 = Len(lb[m]) + 1
    BY <2>2, <2>3
  <2>5. ~(m < Len(lb)) => m = Len(lb)
    BY <2>1, <2>4, ReadsEnd
  <2>6. ~(m < Len(lb))
    <3>1. m < Len(lb) => pos[m][1] \in 1 .. Len(nm)
      <4>1. PICK e : e = Len(lb[m]) + 1
        OBVIOUS
      <4>2. m < Len(lb) => pos[m][e] \in 1 .. Len(nm)
        BY <2>1, <4>1, ReadsEnd
      <4> QED
        BY <2>4, <4>1, <4>2
    <3> QED
      BY <1>1, <2>1, <3>1
  <2> QED
    BY <2>2, <2>4, <2>5, <2>6, EmptySeq
<1>4. Len(sl) = Len(lb)
  BY <1>1, <1>2, <1>3
<1> QED
  BY <1>2, <1>4, SeqEqual

\* Only one label with nothing escaped in it leaves no room for the NUL.
LEMMA NoRoomForOne ==
    ASSUME NEW nm \in Seq(Char), NEW lb \in Seq(Seq(Char)), NEW pos \in Pos,
           NEW sl \in Seq(Seq(Char)), NEW o \in Seq(Char), NEW nx \in 1 .. Len(nm) + 1,
           AllPlaced(nm, lb, pos), Unescaped(lb, sl, o, nx, pos), ~(Len(o) < Len(nm))
    PROVE  Len(lb) = 1 /\ ~HasSpecial(lb[1])
<1> DEFINE m == Len(sl) + 1
           j == Len(o) + 1
<1>1. /\ Len(lb) \in Nat /\ Len(nm) \in Nat /\ Len(sl) \in Nat /\ Len(o) \in Nat
  BY LabelType, LenProperties
<1>2. m \in 1 .. Len(lb) /\ nx = pos[m][j] /\ j <= Len(lb[m]) + 1
  <2>1. Len(sl) < Len(lb) /\ nx = pos[m][j] /\ Len(o) <= Len(lb[m])
    BY DEF Unescaped
  <2>2. m \in 1 .. Len(lb)
    BY <1>1, <2>1
  <2>3. Len(lb[m]) \in Nat
    BY <2>2, LabelType
  <2> QED
    BY <1>1, <2>1, <2>2, <2>3
<1>3. Len(lb[m]) \in Nat /\ lb[m] \in Seq(Char)
  BY <1>2, LabelType
<1>4. nx = Len(nm) + 1 /\ nx = Len(o) + 1
  <2>1. nx >= Len(o) + 1
    BY DEF Unescaped
  <2> QED
    BY <1>1, <2>1
<1>5. sl = <<>>
  <2>1. sl # <<>> => nx >= Len(o) + 2
    BY DEF Unescaped
  <2> QED
    BY <1>1, <1>4, <2>1
<1>6. m = 1
  BY <1>5, EmptySeq
<1>7. \A k \in 1 .. Len(o) : lb[1][k] \notin Special
  BY <1>4, <1>5 DEF Unescaped
<1>8. j = Len(o) + 1 /\ j \in Nat /\ j >= 1
  BY <1>1
<1>9. nx \notin 1 .. Len(nm)
  BY <1>1, <1>4
<1> HIDE DEF m, j
<1>10. j = Len(lb[m]) + 1
  <2>1. j \notin 1 .. Len(lb[m])
    BY <1>2, <1>9, ReadsByte
  <2>2. Len(lb[m]) \in Nat /\ j \in Nat /\ j >= 1 /\ j <= Len(lb[m]) + 1
    BY <1>2, <1>3, <1>8
  <2> QED
    BY <2>1, <2>2, TheEnd, Zenon
<1>11. ~(m < Len(lb))
  BY <1>2, <1>10, <1>9, ReadsEnd
<1>12. Len(lb) = 1
  <2>1. 1 \in 1 .. Len(lb) /\ ~(1 < Len(lb))
    BY <1>2, <1>6, <1>11
  <2> QED
    BY <1>1, <2>1, TheLast, Zenon
<1>13. DOMAIN lb[1] = 1 .. Len(o)
  BY <1>1, <1>3, <1>6, <1>10, <1>8, LenProperties
<1> QED
  BY <1>7, <1>12, <1>13 DEF HasSpecial
-----------------------------------------------------------------------------
(* The invariant *)

\* Before the first byte any map will do that begins at place 1.
LEMMA JoinsNothing ==
    ASSUME NEW lb \in Seq(Seq(Char)), lb # <<>>
    PROVE  /\ 1 \in 1 .. Len(lb) /\ 1 \in 1 .. Len(lb[1]) + 1
           /\ \E pos \in Pos : Joined(<<>>, lb, 1, 1, pos)
<1> DEFINE pos == [m \in Nat |-> [j \in Nat |-> 1]]
<1>1. pos \in Pos /\ pos[1][1] = 1
  BY DEF Pos
<1> HIDE DEF pos
<1>2. Len(<<>>) = 0 /\ Len(lb) \in Nat /\ Len(lb) # 0
  BY EmptySeq, LenProperties
<1>3. Len(lb[1]) \in Nat
  BY <1>2, LabelType
<1>4. ASSUME NEW m \in 1 .. 1, NEW j \in 1 .. Len(lb[m]) + 1 PROVE ~(m < 1 \/ j < 1)
  <2>1. m = 1
    OBVIOUS
  <2> QED
    BY <1>3, <2>1
<1>5. Joined(<<>>, lb, 1, 1, pos)
  BY <1>1, <1>2, <1>4 DEF Joined
<1> QED
  BY <1>1, <1>2, <1>3, <1>5

\* The invariant holds at first,
LEMMA InitInv == CodecInit => CodecInv
<1>1. ASSUME NEW d \in Seq(Char), SliceStart(d) PROVE CodecInv
  BY <1>1 DEF SliceStart, CodecInv
<1>2. ASSUME NEW l \in Seq(Seq(Char)), JoinStart(l), l # <<>> PROVE CodecInv
  <2>1. /\ pc = "join" /\ labels = l /\ name = <<>>
        /\ ln = 1 /\ cn = 1 /\ next = 1 /\ slices = <<>>
    BY <1>2 DEF JoinStart, AtStart
  <2>2. JoinInv
    BY <1>2, <2>1, JoinsNothing DEF JoinInv
  <2> QED
    BY <2>1, <2>2 DEF CodecInv, SliceInvertsFrom
<1>3. ASSUME JoinStart(<<>>) PROVE CodecInv
  BY <1>3 DEF JoinStart, CodecInv
<1> QED
  BY <1>1, <1>2, <1>3 DEF CodecInit

\* and when DomainNormalize has the labels of a name.
LEMMA NormalizeStep == ASSUME CodecTypeOK, Normalize PROVE CodecInv'
<1>1. /\ pc' = "join" /\ name' = <<>>
      /\ ln' = 1 /\ cn' = 1 /\ next' = 1 /\ slices' = <<>>
      /\ labels' = slices \/ labels' = <<>>
  BY DEF Normalize
<1>2. CASE labels' = slices /\ slices # <<>>
  <2>1. JoinInv'
    BY <1>1, <1>2, JoinsNothing DEF JoinInv, CodecTypeOK
  <2> QED
    BY <1>1, <2>1 DEF CodecInv, SliceInvertsFrom
<1>3. CASE labels' = <<>>
  BY <1>3 DEF CodecInv
<1> QED
  BY <1>1, <1>2, <1>3

\* A step of DomainFrom extends the map.
LEMMA JoinStep ==
    ASSUME CodecTypeOK, JoinInv, pc = "join", JoinByte \/ JoinLabel
    PROVE  JoinInv' /\ pc' = "join"
<1>1. PICK pos \in Pos : Joined(name, labels, ln, cn, pos)
  BY DEF JoinInv
<1>2. /\ name \in Seq(Char) /\ labels \in Seq(Seq(Char)) /\ Len(labels) \in Nat
      /\ ln \in 1 .. Len(labels) /\ cn \in 1 .. Len(labels[ln]) + 1
      /\ next = 1 /\ slices = <<>>
  BY LabelType DEF CodecTypeOK, JoinInv
<1>3. \A m \in 1 .. Len(labels) : Len(labels[m]) \in Nat
  BY <1>2, LabelType
<1>4. CASE JoinByte
  <2>1. cn \in 1 .. Len(labels[ln])
    BY <1>2, <1>3, <1>4 DEF JoinByte, InLabel
  <2>2. \E pos2 \in Pos : Joined(name \o Escape(labels[ln][cn]), labels, ln, cn + 1, pos2)
    BY <1>1, <1>2, <2>1, JoinsByte
  <2>3. /\ name' = name \o Escape(labels[ln][cn]) /\ cn' = cn + 1 /\ ln' = ln
        /\ labels' = labels /\ next' = 1 /\ slices' = <<>> /\ pc' = "join"
    BY <1>2, <1>4 DEF JoinByte, sliceVars
  <2>4. cn + 1 \in 1 .. Len(labels[ln]) + 1
    BY <1>2, <1>3, <2>1
  <2> QED
    BY <1>2, <2>2, <2>3, <2>4 DEF JoinInv
<1>5. CASE JoinLabel
  <2>1. ln < Len(labels) /\ cn = Len(labels[ln]) + 1
    BY <1>2, <1>3, <1>5 DEF JoinLabel, InLabel
  <2>2. \E pos2 \in Pos : Joined(Append(name, Dot), labels, ln + 1, 1, pos2)
    BY <1>1, <1>2, <2>1, JoinsLabel
  <2>3. /\ name' = Append(name, Dot) /\ cn' = 1 /\ ln' = ln + 1
        /\ labels' = labels /\ next' = 1 /\ slices' = <<>> /\ pc' = "join"
    BY <1>2, <1>5 DEF JoinLabel, sliceVars
  <2>4. ln + 1 \in 1 .. Len(labels)
    BY <1>2, <2>1
  <2>5. 1 \in 1 .. Len(labels[ln + 1]) + 1
    BY <1>3, <2>4
  <2> QED
    BY <1>2, <2>2, <2>3, <2>4, <2>5 DEF JoinInv
<1> QED
  BY <1>4, <1>5

\* When DomainFrom is through, the map is complete, and DomainSlice is at its
\* beginning.
LEMMA JoinedAll ==
    ASSUME CodecTypeOK, JoinInv, JoinDone, labels # <<>>
    PROVE  SliceInv'
<1>1. PICK pos \in Pos : Joined(name, labels, ln, cn, pos)
  BY DEF JoinInv
<1>2. /\ name \in Seq(Char) /\ labels \in Seq(Seq(Char)) /\ Len(labels) \in Nat
      /\ ln \in 1 .. Len(labels) /\ cn \in 1 .. Len(labels[ln]) + 1
      /\ next = 1 /\ slices = <<>> /\ Len(slices) = 0
  BY LabelType, EmptySeq DEF CodecTypeOK, JoinInv
<1>3. \A m \in 1 .. Len(labels) : Len(labels[m]) \in Nat
  BY <1>2, LabelType
<1>4. ln = Len(labels)
  BY <1>2 DEF JoinDone
<1>5. cn = Len(labels[ln]) + 1
  BY <1>2, <1>3 DEF JoinDone, InLabel
<1>6. AllPlaced(name, labels, pos)
  <2>1. ASSUME NEW m \in 1 .. Len(labels), NEW j \in 1 .. Len(labels[m]) + 1
        PROVE  Placed(name, labels, pos, m, j)
    <3>1. CASE m < ln \/ j < cn
      BY <1>1, <1>4, <3>1 DEF Joined
    <3>2. CASE ~(m < ln \/ j < cn)
      <4>1. m = Len(labels)
        <5>1. ~(m < Len(labels))
          BY <1>4, <3>2, Zenon
        <5> QED
          BY <1>2, <5>1, TheLast, Zenon
      <4>2. j = Len(labels[m]) + 1
        BY <1>3, <1>4, <1>5, <3>2, <4>1
      <4>3. pos[m][j] = Len(name) + 1
        BY <1>1, <1>4, <1>5, <4>1, <4>2 DEF Joined
      <4>4. /\ ~(j <= Len(labels[m])) /\ ~(m < Len(labels)) /\ Len(name) + 1 >= 1
        BY <1>2, <1>3, <4>1, <4>2, LenProperties
      <4> QED
        BY <4>3, <4>4 DEF Placed
    <3> QED
      BY <3>1, <3>2
  <2> QED
    BY <1>1, <1>4, <1>5, <2>1 DEF AllPlaced, PlacedTo, Joined
<1>7. Sliced(name, labels, slices, next, pos)
  BY <1>1, <1>2, <1>4 DEF Sliced, Joined
<1>8. name' = name /\ labels' = labels /\ slices' = slices /\ next' = next
  BY DEF JoinDone, joinVars, sliceVars
<1> QED
  BY <1>6, <1>7, <1>8 DEF SliceInv

\* A step of DomainSlice is at the next place of the map, or it ends as is
\* claimed.
LEMMA SliceStep ==
    ASSUME CodecTypeOK, SliceInv, pc = "slice", labels # <<>>, SliceLabel \/ SliceDone
    PROVE  /\ SliceLabel => LabelInv'
           /\ SliceDone => SliceInvertsFrom'
<1>1. PICK pos \in Pos : /\ AllPlaced(name, labels, pos)
                         /\ Sliced(name, labels, slices, next, pos)
  BY DEF SliceInv
<1>2. /\ name \in Seq(Char) /\ labels \in Seq(Seq(Char)) /\ slices \in Seq(Seq(Char))
      /\ next \in Nat /\ Len(labels) \in Nat
  BY LenProperties DEF CodecTypeOK
<1>3. CASE SliceLabel
  <2>1. Unescaped(labels, slices, <<>>, next, pos)
    BY <1>1, <1>2, <1>3, StartsLabel DEF SliceLabel
  <2>2. /\ name' = name /\ labels' = labels /\ slices' = slices /\ next' = next
        /\ out' = <<>>
    BY <1>3 DEF SliceLabel, joinVars
  <2>3. LabelInv'
    BY <1>1, <2>1, <2>2 DEF LabelInv
  <2> QED
    BY <1>3, <2>3 DEF SliceLabel, SliceDone
<1>4. CASE SliceDone
  <2>1. labels' = labels /\ slices' = slices /\ pc' = "ok"
    BY <1>4 DEF SliceDone, joinVars, sliceVars
  <2>2. labels[Len(labels)] # <<>> => slices = labels
    BY <1>1, <1>2, <1>4, EndsName DEF SliceDone
  <2>3. SliceInvertsFrom'
    BY <2>1, <2>2, Zenon DEF SliceInvertsFrom
  <2> QED
    BY <1>4, <2>3 DEF SliceLabel, SliceDone
<1> QED
  BY <1>3, <1>4

\* avahi_unescape_label follows the map and finds nothing wrong, unless a label
\* is not UTF-8, or its buffer is full, which only one label with nothing to
\* escape can do.
LEMMA LabelStep ==
    ASSUME CodecTypeOK, LabelInv, pc = "label",
           NoRoom \/ BadEscape \/ BadLabel \/ UnescapeByte \/ LabelDone
    PROVE  \/ pc' = "nil" /\ SliceInvertsFrom'
           \/ pc' = "label" /\ LabelInv'
           \/ pc' = "slice" /\ SliceInv'
<1>1. PICK pos \in Pos : /\ AllPlaced(name, labels, pos)
                         /\ Unescaped(labels, slices, out, next, pos)
  BY DEF LabelInv
<1>2. /\ name \in Seq(Char) /\ labels \in Seq(Seq(Char)) /\ slices \in Seq(Seq(Char))
      /\ out \in Seq(Char) /\ next \in Nat /\ next \in 1 .. Len(name) + 1
      /\ Len(labels) \in Nat
  BY LenProperties DEF CodecTypeOK
<1>3. CASE NoRoom
  <2>1. Len(labels) = 1 /\ ~HasSpecial(labels[1])
    BY <1>1, <1>2, <1>3, NoRoomForOne DEF NoRoom, Room
  <2>2. labels' = labels /\ pc' = "nil"
    BY <1>3 DEF NoRoom
  <2> QED
    BY <2>1, <2>2, Zenon DEF SliceInvertsFrom
<1>4. CASE BadEscape
  BY <1>1, <1>2, <1>4, ReadsNext DEF BadEscape, AtEnd
<1>5. CASE UnescapeByte
  <2>1. next <= Len(name) /\ name[next] # Dot
    BY <1>5 DEF UnescapeByte, AtEnd
  <2>2. Unescaped(labels, slices, Append(out, ByteAt(name, next)),
                  next + WidthAt(name, next), pos)
    BY <1>1, <1>2, <2>1, ReadsNext
  <2>3. /\ name' = name /\ labels' = labels /\ slices' = slices /\ pc' = "label"
        /\ out' = Append(out, ByteAt(name, next)) /\ next' = next + WidthAt(name, next)
    BY <1>5 DEF UnescapeByte, joinVars
  <2> QED
    BY <1>1, <2>2, <2>3 DEF LabelInv
<1>6. CASE LabelDone
  <2>1. Sliced(name, labels, Append(slices, out),
               IF next > Len(name) THEN next ELSE next + 1, pos)
    BY <1>1, <1>2, <1>6, EndsLabel DEF LabelDone, AtEnd, Room
  <2>2. /\ name' = name /\ labels' = labels /\ slices' = Append(slices, out)
        /\ next' = IF next > Len(name) THEN next ELSE next + 1
        /\ pc' = "slice"
    BY <1>6 DEF LabelDone, joinVars
  <2> QED
    BY <1>1, <2>1, <2>2 DEF SliceInv
<1>7. CASE BadLabel
  <2>1. Len(slices) + 1 \in 1 .. Len(labels) /\ out = labels[Len(slices) + 1]
    BY <1>1, <1>2, <1>7, EndsLabel DEF BadLabel, AtEnd, Room
  <2>2. Len(slices) + 1 \in DOMAIN labels
    BY <1>2, <2>1, LenProperties
  <2>3. ~Utf8Valid(out) /\ labels' = labels /\ pc' = "nil"
    BY <1>7 DEF BadLabel
  <2> QED
    BY <2>1, <2>2, <2>3, Zenon DEF SliceInvertsFrom
<1> QED
  BY <1>3, <1>4, <1>5, <1>6, <1>7

\* Every step keeps the invariant.
LEMMA NextInv ==
    ASSUME CodecTypeOK, CodecInv, [CodecNext]_codecVars PROVE CodecInv'
<1> SUFFICES ASSUME ~Normalize PROVE CodecInv'
  BY NormalizeStep
<1>1. given' = given /\ labels' = labels
  BY DEF CodecNext, JoinByte, JoinLabel, JoinDone, SliceLabel, SliceDone, NoRoom, BadEscape,
         BadLabel, UnescapeByte, LabelDone, codecVars
<1> DEFINE P == \E pos \in Pos : AllPlaced(name, labels, pos)
<1> SUFFICES ASSUME given \in {"labels", "valid"}, labels # <<>>
             PROVE  /\ pc' = "join" => JoinInv'
                    /\ pc' = "slice" => SliceInv'
                    /\ pc' = "label" => LabelInv'
                    /\ pc' # "join" => P'
                    /\ SliceInvertsFrom'
  BY <1>1 DEF CodecInv
<1>2. /\ pc = "join" => JoinInv
      /\ pc = "slice" => SliceInv
      /\ pc = "label" => LabelInv
      /\ pc # "join" => P
      /\ SliceInvertsFrom
  BY DEF CodecInv
<1>3. pc' \in {"join", "slice", "label"} => SliceInvertsFrom'
  BY DEF SliceInvertsFrom
<1>4. name' = name /\ pc # "join" => P'
  BY <1>1, <1>2
<1>5. SliceInv' => P'
  BY DEF SliceInv
<1> HIDE DEF P
<1>6. CASE JoinByte \/ JoinLabel
  <2>1. JoinInv' /\ pc' = "join"
    BY <1>2, <1>6, JoinStep DEF JoinByte, JoinLabel
  <2> QED
    BY <1>3, <2>1
<1>7. CASE JoinDone
  <2>1. SliceInv' /\ pc' = "slice"
    BY <1>2, <1>7, JoinedAll DEF JoinDone
  <2> QED
    BY <1>3, <1>5, <2>1
<1>8. CASE SliceLabel
  <2>1. LabelInv' /\ pc' = "label" /\ name' = name /\ pc = "slice"
    BY <1>2, <1>8, SliceStep DEF SliceLabel, joinVars
  <2> QED
    BY <1>3, <1>4, <2>1
<1>9. CASE SliceDone
  <2>1. SliceInvertsFrom' /\ pc' = "ok" /\ name' = name /\ pc = "slice"
    BY <1>2, <1>9, SliceStep DEF SliceDone, joinVars
  <2> QED
    BY <1>4, <2>1
<1>10. CASE NoRoom \/ BadEscape \/ BadLabel \/ UnescapeByte \/ LabelDone
  <2>1. \/ pc' = "nil" /\ SliceInvertsFrom'
        \/ pc' = "label" /\ LabelInv'
        \/ pc' = "slice" /\ SliceInv'
    BY <1>2, <1>10, LabelStep DEF NoRoom, BadEscape, BadLabel, UnescapeByte, LabelDone
  <2>2. name' = name /\ pc = "label"
    BY <1>10 DEF NoRoom, BadEscape, BadLabel, UnescapeByte, LabelDone, joinVars
  <2> QED
    BY <1>3, <1>4, <2>1, <2>2
<1>11. CASE UNCHANGED codecVars
  <2>1. UNCHANGED <<given, labels, name, ln, cn, next, out, slices, pc>>
    BY <1>11 DEF codecVars, joinVars, sliceVars
  <2>2. P' <=> P
    BY <2>1 DEF P
  <2> QED
    BY <1>2, <2>1, <2>2 DEF JoinInv, SliceInv, LabelInv, SliceInvertsFrom
<1> QED
  BY <1>6, <1>7, <1>8, <1>9, <1>10, <1>11 DEF CodecNext

\* The invariant of the loops of domain.go, for all labels and all names.
THEOREM CodecInvariance == CodecSpec => [](CodecTypeOK /\ CodecInv)
<1>1. CodecInit => CodecTypeOK /\ CodecInv
  BY InitType, InitInv
<1>2. (CodecTypeOK /\ CodecInv) /\ [CodecNext]_codecVars => (CodecTypeOK /\ CodecInv)'
  BY NextType, NextInv
<1> QED
  BY <1>1, <1>2, PTL DEF CodecSpec

\* DomainSlice undoes DomainFrom (domain.go:19-24, 48-52) for labels of any
\* number, of any length and with any UTF-8 in them, if the last is not empty;
\* if there is one label, then as long as it has a dot or a backslash in it.
THEOREM SliceUndoesFrom == CodecSpec => []SliceInvertsFrom
<1>1. CodecTypeOK /\ CodecInv => SliceInvertsFrom
  <2>1. CASE given \in {"labels", "valid"} /\ labels # <<>>
    BY <2>1 DEF CodecInv
  <2>2. CASE labels = <<>>
    BY <2>2, EmptySeq DEF SliceInvertsFrom
  <2>3. CASE given \notin {"labels", "valid"}
    BY <2>3 DEF SliceInvertsFrom
  <2> QED
    BY <2>1, <2>2, <2>3
<1> QED
  BY <1>1, CodecInvariance, PTL
-----------------------------------------------------------------------------
(* DomainSlice makes a map *)

\* Byte j of label m of lb, or what comes after its last byte, is spelt out at
\* pos[m][j] in the name nm in one way or the other, and the next is right
\* behind it.
Spelt(nm, lb, pos, m, j) ==
    /\ pos[m][j] >= 1
    /\ j <= Len(lb[m]) =>
         /\ pos[m][j] <= Len(nm) /\ nm[pos[m][j]] # Dot
         /\ ValidAt(nm, pos[m][j]) /\ ByteAt(nm, pos[m][j]) = lb[m][j]
         /\ pos[m][j + 1] = pos[m][j] + WidthAt(nm, pos[m][j])
    /\ j > Len(lb[m]) /\ m < Len(lb) =>
         /\ nm[pos[m][j]] = Dot
         /\ pos[m + 1][1] = pos[m][j] + 1 /\ pos[m][j] <= Len(nm)

\* The labels are in the name, up to what comes at place nx.
SpeltTo(nm, lb, pos, nx) ==
    /\ pos[1][1] = 1
    /\ \A m \in 1 .. Len(lb) : \A j \in 1 .. Len(lb[m]) + 1 : Spelt(nm, lb, pos, m, j)
    /\ pos[Len(lb)][Len(lb[Len(lb)]) + 1] = nx

\* The labels lb are in the name nm before place nx: nx is behind the end of
\* the name, or behind the dot that ends the last of them.
Cut(nm, lb, nx, pos) ==
    /\ lb = <<>> => nx = 1
    /\ lb # <<>> =>
         \E end \in Nat :
            /\ SpeltTo(nm, lb, pos, end)
            /\ \/ end = nx /\ nx = Len(nm) + 1
               \/ end + 1 = nx /\ end \in 1 .. Len(nm) /\ nm[end] = Dot

\* The map pos2 is pos but for one place.
Changed(pos, pos2, m2, j2, v) ==
    /\ pos2[m2][j2] = v
    /\ \A m \in Nat : \A j \in Nat :
         pos[m][j] \in Nat /\ (m # m2 \/ j # j2 => pos2[m][j] = pos[m][j])

\* What is known of a label is that of another list, if both have the label and
\* the same behind it.
LEMMA SpeltAlike ==
    ASSUME NEW nm, NEW lb, NEW lb2, NEW pos, NEW pos2, NEW m \in Nat, NEW j \in Nat,
           Len(nm) \in Nat, Len(lb[m]) \in Nat, Len(lb2[m]) \in Nat,
           pos[m][j] \in Nat,
           pos2[m][j] = pos[m][j],
           j <= Len(lb2[m]) => j <= Len(lb[m]) /\ lb2[m][j] = lb[m][j],
           j <= Len(lb2[m]) => pos2[m][j + 1] = pos[m][j + 1],
           j > Len(lb2[m]) /\ m < Len(lb2) =>
             /\ j > Len(lb[m]) /\ m < Len(lb)
             /\ pos2[m + 1][1] = pos[m + 1][1],
           Spelt(nm, lb, pos, m, j)
    PROVE  Spelt(nm, lb2, pos2, m, j)
<1>1. CASE j <= Len(lb2[m])
  <2>1. j <= Len(lb[m]) /\ lb2[m][j] = lb[m][j] /\ pos2[m][j + 1] = pos[m][j + 1]
    BY <1>1
  <2>2. ~(j > Len(lb2[m]))
    BY <1>1
  <2> QED
    BY <1>1, <2>1, <2>2, Zenon DEF Spelt
<1>2. CASE ~(j <= Len(lb2[m]))
  BY <1>2, Zenon DEF Spelt
<1> QED
  BY <1>1, <1>2

\* A list with one label more.
LEMMA OneMore ==
    ASSUME NEW sl \in Seq(Seq(Char)), NEW o \in Seq(Char)
    PROVE  /\ Append(sl, o) \in Seq(Seq(Char)) /\ Len(sl) \in Nat
           /\ Len(Append(sl, o)) = Len(sl) + 1
           /\ Append(sl, o)[Len(sl) + 1] = o
           /\ \A m \in 1 .. Len(sl) : Append(sl, o)[m] = sl[m]
           /\ Append(sl, o) # <<>>
<1>1. Len(sl) \in Nat /\ Len(<<>>) = 0
  BY LenProperties, EmptySeq
<1>2. /\ Append(sl, o) \in Seq(Seq(Char)) /\ Len(Append(sl, o)) = Len(sl) + 1
      /\ Append(sl, o)[Len(sl) + 1] = o
      /\ \A m \in 1 .. Len(sl) : Append(sl, o)[m] = sl[m]
  BY AppendProperties
<1>3. Len(sl) + 1 # 0
  BY <1>1
<1> QED
  BY <1>1, <1>2, <1>3

\* A map can be changed at one place.
LEMMA MapChanged ==
    ASSUME NEW pos \in Pos, NEW m2 \in Nat, NEW j2 \in Nat, NEW v \in Nat
    PROVE  \E pos2 \in Pos : Changed(pos, pos2, m2, j2, v)
<1> DEFINE pos2 == [m \in Nat |-> [j \in Nat |-> IF m = m2 /\ j = j2 THEN v ELSE pos[m][j]]]
<1>1. \A m, j \in Nat : pos[m][j] \in Nat
  BY DEF Pos
<1>2. pos2 \in Pos
  BY <1>1 DEF Pos
<1>3. ASSUME NEW m \in Nat, NEW j \in Nat
      PROVE  pos2[m][j] = IF m = m2 /\ j = j2 THEN v ELSE pos[m][j]
  OBVIOUS
<1> HIDE DEF pos2
<1> QED
  BY <1>1, <1>2, <1>3 DEF Changed

\* The next label begins behind the dot.
LEMMA CutOpens ==
    ASSUME NEW nm \in Seq(Char), NEW sl \in Seq(Seq(Char)), NEW pos \in Pos, NEW nx \in Nat,
           Cut(nm, sl, nx, pos), nx <= Len(nm)
    PROVE  \E pos2 \in Pos : SpeltTo(nm, Append(sl, <<>>), pos2, nx)
<1> DEFINE lb == Append(sl, <<>>)
           N == Len(sl)
<1>1. /\ N \in Nat /\ Len(nm) \in Nat /\ Len(lb) = N + 1 /\ lb[N + 1] = <<>>
      /\ \A m \in 1 .. N : lb[m] = sl[m]
      /\ Len(<<>>) = 0 /\ (N = 0 <=> sl = <<>>)
  BY OneMore, EmptySeq, LenProperties
<1>2. \A m \in 1 .. N : Len(sl[m]) \in Nat
  BY LabelType
<1>3. PICK pos2 \in Pos : Changed(pos, pos2, N + 1, 1, nx)
  <2>1. N + 1 \in Nat /\ 1 \in Nat
    BY <1>1
  <2> HIDE DEF N
  <2> QED
    BY <2>1, MapChanged, Zenon
<1>4. /\ pos2[N + 1][1] = nx
      /\ \A m, j \in Nat :
           pos[m][j] \in Nat /\ (m # N + 1 \/ j # 1 => pos2[m][j] = pos[m][j])
  BY <1>3, Zenon DEF Changed
<1> HIDE DEF lb, N
<1>5. nx >= 1 /\ (N = 0 => nx = 1)
  <2>1. CASE sl = <<>>
    BY <1>1, <2>1 DEF Cut
  <2>2. CASE sl # <<>>
    BY <1>1, <2>2 DEF Cut
  <2> QED
    BY <2>1, <2>2
<1>6. Spelt(nm, lb, pos2, N + 1, 1)
  BY <1>1, <1>4, <1>5 DEF Spelt
<1>7. ASSUME NEW m \in 1 .. N, NEW j \in 1 .. Len(sl[m]) + 1
      PROVE  Spelt(nm, lb, pos2, m, j)
  <2>1. PICK end \in Nat : /\ SpeltTo(nm, sl, pos, end)
                           /\ end + 1 = nx /\ end \in 1 .. Len(nm) /\ nm[end] = Dot
    <3>1. sl # <<>>
      BY <1>1
    <3>2. PICK end \in Nat :
            /\ SpeltTo(nm, sl, pos, end)
            /\ \/ end = nx /\ nx = Len(nm) + 1
               \/ end + 1 = nx /\ end \in 1 .. Len(nm) /\ nm[end] = Dot
      BY <3>1 DEF Cut
    <3> QED
      BY <1>1, <3>2
  <2>2. /\ m \in Nat /\ j \in Nat /\ Len(sl[m]) \in Nat /\ lb[m] = sl[m]
        /\ m # N + 1 /\ m + 1 \in Nat /\ j + 1 \in Nat
    BY <1>1, <1>2
  <2>3. Spelt(nm, sl, pos, m, j)
    BY <2>1 DEF SpeltTo, N
  <2>4. pos2[m][j] = pos[m][j] /\ pos2[m][j + 1] = pos[m][j + 1] /\ pos[m][j] \in Nat
    BY <1>4, <2>2
  <2>5. CASE m < N \/ j <= Len(sl[m])
    <3>1. j > Len(sl[m]) => m < N /\ m + 1 # N + 1
      BY <1>1, <2>2, <2>5
    <3>2. j > Len(sl[m]) => pos2[m + 1][1] = pos[m + 1][1]
      BY <1>4, <2>2, <3>1
    <3> QED
      BY <1>1, <2>2, <2>3, <2>4, <3>1, <3>2, SpeltAlike DEF N
  <2>6. CASE ~(m < N \/ j <= Len(sl[m]))
    <3>1. m = N /\ j = Len(sl[m]) + 1
      <4>1. m = N
        BY <1>1, <2>6, TheLast, Zenon
      <4>2. j >= 1 /\ j <= Len(sl[m]) + 1 /\ j \notin 1 .. Len(sl[m])
        BY <2>2, <2>6
      <4> QED
        BY <2>2, <4>1, <4>2, TheEnd, Zenon
    <3>2. pos[m][j] = end
      BY <2>1, <3>1 DEF SpeltTo, N
    <3>3. pos2[m + 1][1] = pos2[m][j] + 1 /\ pos2[m][j] \in 1 .. Len(nm) /\ nm[pos2[m][j]] = Dot
      BY <1>4, <2>1, <2>4, <3>1, <3>2
    <3>4. ~(j <= Len(lb[m])) /\ pos2[m][j] >= 1 /\ pos2[m][j] <= Len(nm)
      BY <1>1, <2>2, <2>6, <3>3
    <3> QED
      BY <3>3, <3>4, Zenon DEF Spelt
  <2> QED
    BY <2>5, <2>6
<1>8. ASSUME NEW m \in 1 .. Len(lb), NEW j \in 1 .. Len(lb[m]) + 1
      PROVE  Spelt(nm, lb, pos2, m, j)
  <2>1. CASE m \in 1 .. N
    BY <1>1, <1>7, <2>1
  <2>2. CASE m = N + 1
    <3>1. j = 1
      BY <1>1, <2>2
    <3> QED
      BY <1>6, <2>2, <3>1
  <2> QED
    BY <1>1, <2>1, <2>2
<1>9. pos2[1][1] = 1
  <2>1. CASE N = 0
    BY <1>4, <1>5, <2>1
  <2>2. CASE N # 0
    <3>1. 1 # N + 1 /\ pos[1][1] = 1
      BY <1>1, <2>2 DEF Cut, SpeltTo
    <3> QED
      BY <1>4, <3>1
  <2> QED
    BY <2>1, <2>2
<1>10. pos2[Len(lb)][Len(lb[Len(lb)]) + 1] = nx
  BY <1>1, <1>4
<1>11. SpeltTo(nm, lb, pos2, nx)
  BY <1>8, <1>9, <1>10 DEF SpeltTo
<1> QED
  BY <1>11 DEF lb

\* Its next byte is where DomainSlice reads it.
LEMMA CutGrows ==
    ASSUME NEW nm \in Seq(Char), NEW sl \in Seq(Seq(Char)), NEW o \in Seq(Char),
           NEW pos \in Pos, NEW nx \in 1 .. Len(nm),
           SpeltTo(nm, Append(sl, o), pos, nx), nm[nx] # Dot, ValidAt(nm, nx)
    PROVE  \E pos2 \in Pos :
              SpeltTo(nm, Append(sl, Append(o, ByteAt(nm, nx))), pos2, nx + WidthAt(nm, nx))
<1> DEFINE b == ByteAt(nm, nx)
           w == WidthAt(nm, nx)
           o2 == Append(o, b)
           lb == Append(sl, o)
           lb2 == Append(sl, o2)
           N == Len(sl) + 1
           J == Len(o) + 1
<1>1. Len(nm) \in Nat /\ nx \in Nat /\ b \in Char /\ nx + w \in Nat /\ w \in {1, 2, 4}
  BY LenProperties, ReadType DEF WidthAt
<1>2. nx <= Len(nm)
  BY <1>1
<1>3. /\ o2 \in Seq(Char) /\ Len(o) \in Nat /\ Len(o2) = J /\ o2[J] = b
      /\ \A k \in 1 .. Len(o) : o2[k] = o[k]
  <2> HIDE DEF b
  <2> QED
    BY <1>1, AppendProperties, LenProperties
<1> HIDE DEF o2
<1>4. /\ Len(sl) \in Nat /\ Len(lb) = N /\ Len(lb2) = N /\ lb[N] = o /\ lb2[N] = o2
      /\ \A m \in 1 .. Len(sl) : lb[m] = sl[m] /\ lb2[m] = sl[m]
  BY <1>3, OneMore
<1>5. N \in Nat /\ J \in Nat /\ N >= 1 /\ J >= 1
  BY <1>3, <1>4
<1>6. PICK pos2 \in Pos : Changed(pos, pos2, N, J + 1, nx + w)
  <2>1. J + 1 \in Nat
    BY <1>5
  <2> HIDE DEF w, N, J
  <2> QED
    BY <1>1, <1>5, <2>1, MapChanged, Zenon
<1>7. /\ pos2[N][J + 1] = nx + w
      /\ \A m, j \in Nat :
           pos[m][j] \in Nat /\ (m # N \/ j # J + 1 => pos2[m][j] = pos[m][j])
  BY <1>6, Zenon DEF Changed
<1>8. \A m \in 1 .. N : Len(lb[m]) \in Nat /\ (m < N => lb2[m] = lb[m])
  <2>1. \A m \in 1 .. Len(sl) : Len(sl[m]) \in Nat
    BY LabelType
  <2>2. ASSUME NEW m \in 1 .. N PROVE m \in 1 .. Len(sl) \/ (m = N /\ ~(m < N))
    BY <1>4, OneBehind, Zenon
  <2> QED
    BY <1>3, <1>4, <2>1, <2>2
<1>9. pos[1][1] = 1 /\ pos[N][J] = nx
  BY <1>4 DEF SpeltTo
<1>10. \A m \in 1 .. N : \A j \in 1 .. Len(lb[m]) + 1 : Spelt(nm, lb, pos, m, j)
  BY <1>4 DEF SpeltTo
<1>11. Len(lb[N]) = Len(o) /\ Len(lb2[N]) = J /\ J = Len(o) + 1
  BY <1>3, <1>4
<1> HIDE DEF b, w, lb, lb2, N, J
<1>12. pos2[N][J] = nx
  <2>1. J # J + 1
    BY <1>5
  <2> QED
    BY <1>5, <1>7, <1>9, <2>1
<1>13. Spelt(nm, lb2, pos2, N, J)
  <2>1. J <= Len(lb2[N]) /\ ~(J > Len(lb2[N])) /\ lb2[N][J] = b
    BY <1>3, <1>4, <1>5, <1>11
  <2>2. pos2[N][J] >= 1 /\ pos2[N][J] <= Len(nm) /\ nm[pos2[N][J]] # Dot
    BY <1>1, <1>2, <1>12
  <2>3. /\ ValidAt(nm, pos2[N][J]) /\ ByteAt(nm, pos2[N][J]) = lb2[N][J]
        /\ pos2[N][J + 1] = pos2[N][J] + WidthAt(nm, pos2[N][J])
    BY <1>7, <1>12, <2>1, Zenon DEF b, w
  <2> QED
    BY <2>1, <2>2, <2>3, Zenon DEF Spelt
<1>14. Spelt(nm, lb2, pos2, N, J + 1)
  <2>1. /\ ~(J + 1 <= Len(lb2[N])) /\ ~(N < Len(lb2)) /\ pos2[N][J + 1] >= 1
    BY <1>1, <1>4, <1>5, <1>7, <1>11
  <2> QED
    BY <2>1, Zenon DEF Spelt
<1>15. ASSUME NEW m \in 1 .. N, NEW j \in 1 .. Len(lb[m]) + 1, m < N \/ j < J
       PROVE  Spelt(nm, lb2, pos2, m, j)
  <2>1. /\ m \in Nat /\ j \in Nat /\ j >= 1 /\ Len(lb[m]) \in Nat
        /\ m + 1 \in Nat /\ j + 1 \in Nat
    BY <1>5, <1>8
  <2>2. Spelt(nm, lb, pos, m, j)
    BY <1>10
  <2>3. m # N \/ (j # J + 1 /\ j + 1 # J + 1)
    BY <1>5, <1>15, <2>1
  <2>4. /\ pos2[m][j] = pos[m][j] /\ pos2[m][j + 1] = pos[m][j + 1] /\ pos[m][j] \in Nat
    BY <1>7, <2>1, <2>3
  <2>5. 1 # J + 1
    BY <1>5
  <2>6. pos2[m + 1][1] = pos[m + 1][1]
    BY <1>7, <2>1, <2>5
  <2>7. CASE m < N
    <3>1. lb2[m] = lb[m] /\ Len(lb) = Len(lb2)
      BY <1>4, <1>8, <2>7
    <3> QED
      BY <1>1, <2>1, <2>2, <2>4, <2>6, <3>1, SpeltAlike
  <2>8. CASE ~(m < N)
    <3>1. m = N
      BY <1>5, <2>1, <2>8
    <3>2. j \in 1 .. Len(o) /\ j <= Len(lb[m])
      <4>1. j < J
        BY <1>15, <2>8
      <4>2. j < Len(o) + 1
        BY <1>11, <4>1, Zenon
      <4>3. j \in 1 .. Len(o) /\ j <= Len(o)
        <5>1. Len(o) \in Nat /\ j \in Nat /\ j >= 1
          BY <1>3, <2>1, Zenon
        <5> QED
          BY <4>2, <5>1
      <4>4. Len(lb[m]) = Len(o)
        BY <1>11, <3>1, Zenon
      <4> QED
        BY <4>3, <4>4, Zenon
    <3>3. lb2[m][j] = lb[m][j]
      BY <1>3, <1>4, <3>1, <3>2
    <3>4. Len(lb2[m]) \in Nat /\ ~(j > Len(lb2[m]))
      BY <1>5, <1>15, <1>11, <2>1, <2>8, <3>1
    <3> QED
      BY <1>1, <2>1, <2>2, <2>4, <3>2, <3>3, <3>4, SpeltAlike
  <2> QED
    BY <2>7, <2>8
<1>16. ASSUME NEW m \in 1 .. N, NEW j \in 1 .. Len(lb2[m]) + 1
       PROVE  Spelt(nm, lb2, pos2, m, j)
  <2>1. CASE m < N
    BY <1>8, <1>15, <2>1
  <2>2. CASE ~(m < N)
    <3>1. m = N
      BY <1>5, <2>2
    <3>2. j \in 1 .. J + 1
      BY <1>11, <3>1
    <3>3. CASE j < J
      <4>1. j \in 1 .. J
        BY <1>5, <3>2, <3>3
      <4>2. Len(lb[m]) + 1 = J
        BY <1>11, <3>1, Zenon
      <4>3. j \in 1 .. Len(lb[m]) + 1
        BY <4>1, <4>2, Zenon
      <4> QED
        BY <1>15, <3>3, <4>3
    <3>4. CASE j = J \/ j = J + 1
      BY <1>13, <1>14, <3>1, <3>4
    <3> QED
      BY <1>5, <3>2, <3>3, <3>4
  <2> QED
    BY <2>1, <2>2
<1>17. pos2[1][1] = 1
  <2>1. 1 # J + 1
    BY <1>5
  <2> QED
    BY <1>7, <1>9, <2>1
<1>18. SpeltTo(nm, lb2, pos2, nx + w)
  BY <1>4, <1>7, <1>16, <1>17, <1>11 DEF SpeltTo
<1> QED
  BY <1>18 DEF lb2, o2, b, w

\* A label that ends is cut off.
LEMMA CutCloses ==
    ASSUME NEW nm \in Seq(Char), NEW sl \in Seq(Seq(Char)), NEW o \in Seq(Char),
           NEW pos \in Pos, NEW nx \in 1 .. Len(nm) + 1,
           SpeltTo(nm, Append(sl, o), pos, nx), nx <= Len(nm) => nm[nx] = Dot
    PROVE  Cut(nm, Append(sl, o), IF nx > Len(nm) THEN nx ELSE nx + 1, pos)
<1>1. Append(sl, o) # <<>>
  BY OneMore
<1>2. Len(nm) \in Nat /\ nx \in Nat
  BY LenProperties
<1>3. CASE nx > Len(nm)
  <2>1. nx = Len(nm) + 1
    BY <1>2, <1>3
  <2> QED
    BY <1>1, <1>2, <1>3, <2>1 DEF Cut
<1>4. CASE ~(nx > Len(nm))
  <2>1. nx \in 1 .. Len(nm) /\ nm[nx] = Dot
    BY <1>2, <1>4
  <2> QED
    BY <1>1, <1>2, <1>4, <2>1 DEF Cut
<1> QED
  BY <1>3, <1>4
-----------------------------------------------------------------------------
(* DomainNormalize *)

\* DomainSlice cuts the name, and DomainFrom is given the labels that it cuts.
SpellInv ==
    /\ given = "name" =>
         /\ pc # "join"
         /\ pc = "slice" => \E pos \in Pos : Cut(name, slices, next, pos)
         /\ pc = "label" => \E pos \in Pos : SpeltTo(name, Append(slices, out), pos, next)
         /\ pc = "ok" => \E pos \in Pos : Cut(name, slices, Len(name) + 1, pos)
    /\ given = "valid" => \E pos \in Pos : Cut(source, labels, Len(source) + 1, pos)
    /\ given = "invalid" => labels = <<>>
    /\ given \in {"valid", "invalid"} /\ labels = <<>> => name = <<>>

\* The labels of a valid name are spelt out in it, one way or the other, apart
\* from a dot at its end, and in what DomainNormalize returns with no more
\* escaping than they need; that is empty for an invalid name.
Normalized ==
    pc # "join" =>
        /\ given = "valid" =>
             /\ \E pos \in Pos : Cut(source, labels, Len(source) + 1, pos)
             /\ IF labels = <<>> THEN name = <<>>
                ELSE \E pos \in Pos : AllPlaced(name, labels, pos)
        /\ given = "invalid" => name = <<>>

\* The invariant holds at first: nothing is cut.
LEMMA SpellInit == CodecInit => SpellInv
<1>1. ASSUME NEW d \in Seq(Char), SliceStart(d) PROVE SpellInv
  <2>1. Cut(name, slices, next, [m \in Nat |-> [j \in Nat |-> 1]])
    BY <1>1 DEF SliceStart, AtStart, Cut
  <2>2. [m \in Nat |-> [j \in Nat |-> 1]] \in Pos
    BY DEF Pos
  <2> QED
    BY <1>1, <2>1, <2>2 DEF SliceStart, SpellInv
<1>2. ASSUME NEW l \in Seq(Seq(Char)), JoinStart(l) PROVE SpellInv
  BY <1>2 DEF JoinStart, SpellInv
<1> QED
  BY <1>1, <1>2 DEF CodecInit

\* DomainSlice on any name.
LEMMA CutStep ==
    ASSUME CodecTypeOK, SpellInv, given = "name",
           SliceLabel \/ SliceDone \/ NoRoom \/ BadEscape \/ BadLabel
             \/ UnescapeByte \/ LabelDone
    PROVE  SpellInv'
<1>1. /\ name \in Seq(Char) /\ slices \in Seq(Seq(Char)) /\ out \in Seq(Char)
      /\ next \in 1 .. Len(name) + 1 /\ next \in Nat /\ Len(name) \in Nat
  BY LenProperties DEF CodecTypeOK
<1>2. given' = "name" /\ name' = name
  BY DEF SliceLabel, SliceDone, NoRoom, BadEscape, BadLabel, UnescapeByte, LabelDone, joinVars
<1>3. CASE NoRoom \/ BadEscape \/ BadLabel
  BY <1>2, <1>3 DEF SpellInv, NoRoom, BadEscape, BadLabel
<1>4. CASE SliceLabel
  <2>1. PICK pos \in Pos : Cut(name, slices, next, pos)
    BY <1>4 DEF SpellInv, SliceLabel
  <2>2. \E pos2 \in Pos : SpeltTo(name, Append(slices, <<>>), pos2, next)
    BY <1>1, <1>4, <2>1, CutOpens DEF SliceLabel
  <2>3. pc' = "label" /\ slices' = slices /\ out' = <<>> /\ next' = next
    BY <1>4 DEF SliceLabel
  <2> QED
    BY <1>2, <2>2, <2>3 DEF SpellInv
<1>5. CASE SliceDone
  <2>1. PICK pos \in Pos : Cut(name, slices, next, pos)
    BY <1>5 DEF SpellInv, SliceDone
  <2>2. next = Len(name) + 1
    BY <1>1, <1>5 DEF SliceDone
  <2>3. pc' = "ok" /\ slices' = slices
    BY <1>5 DEF SliceDone, sliceVars
  <2> QED
    BY <1>2, <2>1, <2>2, <2>3 DEF SpellInv
<1>6. CASE UnescapeByte
  <2>1. PICK pos \in Pos : SpeltTo(name, Append(slices, out), pos, next)
    BY <1>6 DEF SpellInv, UnescapeByte
  <2>2. next \in 1 .. Len(name) /\ name[next] # Dot /\ ValidAt(name, next)
    BY <1>1, <1>6 DEF UnescapeByte, AtEnd
  <2>3. \E pos2 \in Pos : SpeltTo(name, Append(slices, Append(out, ByteAt(name, next))), pos2,
                                   next + WidthAt(name, next))
    BY <1>1, <2>1, <2>2, CutGrows
  <2>4. /\ pc' = "label" /\ slices' = slices /\ out' = Append(out, ByteAt(name, next))
        /\ next' = next + WidthAt(name, next)
    BY <1>6 DEF UnescapeByte
  <2> QED
    BY <1>2, <2>3, <2>4 DEF SpellInv
<1>7. CASE LabelDone
  <2>1. PICK pos \in Pos : SpeltTo(name, Append(slices, out), pos, next)
    BY <1>7 DEF SpellInv, LabelDone
  <2>2. next <= Len(name) => name[next] = Dot
    BY <1>7 DEF LabelDone, AtEnd
  <2>3. Cut(name, Append(slices, out), IF next > Len(name) THEN next ELSE next + 1, pos)
    BY <1>1, <2>1, <2>2, CutCloses
  <2>4. /\ pc' = "slice" /\ slices' = Append(slices, out)
        /\ next' = IF next > Len(name) THEN next ELSE next + 1
    BY <1>7 DEF LabelDone
  <2> QED
    BY <1>2, <2>3, <2>4 DEF SpellInv
<1> QED
  BY <1>3, <1>4, <1>5, <1>6, <1>7

\* Every step keeps the invariant.
LEMMA SpellNext ==
    ASSUME CodecTypeOK, SpellInv, [CodecNext]_codecVars PROVE SpellInv'
<1>1. CASE JoinByte \/ JoinLabel \/ JoinDone
  <2>1. pc = "join" /\ given' = given /\ source' = source /\ labels' = labels
    BY <1>1 DEF JoinByte, JoinLabel, JoinDone
  <2>2. labels = <<>> => name' = name
    <3> SUFFICES ASSUME labels = <<>> PROVE name' = name
      OBVIOUS
    <3>1. Len(labels) = 0 /\ ln \in Nat /\ ln >= 1
      BY EmptySeq DEF CodecTypeOK
    <3>2. JoinDone
      BY <1>1, <3>1 DEF JoinByte, JoinLabel, InLabel
    <3> QED
      BY <3>2 DEF JoinDone, joinVars
  <2>3. given # "name"
    BY <2>1 DEF SpellInv
  <2> QED
    BY <2>1, <2>2, <2>3 DEF SpellInv
<1>2. CASE SliceLabel \/ SliceDone \/ NoRoom \/ BadEscape \/ BadLabel \/ UnescapeByte \/ LabelDone
  <2>1. CASE given = "name"
    BY <1>2, <2>1, CutStep
  <2>2. CASE given # "name"
    <3>1. UNCHANGED <<given, source, labels, name>>
      BY <1>2 DEF SliceLabel, SliceDone, NoRoom, BadEscape, BadLabel, UnescapeByte, LabelDone,
                  joinVars
    <3> QED
      BY <2>2, <3>1 DEF SpellInv
  <2> QED
    BY <2>1, <2>2
<1>3. CASE Normalize
  <2>1. given = "name" /\ source' = name /\ name' = <<>>
    BY <1>3 DEF Normalize
  <2>2. CASE pc = "ok"
    <3>1. given' = "valid" /\ labels' = slices
      BY <1>3, <2>2 DEF Normalize
    <3>2. PICK pos \in Pos : Cut(name, slices, Len(name) + 1, pos)
      BY <2>1, <2>2 DEF SpellInv
    <3> QED
      BY <2>1, <3>1, <3>2 DEF SpellInv
  <2>3. CASE pc = "nil"
    BY <1>3, <2>1, <2>3 DEF Normalize, SpellInv
  <2> QED
    BY <1>3, <2>2, <2>3 DEF Normalize
<1>4. CASE UNCHANGED codecVars
  <2>1. UNCHANGED <<given, source, labels, name, ln, cn, next, out, slices, pc>>
    BY <1>4 DEF codecVars, joinVars, sliceVars
  <2> QED
    BY <2>1 DEF SpellInv
<1> QED
  BY <1>1, <1>2, <1>3, <1>4 DEF CodecNext

\* "DomainNormalize normalizes the domain name by removing unneeded escaping.
\* In a case of error it returns empty string" (domain.go:104-109): for every
\* name, of any length and however it is escaped, the result spells the labels
\* that the name spells, and escapes a dot or a backslash in them and nothing
\* else; or it is empty because DomainSlice has failed.
THEOREM NormalizeSpells == CodecSpec => []Normalized
<1>1. CodecInit => CodecTypeOK /\ SpellInv
  BY InitType, SpellInit
<1>2. (CodecTypeOK /\ SpellInv) /\ [CodecNext]_codecVars => (CodecTypeOK /\ SpellInv)'
  BY NextType, SpellNext
<1>3. CodecInv /\ SpellInv => Normalized
  BY DEF CodecInv, SpellInv, Normalized
<1> QED
  BY <1>1, <1>2, <1>3, CodecInvariance, PTL DEF CodecSpec
=============================================================================
