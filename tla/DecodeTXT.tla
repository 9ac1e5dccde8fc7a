----------------------------- MODULE DecodeTXT ------------------------------
(***************************************************************************)
(* DNSDecodeTXT of dns.go: the loop that cuts the RDATA of a TXT record    *)
(* into its strings, one turn at a time.  A string, and RDATA, is a        *)
(* sequence of bytes.                                                      *)
(***************************************************************************)
EXTENDS Integers, Sequences

CONSTANT RData      \* what it is called with

Byte == 0 .. 255

ASSUME RDataAssumption == RData \subseteq Seq(Byte)

VARIABLES
    rdata,  \* the argument
    at,     \* where in rdata the slice begins that is left of it
    txt,    \* the strings so far
    ret     \* what was returned: "none" yet, "txt" or "nil"

decodeVars == <<rdata, at, txt, ret>>

DecodeTypeOK ==
    /\ rdata \in RData
    /\ at \in 1 .. Len(rdata) + 1
    /\ txt \in Seq(Seq(Byte))
    /\ ret \in {"none", "txt", "nil"}

DecodeInit == rdata \in RData /\ at = 1 /\ txt = <<>> /\ ret = "none"

\* Mutant of Fits: one byte must be left after the string.
FitsBefore(i) == i + rdata[i] < Len(rdata)

\* The string whose size is at position i does not exceed the data.
Fits(i) == i + rdata[i] <= Len(rdata)

String(i) == SubSeq(rdata, i + 1, i + rdata[i])

\* The loop has another turn.
Turn == ret = "none" /\ at <= Len(rdata)

NextString ==
    /\ Turn /\ Fits(at) /\ rdata[at] > 0
    /\ txt' = Append(txt, String(at))
    /\ at' = at + 1 + rdata[at]
    /\ UNCHANGED <<rdata, ret>>

\* Empty ones are ignored.
EmptyString ==
    /\ Turn /\ Fits(at) /\ rdata[at] = 0
    /\ at' = at + 1
    /\ UNCHANGED <<rdata, txt, ret>>

\* The size exceeds the data: nil is returned.
Exceeds ==
    /\ Turn /\ ~Fits(at)
    /\ ret' = "nil"
    /\ UNCHANGED <<rdata, at, txt>>

ReturnTxt ==
    /\ ret = "none" /\ at > Len(rdata)
    /\ ret' = "txt"
    /\ UNCHANGED <<rdata, at, txt>>

DecodeNext == NextString \/ EmptyString \/ Exceeds \/ ReturnTxt

DecodeSpec == DecodeInit /\ [][DecodeNext]_decodeVars
-----------------------------------------------------------------------------
\* What the string at position i takes: the byte of its size, and itself.
Extent(i) == i .. i + rdata[i]

\* The first n bytes are the strings at the positions P, one after the other:
\* each byte is in exactly one of them.
CutAt(P, n) ==
    /\ UNION {Extent(i) : i \in P} = 1 .. n
    /\ \A i, j \in P : i # j => Extent(i) \cap Extent(j) = {}

\* The ways to cut rdata into strings.
Cuts == {P \in SUBSET (1 .. Len(rdata)) : CutAt(P, Len(rdata))}

\* Of the strings at P, those that are not empty are in txt, in their order.
InTxt(P) ==
    \E f \in [DOMAIN txt -> {i \in P : rdata[i] > 0}] :
        /\ \A k, l \in DOMAIN txt : k < l => f[k] < f[l]
        /\ \A i \in P : rdata[i] > 0 => \E k \in DOMAIN txt : f[k] = i
        /\ \A k \in DOMAIN txt : txt[k] = String(f[k])

\* DNSDecodeTXT returns exactly the strings that rdata is made of, without the
\* empty ones, and nil exactly if it is not made of strings at all, so that
\* nothing is read past its end (dns.go:82-104).
TxtDecodeExact ==
    ret # "none" =>
        /\ ret = "txt" <=> Cuts # {}
        /\ \A P \in Cuts : InTxt(P)

\* The inductive invariant of DecodeTXTProofs: what is behind the loop is cut
\* into strings, in the one way there is, and its strings are in txt.
LoopInv ==
    /\ ret # "nil" =>
         \E P \in SUBSET (1 .. at - 1) :
            /\ CutAt(P, at - 1)
            /\ InTxt(P)
            /\ \A C \in Cuts : C \cap (1 .. at - 1) = P
    /\ ret = "txt" => at = Len(rdata) + 1
    /\ ret = "nil" => Cuts = {}
=============================================================================
