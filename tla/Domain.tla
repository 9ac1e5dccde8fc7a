------------------------------- MODULE Domain -------------------------------
(***************************************************************************)
(* domain.go, and the comparison of glue.go: domain names in their escaped *)
(* form, which is a string, and as lists of unescaped labels.  The loops   *)
(* of the first two functions, and DomainNormalize, are in DomainCodec.    *)
(***************************************************************************)
EXTENDS Escaping, SequencesExt

Underscore == 95

\* What DomainSlice returns in a case of error: nil.  len(nil) = 0, and only
\* DomainEqual tells it from the empty list.
Nil == [ok |-> FALSE, labels |-> <<>>]
-----------------------------------------------------------------------------
(* Joining and slicing *)

EscapeLabel(label) == FlattenSeq([i \in DOMAIN label |-> Escape(label[i])])

\* The escaped labels with a dot before each but the first.
DomainFrom(labels) ==
    FlattenSeq([n \in DOMAIN labels |->
        (IF n = 1 THEN <<>> ELSE <<Dot>>) \o EscapeLabel(labels[n])])

\* avahi_unescape_label: what is read of label "out" so far, at position i of
\* s.  The buffer of the given size has room for the label and its NUL.
RECURSIVE UnescapeLabel(_, _, _, _)
UnescapeLabel(s, i, out, size) ==
    IF ~Room(out, size) THEN [ok |-> FALSE, next |-> i, label |-> <<>>]
    ELSE IF i > Len(s) THEN [ok |-> Utf8Valid(out), next |-> i, label |-> out]
    ELSE IF s[i] = Dot THEN [ok |-> Utf8Valid(out), next |-> i + 1, label |-> out]
    ELSE IF ValidAt(s, i)
         THEN UnescapeLabel(s, i + WidthAt(s, i), Append(out, ByteAt(s, i)), size)
    ELSE [ok |-> FALSE, next |-> i, label |-> <<>>]

\* The loop of DomainSlice from position i on.
RECURSIVE SliceFrom(_, _, _)
SliceFrom(d, i, labels) ==
    IF i > Len(d) THEN [ok |-> TRUE, labels |-> labels]
    ELSE LET l == UnescapeLabel(d, i, <<>>, Len(d))
         IN  IF l.ok THEN SliceFrom(d, l.next, Append(labels, l.label)) ELSE Nil

DomainSlice(d) == SliceFrom(d, 1, <<>>)
-----------------------------------------------------------------------------
(* Case, of ASCII letters only *)

DomainToLower(d) == [i \in DOMAIN d |-> IF d[i] \in 65 .. 90 THEN d[i] + 32 ELSE d[i]]
DomainToUpper(d) == [i \in DOMAIN d |-> IF d[i] \in 97 .. 122 THEN d[i] - 32 ELSE d[i]]

\* Mutant of toupper: the range begins one too early.
ToupperOffByOne(c) == IF c \in 96 .. 122 THEN c - 32 ELSE c

toupper(c) == IF c \in 97 .. 122 THEN c - 32 ELSE c

strcaseequal(s1, s2) ==
    /\ Len(s1) = Len(s2)
    /\ \A i \in DOMAIN s1 : s1[i] = s2[i] \/ toupper(s1[i]) = toupper(s2[i])

DomainEqual(d1, d2) ==
    LET s1 == DomainSlice(d1)
        s2 == DomainSlice(d2)
    IN  /\ s1.ok /\ s2.ok
        /\ Len(s1.labels) = Len(s2.labels)
        /\ \A i \in DOMAIN s1.labels : strcaseequal(s1.labels[i], s2.labels[i])
-----------------------------------------------------------------------------
(* Service names: instance, type, domain *)

NoService == [instance |-> <<>>, svctype |-> <<>>, domain |-> <<>>]

IsTypeLabel(label) == Len(label) > 1 /\ label[1] = Underscore

\* Mutant of TypeEnd: a type has two labels.
TypeEndTwo(labels) ==
    CHOOSE n \in {1, 3} :
        n = 3 <=> Len(labels) >= 3 /\ IsTypeLabel(labels[2]) /\ IsTypeLabel(labels[3])

\* The type is the longest run of such labels after the first label.
TypeEnd(labels) ==
    CHOOSE n \in 1 .. Len(labels) :
        /\ \A i \in 2 .. n : IsTypeLabel(labels[i])
        /\ n = Len(labels) \/ ~IsTypeLabel(labels[n + 1])

DomainServiceNameSplit(nm) ==
    LET labels == DomainSlice(nm).labels
    IN  IF Len(labels) < 3 \/ TypeEnd(labels) < 3 THEN NoService
        ELSE [instance |-> labels[1],
              svctype  |-> DomainFrom(SubSeq(labels, 2, TypeEnd(labels))),
              domain   |-> DomainFrom(SubSeq(labels, TypeEnd(labels) + 1, Len(labels)))]

\* Mutant of DomainServiceNameJoin: the instance is not escaped.
JoinUnescaped(instance, svctype, domain) ==
    IF instance = <<>> \/ svctype = <<>> THEN <<>>
    ELSE instance \o <<Dot>> \o svctype
             \o (IF domain = <<>> THEN <<>> ELSE <<Dot>> \o domain)

DomainServiceNameJoin(instance, svctype, domain) ==
    IF instance = <<>> \/ svctype = <<>> THEN <<>>
    ELSE DomainFrom(<<instance>>) \o <<Dot>> \o svctype
             \o (IF domain = <<>> THEN <<>> ELSE <<Dot>> \o domain)
=============================================================================
