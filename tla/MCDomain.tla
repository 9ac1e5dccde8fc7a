------------------------------ MODULE MCDomain ------------------------------
(* The functions of Domain over all inputs up to a bound, and the loops of   *)
(* DomainCodec on them: an input is a name, a list of labels or the labels   *)
(* of a service name; it grows until the loops start on it.                  *)
EXTENDS Domain, DomainCodec, NameSyntax

CONSTANTS
    LabelBytes, \* what labels consist of
    MaxPieces,  \* bound: how many pieces a name is put together from
    MaxLabels,  \* bound: how many labels
    MaxChars,   \* bound: the length of all labels together
    MaxService  \* bound: how many labels of a service name

VARIABLE pieces \* how many pieces the name has

namesVars == <<codecVars, pieces>>

\* As avahi_utf8_valid for characters of one and two bytes.
MCUtf8Valid(s) ==
    \A i \in DOMAIN s :
        \/ s[i] < 128
        \/ s[i] \in 194 .. 223 /\ i < Len(s) /\ s[i + 1] \in 128 .. 191
        \/ s[i] \in 128 .. 191 /\ i > 1 /\ s[i - 1] \in 194 .. 223

\* . \ a ` and the two bytes of a character, and numbers: of a dot, of a
\* letter, of the first of the two bytes, and of none; and half a number.
Pieces ==
    {<<46>>, <<92>>, <<97>>, <<96>>, <<205>>, <<160>>,
     <<48, 52, 54>>, <<48, 54, 53>>, <<50, 48, 53>>, <<50, 53, 54>>, <<48, 48, 48>>, <<49, 54>>}

\* Nothing, a. @ . A. \064 \065 a.a .. \. \046 \\ \ B. a\ \256
Others ==
    {<<>>, <<97, 46>>, <<64, 46>>, <<65, 46>>, <<92, 48, 54, 52>>, <<92, 48, 54, 53>>,
     <<97, 46, 97>>, <<46, 46>>, <<92, 46>>, <<92, 48, 52, 54>>, <<92, 92>>, <<92>>, <<66, 46>>,
     <<97, 92>>, <<92, 50, 53, 54>>}

\* _. _ and \
ServiceLabels == {<<95, 46>>, <<95>>, <<92>>}

NamesInit == pieces = 0 /\ (JoinStart(<<>>) \/ SliceStart(<<>>))

AddPiece(p) ==
    /\ SliceStart(name)
    /\ pieces < MaxPieces
    /\ pieces' = pieces + 1
    /\ name' = name \o p
    /\ UNCHANGED <<given, source, labels, ln, cn, sliceVars, pc>>

Grow(l) == labels' = l /\ UNCHANGED <<given, source, joinVars, sliceVars, pc, pieces>>

StartLabel ==
    /\ JoinStart(labels)
    /\ Len(labels) < MaxLabels
    /\ Grow(Append(labels, <<>>))

GrowLabel(c) ==
    /\ JoinStart(labels) /\ labels # <<>>
    /\ Len(FlattenSeq(labels)) < MaxChars
    /\ Grow([labels EXCEPT ![Len(labels)] = Append(@, c)])

AddLabel(l) ==
    /\ JoinStart(labels) /\ \A n \in DOMAIN labels : labels[n] \in ServiceLabels
    /\ Len(labels) < MaxService
    /\ Grow(Append(labels, l))

\* The loops start: pieces is left at 0, so that the inputs alone differ.
Loops == CodecNext /\ pieces' = 0

Done == pc \in {"ok", "nil"}

\* The next input is another one.
NextInput ==
    /\ Done /\ given \in {"labels", "invalid", "valid"}
    /\ given' = "labels" /\ source' = <<>> /\ pc' = "join" /\ labels' = <<>> /\ name' = <<>>
    /\ ln' = 1 /\ cn' = 1 /\ next' = 1 /\ out' = <<>> /\ slices' = <<>> /\ pieces' = 0

NamesNext ==
    \/ NextInput
    \/ \E p \in Pieces : AddPiece(p)
    \/ StartLabel
    \/ \E c \in LabelBytes : GrowLabel(c)
    \/ \E l \in ServiceLabels : AddLabel(l)
    \/ Loops

NamesSpec == NamesInit /\ [][NamesNext]_namesVars
-----------------------------------------------------------------------------
\* "DomainSlice splits escaped domain name into a sequence of unescaped
\* labels" (domain.go:48-53), and for the buffer "len(d) must be enough"
\* (domain.go:59): a name that means anything has its labels.
SlicesAnyName ==
    Done /\ given = "name" /\ Legal(name) => pc = "ok" /\ slices = Meaning(name)

\* Two names are equal exactly if both mean something and have the same labels
\* after folding ASCII case (domain.go:79-102), however they are escaped.
\* Names on which DomainSlice fails for its buffer are left out; they are in
\* SlicesAnyName.
EqualIsCaseless ==
    Done /\ given = "name" /\ ~Tight(name) =>
        \A other \in {o \in Others : ~Tight(o)} :
            LET Folded(s) == {[n \in DOMAIN m |-> DomainToLower(m[n])] : m \in Meanings(s)}
            IN  DomainEqual(name, other) <=> Folded(name) \cap Folded(other) # {}

\* How long a name of these labels is at least.
ShortestName(m) ==
    Len(FlattenSeq(m)) + Len(SelectSeq(FlattenSeq(m), LAMBDA c : c \in Special)) + Len(m) - 1

\* "DomainNormalize normalizes the domain name by removing unneeded escaping.
\* In a case of error it returns empty string" (domain.go:104-106): the result
\* means the same, apart from empty labels at the end, and nothing in it is
\* escaped that need not be; it is empty for a name that means nothing.
NormalizeKeepsMeaning ==
    Done /\ given \in {"valid", "invalid"} /\ ~Tight(source) =>
        IF Legal(source)
        THEN LET m == Meaning(source)
             IN  /\ Legal(name) /\ Meaning(name) = WithoutEmptyEnd(m)
                 /\ m # <<>> => Len(name) = ShortestName(m)
        ELSE name = <<>>

\* Where the type of a service ends, of which the rest is the domain.
IsServiceType(n) ==
    /\ n >= 3
    /\ \A i \in 2 .. n : IsTypeLabel(labels[i])
    /\ n < Len(labels) => ~IsTypeLabel(labels[n + 1])

\* A service name that is put together from an instance, a type and a domain
\* is the one of all their labels, and is split into the same three again, at
\* whichever label the domain begins and whatever has to be escaped; any other
\* name is no service (domain.go:151-219).
SplitInvertsJoin ==
    /\ Done /\ given = "labels"
    /\ \A i \in DOMAIN labels : labels[i] # <<>> /\ Utf8Valid(labels[i])
    => /\ \A n \in DOMAIN labels : IsServiceType(n) =>
            LET instance == labels[1]
                svctype  == DomainFrom(SubSeq(labels, 2, n))
                domain   == DomainFrom(SubSeq(labels, n + 1, Len(labels)))
            IN  /\ DomainServiceNameJoin(instance, svctype, domain) = name
                /\ DomainServiceNameSplit(name)
                     = [instance |-> instance, svctype |-> svctype, domain |-> domain]
       /\ (\A n \in DOMAIN labels : ~IsServiceType(n)) =>
            DomainServiceNameSplit(name) = NoService
=============================================================================
