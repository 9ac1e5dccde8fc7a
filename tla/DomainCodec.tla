---------------------------- MODULE DomainCodec -----------------------------
(***************************************************************************)
(* DomainFrom and then DomainSlice of domain.go on what it returned, one   *)
(* turn of their loops at a time; or DomainSlice on any name, then         *)
(* DomainFrom on its labels, which is DomainNormalize, and DomainSlice     *)
(* again.  Domain has both as operators; here is how they compute it.      *)
(***************************************************************************)
EXTENDS Escaping

VARIABLES
    given,  \* what the input is: "labels" or a "name"; or the labels of a name that
            \* was "valid" or "invalid", for DomainNormalize
    source, \* that name
    labels, \* the argument of DomainFrom
    name,   \* its buffer, and the argument of DomainSlice
    ln, cn, \* n and i of DomainFrom: the label, and its byte, that are next
    next,   \* where in name DomainSlice is
    out,    \* what avahi_unescape_label has read of a label
    slices, \* the labels of DomainSlice
    pc      \* "join": in DomainFrom; "slice": in the loop of DomainSlice, "label": in
            \* avahi_unescape_label; "ok", "nil": DomainSlice has returned

joinVars  == <<name, ln, cn>>
sliceVars == <<next, out, slices>>
codecVars == <<given, source, labels, joinVars, sliceVars, pc>>

CodecTypeOK ==
    /\ given \in {"labels", "name", "valid", "invalid"}
    /\ source \in Seq(Char)
    /\ labels \in Seq(Seq(Char))
    /\ name \in Seq(Char)
    /\ ln \in Nat \ {0} /\ cn \in Nat \ {0}
    /\ next \in 1 .. Len(name) + 1
    /\ out \in Seq(Char)
    /\ slices \in Seq(Seq(Char))
    /\ pc \in {"join", "slice", "label", "ok", "nil"}

AtStart == ln = 1 /\ cn = 1 /\ next = 1 /\ out = <<>> /\ slices = <<>>

JoinStart(l)  ==
    given = "labels" /\ source = <<>> /\ pc = "join" /\ labels = l /\ name = <<>> /\ AtStart
SliceStart(d) ==
    given = "name" /\ source = <<>> /\ pc = "slice" /\ labels = <<>> /\ name = d /\ AtStart

CodecInit == (\E l \in Seq(Seq(Char)) : JoinStart(l)) \/ (\E d \in Seq(Char) : SliceStart(d))
-----------------------------------------------------------------------------
(* DomainFrom *)

\* The label has another byte.
InLabel == ln <= Len(labels) /\ cn <= Len(labels[ln])

JoinByte ==
    /\ pc = "join" /\ InLabel
    /\ name' = name \o Escape(labels[ln][cn])
    /\ cn' = cn + 1
    /\ UNCHANGED <<given, source, labels, ln, sliceVars, pc>>

\* The next label, with the dot before it.
JoinLabel ==
    /\ pc = "join" /\ ~InLabel /\ ln < Len(labels)
    /\ name' = Append(name, Dot)
    /\ ln' = ln + 1
    /\ cn' = 1
    /\ UNCHANGED <<given, source, labels, sliceVars, pc>>

JoinDone ==
    /\ pc = "join" /\ ~InLabel /\ ln >= Len(labels)
    /\ pc' = "slice"
    /\ UNCHANGED <<given, source, labels, joinVars, sliceVars>>
-----------------------------------------------------------------------------
(* DomainSlice *)

SliceLabel ==
    /\ pc = "slice" /\ next <= Len(name)
    /\ pc' = "label"
    /\ out' = <<>>
    /\ UNCHANGED <<given, source, labels, joinVars, next, slices>>

SliceDone ==
    /\ pc = "slice" /\ next > Len(name)
    /\ pc' = "ok"
    /\ UNCHANGED <<given, source, labels, joinVars, sliceVars>>

\* avahi_unescape_label is at the dot or the NUL after the label.
AtEnd == next <= Len(name) => name[next] = Dot

\* It returns NULL: the buffer, which is as long as the name, is full, ...
NoRoom ==
    /\ pc = "label" /\ ~Room(out, Len(name))
    /\ pc' = "nil"
    /\ UNCHANGED <<given, source, labels, joinVars, sliceVars>>

\* ... what follows a backslash is wrong, ...
BadEscape ==
    /\ pc = "label" /\ Room(out, Len(name)) /\ ~AtEnd /\ ~ValidAt(name, next)
    /\ pc' = "nil"
    /\ UNCHANGED <<given, source, labels, joinVars, sliceVars>>

\* ... or the label is not UTF-8.
BadLabel ==
    /\ pc = "label" /\ Room(out, Len(name)) /\ AtEnd /\ ~Utf8Valid(out)
    /\ pc' = "nil"
    /\ UNCHANGED <<given, source, labels, joinVars, sliceVars>>

UnescapeByte ==
    /\ pc = "label" /\ Room(out, Len(name)) /\ ~AtEnd /\ ValidAt(name, next)
    /\ out' = Append(out, ByteAt(name, next))
    /\ next' = next + WidthAt(name, next)
    /\ UNCHANGED <<given, source, labels, joinVars, slices, pc>>

LabelDone ==
    /\ pc = "label" /\ Room(out, Len(name)) /\ AtEnd /\ Utf8Valid(out)
    /\ slices' = Append(slices, out)
    /\ next' = IF next > Len(name) THEN next ELSE next + 1
    /\ pc' = "slice"
    /\ UNCHANGED <<given, source, labels, joinVars, out>>
-----------------------------------------------------------------------------
(* DomainNormalize *)

\* Mutant of Normalize: a failure leaves the labels before it.
NormalizePart ==
    /\ given = "name" /\ pc \in {"ok", "nil"}
    /\ given' = IF pc = "ok" THEN "valid" ELSE "invalid"
    /\ source' = name
    /\ labels' = slices
    /\ pc' = "join" /\ name' = <<>>
    /\ ln' = 1 /\ cn' = 1 /\ next' = 1 /\ out' = <<>> /\ slices' = <<>>

\* DomainNormalize calls DomainFrom with the labels, or nil, of DomainSlice.
Normalize ==
    /\ given = "name" /\ pc \in {"ok", "nil"}
    /\ given' = IF pc = "ok" THEN "valid" ELSE "invalid"
    /\ source' = name
    /\ labels' = IF pc = "ok" THEN slices ELSE <<>>
    /\ pc' = "join" /\ name' = <<>>
    /\ ln' = 1 /\ cn' = 1 /\ next' = 1 /\ out' = <<>> /\ slices' = <<>>

CodecNext ==
    \/ JoinByte \/ JoinLabel \/ JoinDone
    \/ SliceLabel \/ SliceDone
    \/ NoRoom \/ BadEscape \/ BadLabel \/ UnescapeByte \/ LabelDone
    \/ Normalize

CodecSpec == CodecInit /\ [][CodecNext]_codecVars
-----------------------------------------------------------------------------
HasSpecial(label) == \E k \in DOMAIN label : label[k] \in Special

\* DomainSlice undoes DomainFrom (domain.go:19-24, 48-52), whatever dots and
\* backslashes are in the labels, when they are UTF-8 and the last is not empty
\* (it would leave a trailing dot, which means nothing).  It says nothing of
\* one label without a dot or a backslash, on which DomainSlice fails: that is
\* SlicesAnyName.
SliceInvertsFrom ==
    /\ given \in {"labels", "valid"} /\ pc \in {"ok", "nil"}
    /\ \A n \in DOMAIN labels : Utf8Valid(labels[n])
    /\ labels # <<>> /\ labels[Len(labels)] # <<>>
    /\ Len(labels) = 1 => HasSpecial(labels[1])
    => pc = "ok" /\ slices = labels
=============================================================================
