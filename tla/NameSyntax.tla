----------------------------- MODULE NameSyntax -----------------------------
(***************************************************************************)
(* What an escaped domain name says, apart from how domain.go and Avahi    *)
(* read it: the syntax that avahi_unescape_label documents in its errors.  *)
(* A name is put together from dots, and from units that each spell one    *)
(* byte of a label: the byte itself, unless it is special; a backslash     *)
(* with the byte, if it is; or a backslash with three decimal digits.      *)
(***************************************************************************)
EXTENDS Escaping, SequencesExt

Decimal(c) == <<48 + (c \div 100), 48 + ((c \div 10) % 10), 48 + (c % 10)>>

Spellings(c) ==
    {<<Backslash>> \o Decimal(c), IF c \in Special THEN <<Backslash, c>> ELSE <<c>>}

Units == UNION {Spellings(c) : c \in Char}

Spelt == [u \in Units |-> CHOOSE c \in Char : u \in Spellings(c)]

\* The labels of a name that goes on with u.
Extend(labels, u) ==
    IF u = <<Dot>> THEN Append(labels, <<>>)
    ELSE [labels EXCEPT ![Len(labels)] = Append(@, Spelt[u])]

\* The labels in the first k bytes of s, each way to read them; there is at
\* most one way, since no unit is the beginning of another.
Readings(s) ==
    LET read[k \in 0 .. Len(s)] ==
            IF k = 0 THEN {<< <<>> >>}
            ELSE UNION {
                {Extend(labels, SubSeq(s, j + 1, k)) : labels \in read[j]} :
                    j \in {i \in {k - 1, k - 2, k - 4} \cap Nat :
                              SubSeq(s, i + 1, k) \in Units \cup {<<Dot>>}}}
    IN  read[Len(s)]

\* The dot at the end of a name means nothing.
WithoutEmptyEnd(labels) ==
    IF labels # <<>> /\ Last(labels) = <<>> THEN Front(labels) ELSE labels

Meanings(s) ==
    {WithoutEmptyEnd(labels) : labels \in
        {l \in Readings(s) : \A n \in DOMAIN l : Utf8Valid(l[n])}}

Legal(s)   == Meanings(s) # {}
Meaning(s) == CHOOSE labels \in Meanings(s) : TRUE

\* Nothing in s is escaped, and no dot is in it.
Tight(s) == Legal(s) /\ Meaning(s) = <<s>>
=============================================================================
