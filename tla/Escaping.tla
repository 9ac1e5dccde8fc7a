------------------------------ MODULE Escaping ------------------------------
(***************************************************************************)
(* What the loops of domain.go and of avahi_unescape_label do with a byte. *)
(*                                                                         *)
(* A string is a sequence of bytes.  A name has no NUL among them: it      *)
(* would end there in C.CString.  Avahi reads a byte of a label from the   *)
(* byte itself, from a backslash with a dot or a backslash, or from a      *)
(* backslash with the number of the byte in three decimal digits.          *)
(***************************************************************************)
EXTENDS Integers, Sequences

CONSTANT Utf8Valid(_)   \* avahi_utf8_valid

Char == 1 .. 255

Dot == 46
Backslash == 92
Digits == 48 .. 57

Special == {Dot, Backslash}

\* Mutant of Escape: the backslash is not escaped.
EscapeDots(c) == IF c = Dot THEN <<Backslash, c>> ELSE <<c>>

Escape(c) == IF c \in Special THEN <<Backslash, c>> ELSE <<c>>

\* There are three digits in s from position k on, and what they say.
IsNumber(s, k) == k + 2 <= Len(s) /\ s[k] \in Digits /\ s[k + 1] \in Digits /\ s[k + 2] \in Digits
Number(s, k)   == 100 * (s[k] - 48) + 10 * (s[k + 1] - 48) + (s[k + 2] - 48)

\* What is at position k of s, which is not a dot: whether
\* avahi_unescape_label accepts it, the byte that it stands for then, and how
\* many bytes it takes.
ValidAt(s, k) ==
    s[k] = Backslash =>
        /\ k < Len(s)
        /\ s[k + 1] \in Special \/ (IsNumber(s, k + 1) /\ Number(s, k + 1) \in Char)

ByteAt(s, k) ==
    IF s[k] # Backslash THEN s[k]
    ELSE IF s[k + 1] \in Special THEN s[k + 1] ELSE Number(s, k + 1)

WidthAt(s, k) ==
    IF s[k] # Backslash THEN 1 ELSE IF s[k + 1] \in Special THEN 2 ELSE 4

\* The buffer of avahi_unescape_label has room for one byte more than out, be
\* it the NUL.
Room(out, size) == Len(out) < size
=============================================================================
