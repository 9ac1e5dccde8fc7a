--------------------------- MODULE MCEntryGroup ----------------------------
(* EntryGroup for TLC: with four units to a second and one second as the    *)
(* limit, the TTLs are negative, rounded up to the limit, equal to it, and  *)
(* just above it.                                                           *)
EXTENDS EntryGroup

SomeTTLs == {-1, 3, 4, 5}
=============================================================================
