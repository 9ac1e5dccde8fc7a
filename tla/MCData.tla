------------------------------- MODULE MCData -------------------------------
(* The functions on data, which share nothing: those on names as long as     *)
(* those on records have not begun, and the other way round.                 *)
EXTENDS MCDomain, MCRecords

IdleNames   == JoinStart(<<>>) /\ pieces = 0
IdleRecords == RecordsInit /\ rdata = <<>>

DataInit == (NamesInit /\ IdleRecords) \/ (IdleNames /\ RecordsInit)

DataNext ==
    \/ IdleRecords /\ NamesNext /\ UNCHANGED recordsVars
    \/ IdleNames /\ RecordsNext /\ UNCHANGED namesVars

DataSpec == DataInit /\ [][DataNext]_<<namesVars, recordsVars>>
=============================================================================
