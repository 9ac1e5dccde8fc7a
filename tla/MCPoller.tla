------------------------------ MODULE MCPoller ------------------------------
(* Poller for TLC: where no liveness is checked, sources are                *)
(* interchangeable.                                                         *)
EXTENDS Poller, TLC

SourceSymmetry == Permutations(Sources)
=============================================================================
