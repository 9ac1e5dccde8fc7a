---------------------------- MODULE EventStream ----------------------------
(***************************************************************************)
(* What an eventqueue (eventqueue.go) promises to the object that owns it  *)
(* and to the application that reads its channel, without saying how:      *)
(* every accepted event is delivered at most once, nothing is delivered    *)
(* that was not accepted, and only a close may drop events.  It does NOT   *)
(* promise an order: see EventQueue!InOrder.                               *)
(*                                                                         *)
(* An event is its ordinal: the n-th Push of the queue pushes event n.     *)
(***************************************************************************)
EXTENDS Naturals, Sequences

VARIABLES
    accepted,   \* how many events were pushed so far
    pending,    \* set of the events that are still to be delivered
    delivered,  \* the events handed to readers, in that order
    stage       \* "open", "closing" (inside Close), "closed"

vars == <<accepted, pending, delivered, stage>>

Init ==
    /\ accepted = 0
    /\ pending = {}
    /\ delivered = <<>>
    /\ stage = "open"

\* Push
Accept ==
    /\ stage = "open"
    /\ accepted' = accepted + 1
    /\ pending' = pending \cup {accepted + 1}
    /\ UNCHANGED <<delivered, stage>>

\* A value passes through the output channel, also while Close is waiting.
Deliver(v) ==
    /\ stage # "closed"
    /\ v \in pending
    /\ pending' = pending \ {v}
    /\ delivered' = Append(delivered, v)
    /\ UNCHANGED <<accepted, stage>>

\* Close starts: what it purges at once is up to the implementation.
BeginClose ==
    /\ stage = "open"
    /\ stage' = "closing"
    /\ pending' \in SUBSET pending
    /\ UNCHANGED <<accepted, delivered>>

\* Close gives up one more event.
Discard(v) ==
    /\ stage = "closing"
    /\ v \in pending
    /\ pending' = pending \ {v}
    /\ UNCHANGED <<accepted, delivered, stage>>

\* Close returns, and then nothing is pending.
EndClose ==
    /\ stage = "closing"
    /\ pending = {}
    /\ stage' = "closed"
    /\ UNCHANGED <<accepted, pending, delivered>>

Next ==
    \/ Accept
    \/ \E v \in pending : Deliver(v) \/ Discard(v)
    \/ BeginClose
    \/ EndClose

Spec == Init /\ [][Next]_vars
=============================================================================
