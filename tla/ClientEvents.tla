---------------------------- MODULE ClientEvents ----------------------------
(***************************************************************************)
(* A Client and the event queue of one of its objects, Focus: Client says  *)
(* when the queue is made, pushed to and closed, and EventQueue what the   *)
(* goroutines of the queue do meanwhile.  Close of the object now waits    *)
(* for those goroutines, inside Client.Close too, and Push is what the     *)
(* code has: it does not look whether the queue is open.                   *)
(***************************************************************************)
EXTENDS Client, Sequences

CONSTANTS
    MaxPush,    \* bound: how many events Focus reports
    Readers,    \* goroutines that receive from its channel
    Focus       \* the object

ASSUME FocusAssumption ==
    /\ Focus \in Objects
    /\ MaxPush \in Nat \ {0}

VARIABLES
    buf, pushed, proc, held, sendq, closewait, closechan, outchan, closer,
    rpc, received

Q == INSTANCE EventQueue WITH pc <- proc

eventVars == <<buf, pushed, proc, held, sendq, closewait, closechan, outchan,
               closer, rpc, received>>
allVars == <<vars, eventVars>>

AllInit == Init /\ Q!Init
-----------------------------------------------------------------------------
(* What the steps of Client do to the queue *)

\* eventqueue.Push.
Push ==
    /\ pushed' = pushed + 1
    /\ buf' = Append(buf, pushed + 1)
    /\ IF buf = <<>>
       THEN /\ closewait' = closewait + 1
            /\ proc' = [proc EXCEPT ![pushed + 1] = "lock"]
       ELSE UNCHANGED <<closewait, proc>>
    /\ UNCHANGED <<held, sendq, closechan, outchan, closer, rpc, received>>

Created == result[Focus] = "none" /\ result'[Focus] = "ok"

\* The callback of Focus returns, or its constructor answers by itself.
Reports ==
    \/ thread = "child" /\ target = Focus /\ thread' = "idle"
    \/ Created /\ cobj'[Focus] = "none"

\* queue.Close returns, to Close of Focus or to its constructor that fails.
QueueClosed == queue[Focus] = "open" /\ queue'[Focus] = "closed"

Effect ==
    /\ Created => closer = "open"
    /\ \/ Reports /\ Push
       \/ QueueClosed /\ Q!CloseOut
       \/ ~Reports /\ ~QueueClosed /\ UNCHANGED eventVars

\* The steps of queue.Close before the last.  In the constructor they come
\* when Avahi has refused the object, with the lock held.
QueueClosing(u) ==
    /\ arg[u] = Focus
    /\ pc[u] \in {"create", "queue"}
    /\ Q!ClosePurge \/ Q!CloseWait
    /\ UNCHANGED vars

ClientWaits(u) == WaitingStep(u) /\ Effect

ClientSteps(u) == (Step(u) /\ Effect) \/ QueueClosing(u)

CallbackEnds == CallbackReturn /\ Effect

\* The bound on the events is in the guard of the callback.
CallbackBegins ==
    /\ Callback
    /\ target' = Focus => pushed < MaxPush
    /\ Effect

\* The application has the channel once the constructor has returned.
Reading(r) ==
    /\ result[Focus] = "ok"
    /\ Q!Receive(r) \/ Q!Cancel(r)
    /\ UNCHANGED vars

Goroutine(p) == Q!ProcStep(p) /\ UNCHANGED vars

AllNext ==
    \/ \E u \in Users : (Call(u) /\ Effect) \/ ClientWaits(u) \/ ClientSteps(u)
    \/ CallbackBegins
    \/ CallbackEnds
    \/ \E r \in Readers : Reading(r)
    \/ \E p \in 1 .. MaxPush : Goroutine(p)

\* As Client!FairSpec and EventQueue!FairSpec: nothing makes the application
\* call or read, or Avahi report.
AllSpec ==
    /\ AllInit /\ [][AllNext]_allVars
    /\ \A u \in Users : WF_allVars(ClientSteps(u)) /\ SF_allVars(ClientWaits(u))
    /\ WF_allVars(CallbackEnds)
    /\ \A p \in 1 .. MaxPush : WF_allVars(Goroutine(p))
-----------------------------------------------------------------------------
\* The queue behaves as EventQueue says, which allows a Push only before its
\* Close: the Client keeps the callbacks and the constructor from any other
\* (eventqueue.go:38, which would start a goroutine that nobody waits for).
QueueSpec == Q!Spec

\* When Client.Close has returned, nothing of a child it owned is left: no
\* goroutine of its queue is alive, none is parked on the channel, and no
\* reader waits there (client.go:32-35, "effectively unblocking pending
\* readers"); what was never read is gone.
NothingLeftBehind ==
    /\ ChildrenClosedWithClient
    /\ clnt.state = "done" /\ result[Focus] = "ok" =>
         /\ Q!Live = {} /\ closewait = 0 /\ sendq = <<>> /\ buf = <<>>
         /\ outchan = "closed" /\ \A r \in Readers : rpc[r] # "waiting"
=============================================================================
