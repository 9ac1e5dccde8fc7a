----------------------------- MODULE EventQueue -----------------------------
(***************************************************************************)
(* eventqueue.go: the unbounded queue between the Avahi event thread,      *)
(* which pushes the events of one object, and the application, which reads *)
(* them from an unbuffered Go channel.                                     *)
(*                                                                         *)
(* Push appends to buf under q.lock and starts a goroutine (proc) whenever *)
(* the buffer was empty.  proc takes the head of buf under the lock, drops *)
(* the lock and offers the value on outchan; several procs may therefore   *)
(* be alive at a time, each with one value in hand.  Close empties buf,    *)
(* closes closechan, waits for all procs and closes outchan.               *)
(*                                                                         *)
(* Every critical section of q.lock is one action: nothing outside of it   *)
(* reads or writes buf.  The select of proc and the receive of a reader    *)
(* are atomic, as the Go runtime makes them: a goroutine either completes  *)
(* a handoff at once or parks in the channel's FIFO of senders.            *)
(*                                                                         *)
(* The n-th Push pushes event n; a proc is named after the Push that       *)
(* started it.                                                             *)
(***************************************************************************)
EXTENDS Naturals, Sequences, FiniteSets, Functions

CONSTANTS
    MaxPush,    \* bound: how many events are pushed
    Readers     \* goroutines that receive from Chan()

ASSUME MaxPushAssumption == MaxPush \in Nat

Events == 1 .. MaxPush
Procs  == 1 .. MaxPush

VARIABLES
    buf,        \* eventqueue.buf
    pushed,     \* how many times Push was called
    pc,         \* pc[p]: where proc p is
    held,       \* held[p]: the local v of proc p, 0 when it has none
    sendq,      \* procs parked on outchan, in the order they will be served
    closewait,  \* counter of the WaitGroup
    closechan,  \* "open" or "closed"
    outchan,    \* "open" or "closed"
    closer,     \* where the call of Close is
    rpc,        \* rpc[r]: where reader r is
    received    \* history: the events handed to readers, in that order

queueVars == <<buf, pushed>>
procVars  == <<pc, held, sendq, closewait>>
closeVars == <<closechan, outchan, closer>>
readVars  == <<rpc, received>>
vars == <<queueVars, procVars, closeVars, readVars>>

PcState == {"none",    \* not started
            "lock",    \* at q.lock.Lock(): just started, or after its select
            "select",  \* holds a value, before the select
            "parked",  \* blocked in the select
            "done",    \* left the loop and the lock, before closewait.Done()
            "exit"}

CloserState == {"open",     \* Close not called
                "wait",     \* in closewait.Wait()
                "drained",  \* before close(outchan)
                "closed"}   \* returned

TypeOK ==
    /\ buf \in Seq(Events)
    /\ pushed \in 0 .. MaxPush
    /\ pc \in [Procs -> PcState]
    /\ held \in [Procs -> 0 .. MaxPush]
    /\ sendq \in Seq(Procs)
    /\ closewait \in Nat
    /\ closechan \in {"open", "closed"}
    /\ outchan \in {"open", "closed"}
    /\ closer \in CloserState
    /\ rpc \in [Readers -> {"idle", "waiting", "eof"}]
    /\ received \in Seq(Events)

Init ==
    /\ buf = <<>>
    /\ pushed = 0
    /\ pc = [p \in Procs |-> "none"]
    /\ held = [p \in Procs |-> 0]
    /\ sendq = <<>>
    /\ closewait = 0
    /\ closechan = "open"
    /\ outchan = "open"
    /\ closer = "open"
    /\ rpc = [r \in Readers |-> "idle"]
    /\ received = <<>>

Live   == {p \in Procs : pc[p] \notin {"none", "exit"}}
InHand == {p \in Procs : pc[p] \in {"select", "parked"}}
-----------------------------------------------------------------------------
(* The owner of the queue. *)

\* Mutant of Push: a new proc only when none is alive, as if closewait told
\* whether one will look at the buffer again.
PushWhenNoneAlive ==
    /\ closer = "open"
    /\ pushed < MaxPush
    /\ pushed' = pushed + 1
    /\ buf' = Append(buf, pushed + 1)
    /\ IF closewait = 0
       THEN /\ closewait' = closewait + 1
            /\ pc' = [pc EXCEPT ![pushed + 1] = "lock"]
       ELSE UNCHANGED <<closewait, pc>>
    /\ UNCHANGED <<held, sendq, closeVars, readVars>>

\* Mutant of Push: closewait.Add(1) is left out.
PushWithoutAdd ==
    /\ closer = "open"
    /\ pushed < MaxPush
    /\ pushed' = pushed + 1
    /\ buf' = Append(buf, pushed + 1)
    /\ pc' = IF buf = <<>> THEN [pc EXCEPT ![pushed + 1] = "lock"] ELSE pc
    /\ UNCHANGED <<closewait, held, sendq, closeVars, readVars>>

\* Push is called by the callbacks of the object that owns the queue.  Owners
\* stop their callbacks before they call Close: see Client!NoCallbackOnClosed.
Push ==
    /\ closer = "open"
    /\ pushed < MaxPush
    /\ pushed' = pushed + 1
    /\ buf' = Append(buf, pushed + 1)
    /\ IF buf = <<>>
       THEN /\ closewait' = closewait + 1
            /\ pc' = [pc EXCEPT ![pushed + 1] = "lock"]
       ELSE UNCHANGED <<closewait, pc>>
    /\ UNCHANGED <<held, sendq, closeVars, readVars>>

\* Mutant of ClosePurge: proc sends without a select on closechan, so that
\* closing closechan wakes nobody.
ClosePurgeWakesNobody ==
    /\ closer = "open"
    /\ closer' = "wait"
    /\ buf' = <<>>
    /\ closechan' = "closed"
    /\ UNCHANGED <<pushed, procVars, outchan, readVars>>

\* The critical section of Close.  Closing closechan wakes the parked procs,
\* which thereby give up the values they hold.
ClosePurge ==
    /\ closer = "open"
    /\ closer' = "wait"
    /\ buf' = <<>>
    /\ closechan' = "closed"
    /\ sendq' = <<>>
    /\ pc' = [p \in Procs |-> IF pc[p] = "parked" THEN "lock" ELSE pc[p]]
    /\ held' = [p \in Procs |-> IF pc[p] = "parked" THEN 0 ELSE held[p]]
    /\ UNCHANGED <<pushed, closewait, outchan, readVars>>

\* Mutant of CloseWait: Close does not wait for the procs.
CloseWithoutWait ==
    /\ closer = "wait"
    /\ closer' = "drained"
    /\ UNCHANGED <<queueVars, procVars, closechan, outchan, readVars>>

CloseWait ==
    /\ closer = "wait"
    /\ closewait = 0
    /\ closer' = "drained"
    /\ UNCHANGED <<queueVars, procVars, closechan, outchan, readVars>>

\* Mutant of CloseOut: close(outchan) is left out.
CloseWithoutOut ==
    /\ closer = "drained"
    /\ closer' = "closed"
    /\ UNCHANGED <<queueVars, procVars, closechan, outchan, readVars>>

\* close(outchan) wakes the readers that wait on it.
CloseOut ==
    /\ closer = "drained"
    /\ closer' = "closed"
    /\ outchan' = "closed"
    /\ rpc' = [r \in Readers |-> IF rpc[r] = "waiting" THEN "eof" ELSE rpc[r]]
    /\ UNCHANGED <<queueVars, procVars, closechan, received>>
-----------------------------------------------------------------------------
(* The goroutine. *)

\* Mutant of Take: the buffer is not shortened.
TakeWithoutShrink(p) ==
    /\ pc[p] = "lock"
    /\ buf # <<>>
    /\ held' = [held EXCEPT ![p] = Head(buf)]
    /\ pc' = [pc EXCEPT ![p] = "select"]
    /\ UNCHANGED <<queueVars, sendq, closewait, closeVars, readVars>>

\* Mutant of Take: the newest value is taken.
TakeLast(p) ==
    /\ pc[p] = "lock"
    /\ buf # <<>>
    /\ held' = [held EXCEPT ![p] = buf[Len(buf)]]
    /\ buf' = SubSeq(buf, 1, Len(buf) - 1)
    /\ pc' = [pc EXCEPT ![p] = "select"]
    /\ UNCHANGED <<pushed, sendq, closewait, closeVars, readVars>>

\* Lock, find buf non-empty, take its head, unlock.
Take(p) ==
    /\ pc[p] = "lock"
    /\ buf # <<>>
    /\ held' = [held EXCEPT ![p] = Head(buf)]
    /\ buf' = Tail(buf)
    /\ pc' = [pc EXCEPT ![p] = "select"]
    /\ UNCHANGED <<pushed, sendq, closewait, closeVars, readVars>>

\* Lock, find buf empty, leave the loop; the deferred calls unlock first ...
Finish(p) ==
    /\ pc[p] = "lock"
    /\ buf = <<>>
    /\ pc' = [pc EXCEPT ![p] = "done"]
    /\ UNCHANGED <<queueVars, held, sendq, closewait, closeVars, readVars>>

\* ... and then tell the WaitGroup.
Done(p) ==
    /\ pc[p] = "done"
    /\ pc' = [pc EXCEPT ![p] = "exit"]
    /\ closewait' = closewait - 1
    /\ UNCHANGED <<queueVars, held, sendq, closeVars, readVars>>

\* Mutant of SelectClose: the select has a default, which drops the value.
SelectDefault(p) ==
    /\ pc[p] = "select"
    /\ pc' = [pc EXCEPT ![p] = "lock"]
    /\ held' = [held EXCEPT ![p] = 0]
    /\ UNCHANGED <<queueVars, sendq, closewait, closeVars, readVars>>

SelectClose(p) ==
    /\ pc[p] = "select"
    /\ closechan = "closed"
    /\ pc' = [pc EXCEPT ![p] = "lock"]
    /\ held' = [held EXCEPT ![p] = 0]
    /\ UNCHANGED <<queueVars, sendq, closewait, closeVars, readVars>>

\* Mutant of SelectSend: proc returns after its value (if instead of for).
SelectSendOnce(p, r) ==
    /\ pc[p] = "select"
    /\ rpc[r] = "waiting"
    /\ received' = Append(received, held[p])
    /\ rpc' = [rpc EXCEPT ![r] = "idle"]
    /\ pc' = [pc EXCEPT ![p] = "done"]
    /\ held' = [held EXCEPT ![p] = 0]
    /\ UNCHANGED <<queueVars, sendq, closewait, closeVars>>

\* A reader already waits: the value is handed to it.  When closechan is
\* closed too, select picks either case.
SelectSend(p, r) ==
    /\ pc[p] = "select"
    /\ rpc[r] = "waiting"
    /\ received' = Append(received, held[p])
    /\ rpc' = [rpc EXCEPT ![r] = "idle"]
    /\ pc' = [pc EXCEPT ![p] = "lock"]
    /\ held' = [held EXCEPT ![p] = 0]
    /\ UNCHANGED <<queueVars, sendq, closewait, closeVars>>

SelectPark(p) ==
    /\ pc[p] = "select"
    /\ closechan = "open"
    /\ \A r \in Readers : rpc[r] # "waiting"
    /\ pc' = [pc EXCEPT ![p] = "parked"]
    /\ sendq' = Append(sendq, p)
    /\ UNCHANGED <<queueVars, held, closewait, closeVars, readVars>>
-----------------------------------------------------------------------------
(* The readers of Chan(): the application, or Poller.Poll. *)

\* The channel serves the sender that parked first.
ReceiveSent(r) ==
    /\ rpc[r] = "idle"
    /\ sendq # <<>>
    /\ received' = Append(received, held[Head(sendq)])
    /\ sendq' = Tail(sendq)
    /\ pc' = [pc EXCEPT ![Head(sendq)] = "lock"]
    /\ held' = [held EXCEPT ![Head(sendq)] = 0]
    /\ UNCHANGED <<queueVars, closewait, closeVars, rpc>>

ReceiveWait(r) ==
    /\ rpc[r] = "idle"
    /\ sendq = <<>>
    /\ outchan = "open"
    /\ rpc' = [rpc EXCEPT ![r] = "waiting"]
    /\ UNCHANGED <<queueVars, procVars, closeVars, received>>

\* A receive from the closed channel returns at once, every time.
ReceiveEOF(r) ==
    /\ rpc[r] \in {"idle", "eof"}
    /\ outchan = "closed"
    /\ rpc' = [rpc EXCEPT ![r] = "eof"]
    /\ UNCHANGED <<queueVars, procVars, closeVars, received>>

\* The reader's context expires: it leaves its select.
Cancel(r) ==
    /\ rpc[r] = "waiting"
    /\ rpc' = [rpc EXCEPT ![r] = "idle"]
    /\ UNCHANGED <<queueVars, procVars, closeVars, received>>
-----------------------------------------------------------------------------
ProcStep(p) ==
    \/ Take(p)
    \/ Finish(p)
    \/ Done(p)
    \/ SelectClose(p)
    \/ \E r \in Readers : SelectSend(p, r)
    \/ SelectPark(p)

Receive(r) == ReceiveSent(r) \/ ReceiveWait(r) \/ ReceiveEOF(r)

CloserStep == CloseWait \/ CloseOut

Next ==
    \/ Push
    \/ ClosePurge
    \/ CloserStep
    \/ \E p \in Procs : ProcStep(p)
    \/ \E r \in Readers : Receive(r) \/ Cancel(r)

Spec == Init /\ [][Next]_vars

\* The Go scheduler runs every goroutine that can run: the procs and the one
\* inside Close.  Nothing makes the application push, close or read.
FairSpec ==
    /\ Spec
    /\ \A p \in Procs : WF_vars(ProcStep(p))
    /\ WF_vars(CloserStep)

\* What FairSpec leaves to the application: a reader that keeps reading.
KeepsReading(r) == WF_vars(Receive(r))
-----------------------------------------------------------------------------
(* Safety *)

Undelivered == Range(buf) \cup {held[p] : p \in InHand}

\* No event is lost or duplicated: an event is at one place at most (the
\* buffer, the hands of one proc, or the output), and until Close starts
\* every event pushed is at one of them.  It is about the unlocked interval
\* of proc, in which other procs and Push work on buf (eventqueue.go:77-82).
Conservation ==
    /\ \A i, j \in DOMAIN buf : buf[i] = buf[j] => i = j
    /\ \A i, j \in DOMAIN received : received[i] = received[j] => i = j
    /\ \A p, q \in InHand : held[p] = held[q] => p = q
    /\ \A p \in InHand : held[p] \notin Range(buf)
    /\ Undelivered \cap Range(received) = {}
    /\ closer = "open" => Undelivered \cup Range(received) = 1 .. pushed

\* The comment at eventqueue.go:60, "Now it is safe to close output channel":
\* no proc that may still send is left when the output channel is closed.
NoSendOnClosedChannel ==
    closer \in {"drained", "closed"} => Live = {}

\* Reordering is confined to the events that have left the buffer: an event
\* that is still in it is younger than every event delivered or in hand.
BufferNeverOvertaken ==
    \A i \in DOMAIN buf :
        \A v \in Range(received) \cup {held[p] : p \in InHand} : v < buf[i]

\* Push starts a proc only when the buffer was empty (eventqueue.go:39); no
\* event may stay in the buffer with no proc left that would come for it.
NoLostWakeup ==
    buf # <<>> => \E p \in Procs : pc[p] \in {"lock", "select", "parked"}

\* README.md:36: "It uses a single channel for all events reported by an
\* object, so add/remove events cannot be reordered".  The code does not
\* keep it: two procs race for the channel.
InOrder ==
    \A i, j \in DOMAIN received : i < j => received[i] < received[j]
-----------------------------------------------------------------------------
(* The inductive invariant behind the safety properties *)

\* Who is where: procs start in the order of the pushes, a proc has a value
\* exactly while it is in its select, the senders that the channel knows are
\* parked procs, and the WaitGroup counts the procs that are alive.
ProcInv ==
    /\ \A p \in Procs : p > pushed => pc[p] = "none"
    /\ \A p \in Procs : held[p] # 0 <=> p \in InHand
    /\ \A i \in 1 .. Len(sendq) : pc[sendq[i]] = "parked"
    /\ \A i, j \in 1 .. Len(sendq) : sendq[i] = sendq[j] => i = j
    /\ closewait = Cardinality(Live)

\* How many events have left the buffer, while Close has not purged it.
Taken == pushed - Len(buf)

\* What is where: the buffer holds the newest events in order, every other
\* event is at one place at most, and none is missing before Close.
EventInv ==
    /\ Len(buf) <= pushed
    /\ \A i \in 1 .. Len(buf) : buf[i] = Taken + i
    /\ \A p \in Procs : held[p] <= Taken
    /\ \A i \in 1 .. Len(received) : received[i] <= Taken
    /\ \A p, q \in InHand : held[p] = held[q] => p = q
    /\ \A i, j \in 1 .. Len(received) : received[i] = received[j] => i = j
    /\ \A p \in InHand : \A i \in 1 .. Len(received) : held[p] # received[i]
    /\ closer = "open" =>
         \A v \in 1 .. Taken :
             \/ \E p \in InHand : held[p] = v
             \/ \E i \in 1 .. Len(received) : received[i] = v

\* How far Close is, and what it has put an end to.
CloseInv ==
    /\ closechan = "open" <=> closer = "open"
    /\ outchan = "closed" <=> closer = "closed"
    /\ closer # "open" => buf = <<>> /\ sendq = <<>>
    /\ NoSendOnClosedChannel
    /\ NoLostWakeup

\* All of it: TypeOK needs ProcInv, since Done decrements closewait.
IInv == TypeOK /\ ProcInv /\ EventInv /\ CloseInv
-----------------------------------------------------------------------------
(* Refinement *)

\* How the owner and the readers see the progress of Close.
Stage == IF closer = "open" THEN "open"
         ELSE IF closer = "closed" THEN "closed" ELSE "closing"

Stream == INSTANCE EventStream WITH
    accepted  <- pushed,
    pending   <- Undelivered,
    delivered <- received,
    stage     <- Stage

\* The queue is an event stream: whatever its goroutines do, a step of the
\* queue is a step of the stream or invisible.
StreamRefinement == Stream!Spec
-----------------------------------------------------------------------------
(* Liveness *)

\* Close returns, whether or not somebody reads (eventqueue.go:58 waits for
\* procs that are blocked on the output channel).
CloseCompletes == closer = "wait" ~> closer = "closed"

\* While some reader keeps reading and the queue stays open, every event
\* pushed reaches a reader: none waits for ever in the buffer or in the hands
\* of a proc (eventqueue.go:66-84).
Delivery ==
    (\E r \in Readers : KeepsReading(r)) =>
        \A v \in Events :
            v <= pushed ~> v \in Range(received) \/ closer # "open"

\* A reader that waits when the queue is closed does not wait forever
\* (eventqueue.go:61).
ReadersUnblocked ==
    \A r \in Readers :
        closer # "open" /\ rpc[r] = "waiting" ~> rpc[r] # "waiting"
=============================================================================
