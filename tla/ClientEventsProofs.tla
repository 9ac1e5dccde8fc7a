------------------------- MODULE ClientEventsProofs -------------------------
(***************************************************************************)
(* Theorems about a Client and the queue of one of its objects, for every  *)
(* set of goroutines, objects and readers and every number of events.  The *)
(* theorems of ClientProofs and of EventQueueProofs are put together here. *)
(***************************************************************************)
EXTENDS ClientEvents, ClientProofs

QP == INSTANCE EventQueueProofs WITH pc <- proc

\* A step of both is a step of the Client, or leaves it alone.
LEMMA ClientStep == ASSUME [AllNext]_allVars PROVE [Next]_vars
BY DEF AllNext, allVars, ClientWaits, ClientSteps, QueueClosing, CallbackEnds,
   CallbackBegins, Reading, Goroutine, Next

\* What a step of the Client does to Focus: its queue is made, and closed once;
\* its constructor returns once; and the user that closes the queue, or may,
\* stays there until it is closed or the constructor has returned.
FocusStep ==
    /\ \/ queue'[Focus] = queue[Focus]
       \/ queue[Focus] = "none" /\ queue'[Focus] = "open"
       \/ QueueClosed
    /\ \/ result'[Focus] = result[Focus]
       \/ result[Focus] = "none" /\ result'[Focus] \in {"ok", "error"}
    /\ Created \/ (thread = "child" /\ thread' = "idle") => queue'[Focus] = queue[Focus]
    /\ \A u \in Users : arg[u] = Focus /\ pc[u] \in {"create", "queue"} =>
         \/ arg'[u] = Focus /\ pc'[u] \in {"create", "queue"}
         \/ Created
         \/ QueueClosed

\* What a step of Client does to the object whose queue runs.
LEMMA FocusSteps == ASSUME IInv, [Next]_vars PROVE FocusStep
<1> USE ClientAssumption, FocusAssumption DEF FocusStep, QueueClosed, Created, IInv, TypeOK
<1>1. ASSUME UNCHANGED <<queue, result, pc, arg>> PROVE FocusStep
  BY <1>1
<1>2. ASSUME NEW u \in Users, NEW s, Goto(u, s), pc[u] \notin {"create", "queue"},
             UNCHANGED <<queue, result>>
      PROVE  FocusStep
  BY <1>2 DEF Goto
<1>3. ASSUME NEW u \in Users, NEW s, NEW o \in Objects \cup {None}, Start(u, s, o),
             pc[u] \notin {"create", "queue"}, UNCHANGED <<queue, result>>
      PROVE  FocusStep
  BY <1>3 DEF Start
<1>4. ASSUME NEW u \in Users,
             \/ NewClientAlloc(u) \/ NewClientFail(u) \/ NewClientOk(u)
             \/ NewBegin(u) \/ CloseBegin(u) \/ CloseFree(u)
             \/ Use(u) \/ UseBegin(u) \/ UseEnd(u)
      PROVE  FocusStep
  BY <1>2, <1>4 DEF NewClientAlloc, NewClientFail, NewClientOk, NewBegin, CloseBegin,
     CloseFree, Use, UseBegin, UseEnd, objVars
<1>5. ASSUME NEW u \in Users,
             \/ ClientSwap(u) \/ ClientStop(u) \/ ClientFree(u)
             \/ ClientPollFree(u) \/ ClientQueue(u) \/ ClientHandle(u)
      PROVE  FocusStep
  BY <1>2, <1>5 DEF ClientSwap, ClientStop, ClientFree, ClientPollFree, ClientQueue,
     ClientHandle, objVars
<1>6. ASSUME NEW u \in Users, NEW o \in Objects, NewAlloc(u, o) PROVE FocusStep
  <2>1. \A v \in Users : arg[v] # o
    BY <1>6 DEF NewAlloc, ArgInv, StepInv, NewState, CloseState
  <2>2. queue[o] = "none"
    BY <1>6, <2>1 DEF NewAlloc, ObjectInv
  <2> QED
    BY <1>6, <2>2 DEF NewAlloc, Start, threadVars
<1>7. ASSUME NEW u \in Users, NewLocal(u) \/ NewEarlyReturn(u) PROVE FocusStep
  <2>1. result[arg[u]] = "none"
    BY <1>7 DEF NewLocal, NewEarlyReturn, StepInv, NewState
  <2> QED
    BY <1>7, <2>1 DEF NewLocal, NewEarlyReturn, Start, threadVars
<1>8. ASSUME NEW u \in Users, NewOk(u) \/ NewFail(u) PROVE FocusStep
  <2>1. result[arg[u]] = "none" /\ queue[arg[u]] = "open"
    BY <1>8 DEF NewOk, NewFail, StepInv, NewState
  <2> QED
    BY <1>8, <2>1 DEF NewOk, NewFail, Start, threadVars
<1>9. ASSUME NEW u \in Users, NEW o \in Objects, CloseSwap(u, o) PROVE FocusStep
  BY <1>3, <1>9 DEF CloseSwap
<1>10. ASSUME NEW u \in Users, CloseQueue(u) PROVE FocusStep
  <2>1. queue[arg[u]] = "open"
    BY <1>10 DEF CloseQueue, StepInv, Released
  <2> QED
    BY <1>10, <2>1 DEF CloseQueue, Goto, threadVars
<1>11. ASSUME NEW u \in Users, CloseHandle(u) PROVE FocusStep
  BY <1>3, <1>11 DEF CloseHandle, Return
<1>12. ASSUME NEW u \in Users, NEW o \in Objects, ClientRange(u, o) PROVE FocusStep
  BY <1>1, <1>3, <1>12 DEF ClientRange, userVars
<1>13. ASSUME NEW u \in Users, NewClientNoMemory(u) \/ NewClientCallback(u) PROVE FocusStep
  BY <1>1, <1>13 DEF NewClientNoMemory, NewClientCallback, objVars, userVars
<1>14. ASSUME \/ ClientCallback \/ CallbackReturn \/ (\E o \in Objects : ChildCallback(o))
              \/ UNCHANGED vars
       PROVE  FocusStep
  BY <1>1, <1>14 DEF ClientCallback, ChildCallback, CallbackReturn, vars, objVars, userVars
<1> HIDE DEF FocusStep
<1> QED
  BY <1>4, <1>5, <1>6, <1>7, <1>8, <1>9, <1>10, <1>11, <1>12, <1>13, <1>14
     DEF Next, Call, WaitingStep, Step, Callback, DoubleClose, ClientDoubleClose
-----------------------------------------------------------------------------
(* The Client and the queue *)

\* How far the Client and the queue of Focus are: the queue is closed when the
\* last step of its Close was made, somebody is there for the steps before
\* it, and there is room for the event of a callback that runs.
LinkInv ==
    /\ pushed \in 0 .. MaxPush
    /\ closer \in {"open", "wait", "drained", "closed"}
    /\ result[Focus] = "none" => pushed = 0
    /\ queue[Focus] = "closed" <=> closer = "closed"
    /\ closer \in {"wait", "drained"} =>
         \E u \in Users : arg[u] = Focus /\ pc[u] \in {"create", "queue"}
    /\ thread = "child" /\ target = Focus => pushed < MaxPush

\* At first the queue is open for Client and for itself, and nothing was pushed.
LEMMA InitLink == AllInit => LinkInv
BY FocusAssumption DEF AllInit, Init, Q!Init, LinkInv

\* A callback of Focus runs while its C object is there, and so is its queue.
LEMMA CallbackOfFocus ==
    ASSUME IInv, thread = "child", target = Focus
    PROVE  result[Focus] = "ok" /\ queue[Focus] = "open"
             /\ \A u \in Users : arg[u] = Focus => pc[u] \notin {"create", "queue"}
<1> USE ClientAssumption, FocusAssumption DEF IInv
<1>1. cobj[Focus] = "live"
  BY DEF CallbackInv
<1>2. result[Focus] = "ok"
  BY <1>1 DEF TypeOK, ObjectInv
<1>3. \A u \in Users : arg[u] = Focus => pc[u] \notin {"create", "queue"}
  BY <1>1, <1>2 DEF StepInv, Released, NewState
<1>4. CASE \A u \in Users : arg[u] # Focus
  BY <1>1, <1>2, <1>4 DEF ObjectInv, Intact, Released
<1>5. CASE \E u \in Users : arg[u] = Focus
  BY <1>1, <1>2, <1>5 DEF ArgInv, StepInv, Intact, Overtaken, Released, NewState, CloseState
<1> QED
  BY <1>2, <1>3, <1>4, <1>5

\* Focus reports only before Close of its queue has begun: what Push asks for.
LEMMA ReportsBeforeClose ==
    ASSUME IInv, LinkInv, FocusStep, Reports, Created => closer = "open"
    PROVE  /\ closer = "open" /\ pushed < MaxPush
           /\ ~QueueClosed
           /\ result'[Focus] = "ok"
           /\ ~(thread' = "child" /\ thread = "child" /\ target = Focus)
<1> USE FocusAssumption
<1>1. CASE thread = "child" /\ target = Focus
  <2>1. /\ result[Focus] = "ok" /\ queue[Focus] = "open"
        /\ \A u \in Users : arg[u] = Focus => pc[u] \notin {"create", "queue"}
    BY <1>1, CallbackOfFocus
  <2>2. ~Created
    BY <2>1 DEF Created
  <2>3. closer = "open" /\ pushed < MaxPush
    BY <1>1, <2>1 DEF LinkInv
  <2> QED
    BY <1>1, <2>1, <2>2, <2>3 DEF Reports, FocusStep, QueueClosed
<1>2. CASE ~(thread = "child" /\ target = Focus)
  <2>1. Created
    BY <1>2 DEF Reports
  <2>2. closer = "open" /\ pushed = 0
    BY <2>1 DEF Created, LinkInv
  <2> QED
    BY <1>2, <2>1, <2>2 DEF FocusStep, QueueClosed, Created
<1> QED
  BY <1>1, <1>2

\* No callback begins but in ClientCallback, ChildCallback, NewClientCallback.
LEMMA NoNewCallback ==
    ASSUME NEW u \in Users, Call(u) \/ WaitingStep(u) \/ Step(u)
    PROVE  thread' = "child" => thread = "child" /\ target' = target
BY DEF Call, WaitingStep, Step, NewClientAlloc, NewClientNoMemory, NewAlloc,
   CloseSwap, DoubleClose, Use, ClientSwap, ClientDoubleClose, NewBegin, CloseBegin, UseBegin,
   ClientStop, NewClientFail, NewClientOk, NewLocal, NewEarlyReturn, NewOk, NewFail, CloseFree,
   CloseQueue, CloseHandle, UseEnd, ClientRange, ClientFree, ClientPollFree, ClientQueue,
   ClientHandle, vars, clientVars, threadVars

\* A step of the Client and what it does to the queue.
LEMMA EffectLink ==
    ASSUME IInv, LinkInv, FocusStep, Effect,
           thread' = "child" /\ target' = Focus =>
             pushed < MaxPush /\ (~Reports \/ (thread = "child" /\ target = Focus))
    PROVE  LinkInv'
<1> USE FocusAssumption
<1>1. CASE Reports /\ Push
  <2>1. /\ closer = "open" /\ pushed < MaxPush
        /\ ~QueueClosed
        /\ result'[Focus] = "ok"
        /\ ~(thread' = "child" /\ thread = "child" /\ target = Focus)
    BY <1>1, ReportsBeforeClose DEF Effect
  <2>2. pushed' = pushed + 1 /\ closer' = closer
    BY <1>1 DEF Push
  <2>3. queue[Focus] # "closed" /\ queue'[Focus] # "closed"
    BY <2>1 DEF LinkInv, FocusStep
  <2> QED
    BY <1>1, <2>1, <2>2, <2>3 DEF LinkInv
<1>2. CASE QueueClosed /\ Q!CloseOut
  <2>1. closer' = "closed" /\ pushed' = pushed /\ queue'[Focus] = "closed"
    BY <1>2 DEF Q!CloseOut, Q!queueVars, QueueClosed
  <2> QED
    BY <2>1 DEF LinkInv, FocusStep
<1>3. CASE ~Reports /\ ~QueueClosed /\ UNCHANGED eventVars
  <2>1. closer' = closer /\ pushed' = pushed
    BY <1>3 DEF eventVars
  <2>2. queue'[Focus] = "closed" <=> queue[Focus] = "closed"
    BY <1>3 DEF FocusStep
  <2>3. closer \in {"wait", "drained"} =>
          \E u \in Users : arg'[u] = Focus /\ pc'[u] \in {"create", "queue"}
    BY <1>3 DEF Effect, LinkInv, FocusStep
  <2> QED
    BY <2>1, <2>2, <2>3 DEF LinkInv, FocusStep
<1> QED
  BY <1>1, <1>2, <1>3 DEF Effect

\* LinkInv is inductive relative to the invariant of the Client.
LEMMA NextLink ==
    ASSUME IInv, LinkInv, [AllNext]_allVars
    PROVE  LinkInv'
<1>1. FocusStep
  BY ClientStep, FocusSteps
<1>2. ASSUME NEW u \in Users, Call(u) \/ WaitingStep(u) \/ Step(u), Effect PROVE LinkInv'
  <2>1. thread' = "child" => thread = "child" /\ target' = target
    BY <1>2, NoNewCallback
  <2> QED
    BY <1>1, <1>2, <2>1, EffectLink DEF LinkInv
<1>3. ASSUME CallbackEnds PROVE LinkInv'
  <2>1. thread' # "child"
    BY <1>3 DEF CallbackEnds, CallbackReturn
  <2> QED
    BY <1>1, <1>3, <2>1, EffectLink DEF CallbackEnds
<1>4. ASSUME CallbackBegins PROVE LinkInv'
  <2>1. thread # "child" /\ result' = result
    BY <1>4 DEF CallbackBegins, Callback, NewClientCallback, ClientCallback, ChildCallback, objVars
  <2>2. ~Reports
    BY <2>1 DEF Reports, Created
  <2> QED
    BY <1>1, <1>4, <2>2, EffectLink DEF CallbackBegins
<1>5. ASSUME NEW u \in Users, QueueClosing(u) PROVE LinkInv'
  BY <1>5 DEF QueueClosing, Q!ClosePurge, Q!CloseWait, Q!queueVars, Q!procVars, LinkInv, vars,
     clientVars, threadVars, objVars, userVars
<1>6. ASSUME UNCHANGED vars, UNCHANGED <<pushed, closer>> PROVE LinkInv'
  BY <1>6 DEF LinkInv, vars, clientVars, threadVars, objVars, userVars
<1>7. ASSUME NEW r \in Readers, Reading(r) PROVE LinkInv'
  BY <1>6, <1>7 DEF Reading, Q!Receive, Q!ReceiveSent, Q!ReceiveWait, Q!ReceiveEOF, Q!Cancel,
     Q!queueVars, Q!closeVars
<1>8. ASSUME NEW p \in 1 .. MaxPush, Goroutine(p) PROVE LinkInv'
  BY <1>6, <1>8 DEF Goroutine, Q!ProcStep, Q!Take, Q!Finish, Q!Done, Q!SelectClose,
     Q!SelectSend, Q!SelectPark, Q!queueVars, Q!closeVars
<1>9. ASSUME UNCHANGED allVars PROVE LinkInv'
  BY <1>6, <1>9 DEF allVars, eventVars
<1> QED
  BY <1>2, <1>3, <1>4, <1>5, <1>7, <1>8, <1>9 DEF AllNext, ClientWaits, ClientSteps
-----------------------------------------------------------------------------
(* The Client keeps to what EventQueue assumes of the owner of a queue *)

\* What a step of the Client does to the queue is a step of the queue.
LEMMA EffectQueue ==
    ASSUME IInv, LinkInv, FocusStep, Effect
    PROVE  [Q!Next]_(Q!vars)
<1>1. CASE Reports /\ Push
  <2>1. closer = "open" /\ pushed < MaxPush
    BY <1>1, ReportsBeforeClose DEF Effect
  <2> QED
    BY <1>1, <2>1 DEF Push, Q!Next, Q!Push, Q!closeVars, Q!readVars
<1>2. CASE QueueClosed /\ Q!CloseOut
  BY <1>2 DEF Q!Next, Q!CloserStep
<1>3. CASE UNCHANGED eventVars
  BY <1>3 DEF eventVars, Q!vars, Q!queueVars, Q!procVars, Q!closeVars, Q!readVars
<1> QED
  BY <1>1, <1>2, <1>3 DEF Effect

\* And so is a step of both.
LEMMA QueueStep ==
    ASSUME IInv, LinkInv, [AllNext]_allVars
    PROVE  [Q!Next]_(Q!vars)
<1>1. FocusStep
  BY ClientStep, FocusSteps
<1>2. ASSUME Effect PROVE [Q!Next]_(Q!vars)
  BY <1>1, <1>2, EffectQueue
<1>3. ASSUME NEW u \in Users, QueueClosing(u) PROVE [Q!Next]_(Q!vars)
  BY <1>3 DEF QueueClosing, Q!Next, Q!CloserStep
<1>4. ASSUME NEW r \in Readers, Reading(r) PROVE [Q!Next]_(Q!vars)
  BY <1>4 DEF Reading, Q!Next
<1>5. ASSUME NEW p \in 1 .. MaxPush, Goroutine(p) PROVE [Q!Next]_(Q!vars)
  BY <1>5 DEF Goroutine, Q!Next, Q!Procs
<1>6. ASSUME UNCHANGED allVars PROVE [Q!Next]_(Q!vars)
  BY <1>6 DEF allVars, eventVars, Q!vars, Q!queueVars, Q!procVars, Q!closeVars, Q!readVars
<1> QED
  BY <1>2, <1>3, <1>4, <1>5, <1>6
     DEF AllNext, ClientWaits, ClientSteps, CallbackBegins, CallbackEnds

\* The Client behaves as Client says, whatever its queue does, and both are
\* linked as LinkInv says.
LEMMA AllInvariance == AllSpec => [](IInv /\ LinkInv)
<1>1. AllInit => IInv /\ LinkInv
  BY InitInv, InitLink DEF AllInit
<1>2. IInv /\ LinkInv /\ [AllNext]_allVars => IInv' /\ LinkInv'
  <2> SUFFICES ASSUME IInv, LinkInv, [AllNext]_allVars PROVE IInv' /\ LinkInv'
    OBVIOUS
  <2> QED
    BY ClientStep, NextInv, NextLink
<1> QED
  BY <1>1, <1>2, PTL DEF AllSpec

\* QueueSpec: Push and Close come to the queue of Focus only as EventQueue
\* allows them, so that its theorems hold for the queue of every object.
THEOREM KeepsQueueSpec == AllSpec => QueueSpec
<1>1. AllInit => Q!Init
  BY DEF AllInit
<1>2. IInv /\ LinkInv /\ [AllNext]_allVars => [Q!Next]_(Q!vars)
  BY QueueStep
<1> QED
  BY <1>1, <1>2, AllInvariance, PTL DEF AllSpec, QueueSpec, Q!Spec
-----------------------------------------------------------------------------
(* What Client.Close leaves of a queue *)

\* Q and QP!Spec are one specification.  (The two instances are of EventQueue
\* and of EventQueueProofs, which extends it.)
LEMMA SameInit == Q!Init => QP!Init
BY DEF Q!Init, QP!Init, Q!Procs, QP!Procs

\* The queue of the composition and the one of the theorems differ in no step.
LEMMA SameNext == [Q!Next]_(Q!vars) => [QP!Next]_(QP!vars)
BY DEF Q!Next, Q!vars, Q!queueVars, Q!procVars, Q!closeVars, Q!readVars, Q!Procs,
   Q!Push, Q!ClosePurge, Q!CloserStep, Q!CloseWait, Q!CloseOut,
   Q!ProcStep, Q!Take, Q!Finish, Q!Done, Q!SelectClose, Q!SelectSend, Q!SelectPark,
   Q!Receive, Q!ReceiveSent, Q!ReceiveWait, Q!ReceiveEOF, Q!Cancel,
   QP!Next, QP!vars, QP!queueVars, QP!procVars, QP!closeVars, QP!readVars, QP!Procs,
   QP!Push, QP!ClosePurge, QP!CloserStep, QP!CloseWait, QP!CloseOut,
   QP!ProcStep, QP!Take, QP!Finish, QP!Done, QP!SelectClose, QP!SelectSend, QP!SelectPark,
   QP!Receive, QP!ReceiveSent, QP!ReceiveWait, QP!ReceiveEOF, QP!Cancel

\* What a behaviour of the composition is for the queue of Focus.
LEMMA FocusQueue == AllSpec => QP!Spec
BY KeepsQueueSpec, SameInit, SameNext, PTL DEF QueueSpec, Q!Spec, QP!Spec

\* The theorems of EventQueueProofs hold for the queue of every object of a
\* Client: no event is lost or doubled before Close, nothing is sent on the
\* closed channel, and a reader sees a stream that Close ends.
THEOREM QueueGuarantees ==
    AllSpec => /\ []QP!Conservation
               /\ []QP!BufferNeverOvertaken
               /\ []QP!NoSendOnClosedChannel
               /\ []QP!NoLostWakeup
               /\ QP!StreamRefinement
<1>1. QP!MaxPushAssumption
  BY FocusAssumption DEF QP!MaxPushAssumption
<1>2. QP!Spec => []QP!Conservation
  BY <1>1, QP!EventsConserved
<1>3. QP!Spec => []QP!BufferNeverOvertaken
  BY <1>1, QP!BufferOrder
<1>4. QP!Spec => []QP!NoSendOnClosedChannel
  BY <1>1, QP!CloseIsSafe
<1>5. QP!Spec => []QP!NoLostWakeup
  BY <1>1, QP!WakeupNotLost
<1>6. QP!Spec => QP!StreamRefinement
  BY <1>1, QP!ImplementsStream
<1> QED
  BY FocusQueue, <1>2, <1>3, <1>4, <1>5, <1>6

\* A queue whose Close has returned is quiet, so nothing is left of it.
LEMMA LeftBehind ==
    ASSUME IInv, LinkInv, QP!AfterClose, ChildrenClosedWithClient
    PROVE  NothingLeftBehind
<1>1. ASSUME clnt.state = "done", result[Focus] = "ok" PROVE closer = "closed"
  BY <1>1, FocusAssumption DEF ChildrenClosedWithClient, LinkInv
<1> QED
  BY <1>1 DEF NothingLeftBehind, QP!AfterClose, QP!Live, QP!Procs, Q!Live, Q!Procs

\* The queue is quiet once it is closed.
LEMMA QueueQuiet == AllSpec => []QP!AfterClose
<1>1. QP!MaxPushAssumption
  BY FocusAssumption DEF QP!MaxPushAssumption
<1> QED
  BY <1>1, FocusQueue, QP!ClosedIsQuiet

\* When Client.Close has returned, the goroutines of the queue of a child are
\* gone with it, and so are the events that nobody read and the readers that
\* waited (client.go:32-35).
THEOREM NothingStaysBehind == ASSUME ~ConcurrentClose PROVE AllSpec => []NothingLeftBehind
<1>1. AllSpec => Spec
  BY ClientStep, PTL DEF AllSpec, AllInit, Spec
<1>2. Spec => []ChildrenClosedWithClient
  BY CloseTakesChildren
<1> QED
  BY <1>1, <1>2, LeftBehind, AllInvariance, QueueQuiet, PTL

\* And so they are when children were closed meanwhile, once those calls of
\* Close have returned: Close of a child waits for its goroutines.
THEOREM NothingStaysBehindSettled == AllSpec => [](Idle => NothingLeftBehind)
<1>1. IInv /\ LinkInv /\ QP!AfterClose => (Idle => NothingLeftBehind)
  BY InvSettled, LeftBehind DEF SettledClean
<1> QED
  BY <1>1, AllInvariance, QueueQuiet, PTL
=============================================================================
