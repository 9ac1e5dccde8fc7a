---------------------------- MODULE ClientProofs ----------------------------
(***************************************************************************)
(* Theorems about Client, for every set of goroutines and of objects.  The *)
(* invariant is that of both values of ConcurrentClose, so that most hold  *)
(* even when children are closed while Client.Close runs; some need that   *)
(* the application keeps those calls out of it.                            *)
(***************************************************************************)
EXTENDS Client, TLAPS

Working == NewState \ {"clientnew"}

\* The initial state.
LEMMA InitInv == Init => IInv
<1> SUFFICES ASSUME Init PROVE IInv
  OBVIOUS
<1> USE ClientAssumption DEF Init
<1>1. TypeOK
  BY DEF TypeOK, ClientType
<1>2. ArgInv
  BY DEF ArgInv, CloseState, NewState
<1>3. StepInv
  BY DEF StepInv, CloseState, NewState
<1>4. ObjectInv
  BY DEF ObjectInv
<1>5. PhaseInv
  BY DEF PhaseInv, BeforeInv, OpenInv, CloseInv, DoneInv, ClientOpen
<1>6. CallbackInv
  BY DEF CallbackInv
<1> QED
  BY <1>1, <1>2, <1>3, <1>4, <1>5, <1>6 DEF IInv

\* The phase of the Client in which a user can be at a step.
LEMMA Phases ==
    ASSUME IInv, NEW u \in Users
    PROVE  /\ pc[u] = "clientnew" => clnt.state = "none" /\ poll = "new"
           /\ pc[u] \in Working \cup {"usebegin", "use"} => ClientOpen
           /\ pc[u] \in CloseState =>
                \/ ClientOpen
                \/ clnt.state = "ready" /\ clnt.closed /\ (closing = u \/ ConcurrentClose)
                \/ clnt.state = "done" /\ ConcurrentClose
           /\ pc[u] \in ClientCloseState =>
                clnt.state = "ready" /\ clnt.closed /\ closing = u
<1>1. clnt.state \in {"none", "ready", "failed", "done"} /\ clnt.closed \in BOOLEAN
  BY DEF IInv, TypeOK, ClientType
<1>2. CASE clnt.state \in {"none", "failed"}
  BY <1>2 DEF IInv, PhaseInv, BeforeInv, Working, NewState, CloseState, ClientCloseState
<1>3. CASE ClientOpen
  BY <1>3 DEF IInv, PhaseInv, OpenInv, ClientOpen, Working, NewState, CloseState, ClientCloseState
<1>4. CASE clnt.state = "ready" /\ clnt.closed
  BY <1>4 DEF IInv, PhaseInv, CloseInv, Aside, Working, NewState, CloseState, ClientCloseState
<1>5. CASE clnt.state = "done"
  BY <1>5 DEF IInv, PhaseInv, DoneInv, Aside, Working, NewState, CloseState, ClientCloseState
<1> QED
  BY <1>1, <1>2, <1>3, <1>4, <1>5 DEF ClientOpen

\* The types, and the lock with the holder that is between begin and end.
LEMMA NextType == ASSUME IInv, [Next]_vars PROVE TypeOK'
<1> USE ClientAssumption DEF TypeOK, IInv, ArgInv, ClientType, NewState, CloseState,
        ClientCloseState, Working
<1>1. ASSUME NEW u \in Users, NewClientAlloc(u) PROVE TypeOK'
  <2>1. clnt' \in ClientType
    BY <1>1 DEF NewClientAlloc
  <2> QED
    BY <1>1, <2>1, Phases DEF NewClientAlloc, Goto, threadVars, objVars
<1>2. ASSUME NEW u \in Users,
             NewClientNoMemory(u) \/ NewClientCallback(u)
      PROVE  TypeOK'
  BY <1>2, Phases DEF NewClientNoMemory, NoClient, threadVars, objVars, userVars,
     NewClientCallback, clientVars
<1>3. ASSUME NEW u \in Users, NewClientFail(u) PROVE TypeOK'
  <2>1. clnt' \in ClientType
    BY <1>3 DEF NewClientFail
  <2> QED
    BY <1>3, <2>1, Phases DEF NewClientFail, Goto, threadVars, objVars
<1>4. ASSUME NEW u \in Users, NewClientOk(u) PROVE TypeOK'
  <2>1. clnt' \in ClientType
    BY <1>4 DEF NewClientOk
  <2> QED
    BY <1>4, <2>1, Phases DEF NewClientOk, Goto, objVars
<1>5. ASSUME NEW u \in Users, NEW o \in Objects, NewAlloc(u, o) PROVE TypeOK'
  BY <1>5, Phases DEF NewAlloc, Start, ClientOpen, clientVars, threadVars
<1>6. ASSUME NEW u \in Users,
             NewLocal(u) \/ NewEarlyReturn(u)
      PROVE  TypeOK'
  BY <1>6, Phases DEF NewLocal, Start, clientVars, threadVars, NewEarlyReturn
<1>7. ASSUME NEW u \in Users,
             NewBegin(u) \/ CloseBegin(u) \/ UseBegin(u)
      PROVE  TypeOK'
  BY <1>7, Phases DEF NewBegin, Goto, clientVars, threadVars, objVars, CloseBegin,
     UseBegin
<1>8. ASSUME NEW u \in Users,
             NewOk(u) \/ NewFail(u)
      PROVE  TypeOK'
  BY <1>8, Phases DEF NewOk, Start, clientVars, threadVars, NewFail
<1>9. ASSUME NEW u \in Users, NEW o \in Objects, CloseSwap(u, o) PROVE TypeOK'
  BY <1>9, Phases DEF CloseSwap, Start, MayClose, ClientOpen, clientVars, threadVars
<1>10. ASSUME NEW u \in Users, CloseFree(u) PROVE TypeOK'
  BY <1>10, Phases DEF CloseFree, Goto, clientVars, threadVars
<1>11. ASSUME NEW u \in Users,
             CloseQueue(u) \/ CloseHandle(u)
      PROVE  TypeOK'
  BY <1>11, Phases DEF CloseQueue, Goto, clientVars, threadVars, CloseHandle, Return,
     Start
<1>12. ASSUME NEW u \in Users,
             Use(u) \/ UseEnd(u)
      PROVE  TypeOK'
  BY <1>12, Phases DEF Use, Goto, ClientOpen, clientVars, threadVars, objVars, UseEnd
<1>13. ASSUME NEW u \in Users, ClientSwap(u) PROVE TypeOK'
  <2>1. clnt' \in ClientType
    BY <1>13 DEF ClientSwap
  <2> QED
    BY <1>13, <2>1, Phases DEF ClientSwap, Goto, threadVars, objVars
<1>14. ASSUME NEW u \in Users, ClientStop(u) PROVE TypeOK'
  BY <1>14, Phases DEF ClientStop, Goto, objVars
<1>15. ASSUME NEW u \in Users, NEW o \in Objects, ClientRange(u, o) PROVE TypeOK'
  <2>1. CASE closed[o]
    BY <1>15, <2>1 DEF ClientRange, threadVars, userVars
  <2>2. CASE ~closed[o]
    <3>0. closed' = [closed EXCEPT ![o] = TRUE] /\ arg' = [arg EXCEPT ![u] = o]
      BY <1>15, <2>2 DEF ClientRange, Start
    <3>1. closed' \in [Objects -> BOOLEAN] /\ arg' \in [Users -> Objects \cup {None}]
      BY <3>0
    <3>2. pc' = [pc EXCEPT ![u] = "begin"] /\ pc[u] = "range" /\ lock' = lock
      BY <1>15, <2>2 DEF ClientRange, Start
    <3> QED
      BY <1>15, <3>1, <3>2 DEF ClientRange, threadVars
  <2> QED
    BY <2>1, <2>2
<1>16. ASSUME NEW u \in Users, ClientFree(u) PROVE TypeOK'
  BY <1>16, Phases DEF ClientFree, Goto, threadVars, PhaseInv, CloseInv
<1>17. ASSUME NEW u \in Users,
             ClientPollFree(u) \/ ClientQueue(u)
      PROVE  TypeOK'
  BY <1>17, Phases DEF ClientPollFree, Goto, threadVars, objVars, ClientQueue
<1>18. ASSUME NEW u \in Users, ClientHandle(u) PROVE TypeOK'
  <2>1. clnt' \in ClientType
    BY <1>18 DEF ClientHandle
  <2> QED
    BY <1>18, <2>1, Phases DEF ClientHandle, Goto, threadVars, objVars
<1>19. ASSUME ClientCallback PROVE TypeOK'
  BY <1>19 DEF ClientCallback, clientVars, objVars, userVars
<1>20. ASSUME NEW o \in Objects, ChildCallback(o) PROVE TypeOK'
  BY <1>20 DEF ChildCallback, clientVars, objVars, userVars
<1>21. ASSUME CallbackReturn PROVE TypeOK'
  <2>1. CASE thread \in {"client", "child"}
    BY <1>21, <2>1 DEF CallbackReturn, clientVars, objVars, userVars
  <2>2. CASE thread = "first"
    <3>1. clnt.state \in {"none", "failed"}
      BY <2>2 DEF PhaseInv, OpenInv, CloseInv, DoneInv, ClientOpen
    <3>2. \A u \in Users : pc[u] \in {"idle", "clientnew"}
      BY <3>1 DEF PhaseInv, BeforeInv
    <3> QED
      BY <1>21, <2>2, <3>2 DEF CallbackReturn, clientVars, objVars, userVars
  <2> QED
    BY <1>21, <2>1, <2>2 DEF CallbackReturn
<1>22. ASSUME UNCHANGED vars PROVE TypeOK'
  BY <1>22 DEF vars, clientVars, threadVars, objVars, userVars
<1> HIDE DEF TypeOK, IInv, ArgInv, ClientType, NewState, CloseState, ClientCloseState,
        Working
<1> QED
  BY <1>1, <1>2, <1>3, <1>4, <1>5, <1>6, <1>7, <1>8, <1>9, <1>10, <1>11, <1>12, <1>13,
     <1>14, <1>15, <1>16, <1>17, <1>18, <1>19, <1>20, <1>21, <1>22
     DEF Next, Call, WaitingStep, Step, Callback, DoubleClose, ClientDoubleClose

\* A user works on the object it has created or swapped closed of, and on it
\* alone.
LEMMA NextArg == ASSUME IInv, [Next]_vars PROVE ArgInv'
<1> USE ClientAssumption DEF ArgInv, IInv, TypeOK, NewState, CloseState,
        ClientCloseState, ObjectInv
<1>1. ASSUME NEW u \in Users,
             NewClientAlloc(u) \/ NewClientFail(u) \/ NewClientOk(u)
      PROVE  ArgInv'
  BY <1>1, Phases DEF NewClientAlloc, Goto, NoClient, threadVars, objVars,
     NewClientFail, NewClientOk
<1>2. ASSUME NEW u \in Users,
             NewClientNoMemory(u) \/ NewClientCallback(u)
      PROVE  ArgInv'
  BY <1>2, Phases DEF NewClientNoMemory, NoClient, threadVars, objVars, userVars,
     NewClientCallback, clientVars
<1>3. ASSUME NEW u \in Users, NEW o \in Objects, NewAlloc(u, o) PROVE ArgInv'
  <2>1. \A v \in Users : arg[v] # o
    BY <1>3 DEF NewAlloc, StepInv
  <2>2. o # None
    OBVIOUS
  <2> QED
    BY <1>3, <2>1, <2>2 DEF NewAlloc, Start
<1>4. ASSUME NEW u \in Users,
             NewLocal(u) \/ NewEarlyReturn(u) \/ NewOk(u) \/ NewFail(u)
      PROVE  ArgInv'
  BY <1>4, Phases DEF NewLocal, Start, clientVars, threadVars, NewEarlyReturn, NewOk,
     NewFail
<1>5. ASSUME NEW u \in Users,
             NewBegin(u) \/ CloseBegin(u) \/ UseBegin(u)
      PROVE  ArgInv'
  BY <1>5, Phases DEF NewBegin, Goto, clientVars, threadVars, objVars, CloseBegin,
     UseBegin
<1>6. ASSUME NEW u \in Users, NEW o \in Objects, CloseSwap(u, o) PROVE ArgInv'
  <2>1. \A v \in Users : arg[v] # o
    BY <1>6 DEF CloseSwap, MayClose, StepInv
  <2>2. o # None
    OBVIOUS
  <2> QED
    BY <1>6, <2>1, <2>2 DEF CloseSwap, Start
<1>7. ASSUME NEW u \in Users,
             CloseFree(u) \/ CloseQueue(u) \/ CloseHandle(u)
      PROVE  ArgInv'
  BY <1>7, Phases DEF CloseFree, Goto, clientVars, threadVars, CloseQueue, CloseHandle,
     Return, Start
<1>8. ASSUME NEW u \in Users,
             Use(u) \/ UseEnd(u)
      PROVE  ArgInv'
  BY <1>8, Phases DEF Use, Goto, ClientOpen, clientVars, threadVars, objVars, UseEnd
<1>9. ASSUME NEW u \in Users,
             ClientSwap(u) \/ ClientStop(u) \/ ClientFree(u)
      PROVE  ArgInv'
  BY <1>9, Phases DEF ClientSwap, Goto, ClientOpen, threadVars, objVars, ClientStop,
     ClientFree
<1>10. ASSUME NEW u \in Users, NEW o \in Objects, ClientRange(u, o) PROVE ArgInv'
  <2>1. CASE closed[o]
    BY <1>10, <2>1 DEF ClientRange, threadVars, userVars
  <2>2. CASE ~closed[o]
    <3>1. \A v \in Users : arg[v] # o
      BY <1>10, <2>2 DEF ClientRange, StepInv
    <3>2. o # None
      OBVIOUS
    <3>3. /\ pc' = [pc EXCEPT ![u] = "begin"] /\ pc[u] = "range"
          /\ arg' = [arg EXCEPT ![u] = o]
      BY <1>10, <2>2 DEF ClientRange, Start
    <3> QED
      BY <3>1, <3>2, <3>3
  <2> QED
    BY <2>1, <2>2
<1>11. ASSUME NEW u \in Users,
             ClientPollFree(u) \/ ClientQueue(u) \/ ClientHandle(u)
      PROVE  ArgInv'
  BY <1>11, Phases DEF ClientPollFree, Goto, threadVars, objVars, ClientQueue,
     ClientHandle
<1>12. ASSUME ClientCallback \/ (\E o \in Objects : ChildCallback(o)) \/
               CallbackReturn \/ UNCHANGED vars
      PROVE  ArgInv'
  BY <1>12 DEF ClientCallback, clientVars, objVars, userVars, ChildCallback,
     CallbackReturn, vars, threadVars
<1> HIDE DEF ArgInv, IInv, TypeOK, NewState, CloseState, ClientCloseState, ObjectInv
<1> QED
  BY <1>1, <1>2, <1>3, <1>4, <1>5, <1>6, <1>7, <1>8, <1>9, <1>10, <1>11, <1>12
     DEF Next, Call, WaitingStep, Step, Callback, DoubleClose, ClientDoubleClose

\* After avahi_client_free, the pointer to what it freed stays as it is.
LEMMA AvahiKept ==
    ASSUME TypeOK, NEW u \in Users, ClientPollFree(u) \/ ClientQueue(u) \/ ClientHandle(u)
    PROVE  clnt'.avahi = clnt.avahi
<1>1. clnt \in ClientType
  BY DEF TypeOK
<1>2. ASSUME NEW x PROVE [clnt EXCEPT !.queue = x].avahi = clnt.avahi
  BY <1>1 DEF ClientType
<1>3. ASSUME NEW x, NEW y PROVE [clnt EXCEPT !.handle = x, !.state = y].avahi = clnt.avahi
  BY <1>1 DEF ClientType
<1>4. CASE ClientPollFree(u)
  BY <1>4 DEF ClientPollFree
<1>5. CASE ClientQueue(u)
  BY <1>2, <1>5 DEF ClientQueue
<1>6. CASE ClientHandle(u)
  BY <1>3, <1>6 DEF ClientHandle
<1> QED
  BY <1>4, <1>5, <1>6

\* The step of one user leaves what the others work on as it is.
LEMMA NextStep == ASSUME IInv, [Next]_vars PROVE StepInv'
<1> USE ClientAssumption DEF StepInv, ArgInv, ObjectInv, IInv, TypeOK, ClientType,
        NewState,
        CloseState, ClientCloseState, Intact, Overtaken, Aside, Released
<1>1. ASSUME NEW u \in Users,
             NewClientAlloc(u) \/ NewClientFail(u) \/ NewClientOk(u)
      PROVE  StepInv'
  <2>1. clnt.state \in {"none", "failed"}
    BY <1>1, Phases DEF NewClientAlloc, NoClient, NewClientFail, NewClientOk
  <2>2. \A v \in Users : pc[v] \in {"idle", "clientnew"}
    BY <2>1 DEF PhaseInv, BeforeInv
  <2>3. \A v \in Users : pc'[v] \in {"idle", "clientnew"}
    BY <1>1, <2>2 DEF NewClientAlloc, NewClientFail, NewClientOk, Goto
  <2> QED
    BY <2>3
<1>2. ASSUME NEW u \in Users,
             NewClientNoMemory(u) \/ NewClientCallback(u)
      PROVE  StepInv'
  BY <1>2, Phases DEF NewClientNoMemory, NoClient, threadVars, objVars, userVars,
     NewClientCallback, clientVars
<1>3. ASSUME NEW u \in Users, NEW o \in Objects, NewAlloc(u, o) PROVE StepInv'
  BY <1>3, Phases DEF NewAlloc, Start, ClientOpen, clientVars, threadVars
<1>4. ASSUME NEW u \in Users, NewLocal(u) PROVE StepInv'
  BY <1>4, Phases DEF NewLocal, Start, clientVars, threadVars
<1>5. ASSUME NEW u \in Users, NewEarlyReturn(u) PROVE StepInv'
  BY <1>5, Phases DEF NewEarlyReturn, Start, clientVars, threadVars
<1>6. ASSUME NEW u \in Users,
             NewBegin(u) \/ CloseBegin(u) \/ UseBegin(u)
      PROVE  StepInv'
  BY <1>6, Phases DEF NewBegin, Goto, clientVars, threadVars, objVars, CloseBegin,
     UseBegin
<1>7. ASSUME NEW u \in Users, NewOk(u) PROVE StepInv'
  BY <1>7, Phases DEF NewOk, Start, clientVars, threadVars
<1>8. ASSUME NEW u \in Users, NewFail(u) PROVE StepInv'
  BY <1>8, Phases DEF NewFail, Start, clientVars, threadVars
<1>9. ASSUME NEW u \in Users, NEW o \in Objects, CloseSwap(u, o) PROVE StepInv'
  BY <1>9, Phases DEF CloseSwap, Start, MayClose, ClientOpen, clientVars, threadVars
<1>10. ASSUME NEW u \in Users, CloseFree(u) PROVE StepInv'
  BY <1>10, Phases DEF CloseFree, Goto, clientVars, threadVars
<1>11. ASSUME NEW u \in Users, CloseQueue(u) PROVE StepInv'
  BY <1>11, Phases DEF CloseQueue, Goto, clientVars, threadVars
<1>12. ASSUME NEW u \in Users, CloseHandle(u) PROVE StepInv'
  BY <1>12, Phases DEF CloseHandle, Return, Start, clientVars, threadVars
<1>13. ASSUME NEW u \in Users,
             Use(u) \/ UseEnd(u)
      PROVE  StepInv'
  BY <1>13, Phases DEF Use, Goto, ClientOpen, clientVars, threadVars, objVars, UseEnd
<1>14. ASSUME NEW u \in Users,
             ClientSwap(u) \/ ClientStop(u)
      PROVE  StepInv'
  BY <1>14, Phases DEF ClientSwap, Goto, ClientOpen, threadVars, objVars, ClientStop
<1>15. ASSUME NEW u \in Users, NEW o \in Objects, ClientRange(u, o) PROVE StepInv'
  BY <1>15, Phases DEF ClientRange, Start, threadVars, userVars
<1>16. ASSUME NEW u \in Users, ClientFree(u) PROVE StepInv'
  BY <1>16, Phases DEF ClientFree, Goto, threadVars, PhaseInv, CloseInv
<1>17. ASSUME NEW u \in Users,
             ClientPollFree(u) \/ ClientQueue(u) \/ ClientHandle(u)
      PROVE  StepInv'
  <2>1. clnt'.avahi = clnt.avahi
    BY <1>17, AvahiKept
  <2>2. UNCHANGED <<children, objVars, arg>>
    BY <1>17 DEF ClientPollFree, ClientQueue, ClientHandle, Goto
  <2>3. \A v \in Users : pc'[v] = pc[v] \/ pc'[v] \in {"cqueue", "chandle", "idle"}
    BY <1>17 DEF ClientPollFree, ClientQueue, ClientHandle, Goto
  <2> QED
    BY <2>1, <2>2, <2>3 DEF objVars
<1>18. ASSUME ClientCallback \/ (\E o \in Objects : ChildCallback(o)) \/
               CallbackReturn \/ UNCHANGED vars
      PROVE  StepInv'
  BY <1>18 DEF ClientCallback, clientVars, objVars, userVars, ChildCallback,
     CallbackReturn, vars, threadVars
<1> HIDE DEF StepInv, ArgInv, ObjectInv, IInv, TypeOK, ClientType, NewState, CloseState,
        ClientCloseState, Intact, Overtaken, Aside, Released
<1> QED
  BY <1>1, <1>2, <1>3, <1>4, <1>5, <1>6, <1>7, <1>8, <1>9, <1>10, <1>11, <1>12, <1>13,
     <1>14, <1>15, <1>16, <1>17, <1>18
     DEF Next, Call, WaitingStep, Step, Callback, DoubleClose, ClientDoubleClose

\* An object that a user is done with is all there, or all gone.
LEMMA NextObject == ASSUME IInv, [Next]_vars PROVE ObjectInv'
<1> USE ClientAssumption DEF StepInv, ArgInv, ObjectInv, IInv, TypeOK, NewState,
        CloseState, Intact, Overtaken, Aside, Released
<1>1. ASSUME NEW u \in Users,
             NewClientAlloc(u) \/ NewClientFail(u) \/ NewClientOk(u)
      PROVE  ObjectInv'
  BY <1>1, Phases DEF NewClientAlloc, Goto, NoClient, threadVars, objVars,
     NewClientFail, NewClientOk
<1>2. ASSUME NEW u \in Users,
             NewClientNoMemory(u) \/ NewClientCallback(u)
      PROVE  ObjectInv'
  BY <1>2, Phases DEF NewClientNoMemory, NoClient, threadVars, objVars, userVars,
     NewClientCallback, clientVars
<1>3. ASSUME NEW u \in Users, NEW o \in Objects, NewAlloc(u, o) PROVE ObjectInv'
  BY <1>3, Phases DEF NewAlloc, Start, ClientOpen, clientVars, threadVars
<1>4. ASSUME NEW u \in Users, NewLocal(u) PROVE ObjectInv'
  BY <1>4, Phases DEF NewLocal, Start, clientVars, threadVars
<1>5. ASSUME NEW u \in Users, NewEarlyReturn(u) PROVE ObjectInv'
  BY <1>5, Phases DEF NewEarlyReturn, Start, clientVars, threadVars
<1>6. ASSUME NEW u \in Users,
             NewBegin(u) \/ CloseBegin(u) \/ UseBegin(u)
      PROVE  ObjectInv'
  BY <1>6, Phases DEF NewBegin, Goto, clientVars, threadVars, objVars, CloseBegin,
     UseBegin
<1>7. ASSUME NEW u \in Users, NewOk(u) PROVE ObjectInv'
  BY <1>7, Phases DEF NewOk, Start, clientVars, threadVars
<1>8. ASSUME NEW u \in Users, NewFail(u) PROVE ObjectInv'
  BY <1>8, Phases DEF NewFail, Start, clientVars, threadVars
<1>9. ASSUME NEW u \in Users, NEW o \in Objects, CloseSwap(u, o) PROVE ObjectInv'
  BY <1>9, Phases DEF CloseSwap, Start, MayClose, ClientOpen, clientVars, threadVars
<1>10. ASSUME NEW u \in Users, CloseFree(u) PROVE ObjectInv'
  BY <1>10, Phases DEF CloseFree, Goto, clientVars, threadVars
<1>11. ASSUME NEW u \in Users, CloseQueue(u) PROVE ObjectInv'
  BY <1>11, Phases DEF CloseQueue, Goto, clientVars, threadVars
<1>12. ASSUME NEW u \in Users, CloseHandle(u) PROVE ObjectInv'
  BY <1>12, Phases DEF CloseHandle, Return, Start, clientVars, threadVars
<1>13. ASSUME NEW u \in Users,
             Use(u) \/ UseEnd(u)
      PROVE  ObjectInv'
  BY <1>13, Phases DEF Use, Goto, ClientOpen, clientVars, threadVars, objVars, UseEnd
<1>14. ASSUME NEW u \in Users,
             ClientSwap(u) \/ ClientStop(u)
      PROVE  ObjectInv'
  BY <1>14, Phases DEF ClientSwap, Goto, ClientOpen, threadVars, objVars, ClientStop
<1>15. ASSUME NEW u \in Users, NEW o \in Objects, ClientRange(u, o) PROVE ObjectInv'
  BY <1>15, Phases DEF ClientRange, Start, threadVars, userVars
<1>16. ASSUME NEW u \in Users, ClientFree(u) PROVE ObjectInv'
  <2>1. \A o \in Objects : result[o] = "ok" => closed[o]
    BY <1>16 DEF ClientFree, CallbackInv
  <2>2. /\ cobj' = [o \in Objects |-> IF cobj[o] = "live" THEN "freed" ELSE cobj[o]]
        /\ UNCHANGED <<children, queue, handle, closed, result, arg>>
    BY <1>16 DEF ClientFree, Goto
  <2> QED
    BY <2>1, <2>2
<1>17. ASSUME NEW u \in Users,
             ClientPollFree(u) \/ ClientQueue(u) \/ ClientHandle(u)
      PROVE  ObjectInv'
  BY <1>17, Phases DEF ClientPollFree, Goto, threadVars, objVars, ClientQueue,
     ClientHandle
<1>18. ASSUME ClientCallback \/ (\E o \in Objects : ChildCallback(o)) \/
               CallbackReturn \/ UNCHANGED vars
      PROVE  ObjectInv'
  BY <1>18 DEF ClientCallback, clientVars, objVars, userVars, ChildCallback,
     CallbackReturn, vars, threadVars
<1> HIDE DEF StepInv, ArgInv, ObjectInv, IInv, TypeOK, NewState, CloseState, Intact,
        Released
<1> QED
  BY <1>1, <1>2, <1>3, <1>4, <1>5, <1>6, <1>7, <1>8, <1>9, <1>10, <1>11, <1>12, <1>13,
     <1>14, <1>15, <1>16, <1>17, <1>18
     DEF Next, Call, WaitingStep, Step, Callback, DoubleClose, ClientDoubleClose

\* The phases follow each other; avahi_client_free comes when every child is
\* closed.
LEMMA NextPhase == ASSUME IInv, [Next]_vars PROVE PhaseInv'
<1> USE ClientAssumption DEF PhaseInv, BeforeInv, OpenInv, CloseInv, DoneInv, IInv,
        TypeOK, ClientType, NewState, CloseState, ClientCloseState, ClientOpen, Working, Aside
<1>1. ASSUME NEW u \in Users, NewClientAlloc(u) PROVE PhaseInv'
  BY <1>1, Phases DEF NewClientAlloc, Goto, NoClient, threadVars, objVars
<1>2. ASSUME NEW u \in Users, NewClientNoMemory(u) PROVE PhaseInv'
  BY <1>2, Phases DEF NewClientNoMemory, NoClient, threadVars, objVars, userVars
<1>3. ASSUME NEW u \in Users, NewClientCallback(u) PROVE PhaseInv'
  BY <1>3, Phases DEF NewClientCallback, clientVars, objVars, userVars
<1>4. ASSUME NEW u \in Users, NewClientFail(u) PROVE PhaseInv'
  BY <1>4, Phases DEF NewClientFail, Goto, threadVars, objVars
<1>5. ASSUME NEW u \in Users, NewClientOk(u) PROVE PhaseInv'
  BY <1>5, Phases DEF NewClientOk, Goto, objVars
<1>6. ASSUME NEW u \in Users, NEW o \in Objects, NewAlloc(u, o) PROVE PhaseInv'
  BY <1>6, Phases DEF NewAlloc, Start, ClientOpen, clientVars, threadVars
<1>7. ASSUME NEW u \in Users, NewLocal(u) PROVE PhaseInv'
  BY <1>7, Phases DEF NewLocal, Start, clientVars, threadVars
<1>8. ASSUME NEW u \in Users, NewEarlyReturn(u) PROVE PhaseInv'
  BY <1>8, Phases DEF NewEarlyReturn, Start, clientVars, threadVars
<1>9. ASSUME NEW u \in Users, NewBegin(u) PROVE PhaseInv'
  BY <1>9, Phases DEF NewBegin, Goto, clientVars, threadVars, objVars
<1>10. ASSUME NEW u \in Users, NewOk(u) PROVE PhaseInv'
  BY <1>10, Phases DEF NewOk, Start, clientVars, threadVars
<1>11. ASSUME NEW u \in Users, NewFail(u) PROVE PhaseInv'
  BY <1>11, Phases DEF NewFail, Start, clientVars, threadVars
<1>12. ASSUME NEW u \in Users, NEW o \in Objects, CloseSwap(u, o) PROVE PhaseInv'
  BY <1>12, Phases DEF CloseSwap, Start, MayClose, ClientOpen, clientVars, threadVars
<1>13. ASSUME NEW u \in Users, CloseBegin(u) PROVE PhaseInv'
  BY <1>13, Phases DEF CloseBegin, Goto, clientVars, threadVars, objVars
<1>14. ASSUME NEW u \in Users, CloseFree(u) PROVE PhaseInv'
  BY <1>14, Phases DEF CloseFree, Goto, clientVars, threadVars
<1>15. ASSUME NEW u \in Users, CloseQueue(u) PROVE PhaseInv'
  BY <1>15, Phases DEF CloseQueue, Goto, clientVars, threadVars
<1>16. ASSUME NEW u \in Users, CloseHandle(u) PROVE PhaseInv'
  BY <1>16, Phases DEF CloseHandle, Return, Start, clientVars, threadVars
<1>17. ASSUME NEW u \in Users, Use(u) PROVE PhaseInv'
  BY <1>17, Phases DEF Use, Goto, ClientOpen, clientVars, threadVars, objVars
<1>18. ASSUME NEW u \in Users, UseBegin(u) PROVE PhaseInv'
  BY <1>18, Phases DEF UseBegin, Goto, clientVars, threadVars, objVars
<1>19. ASSUME NEW u \in Users, UseEnd(u) PROVE PhaseInv'
  BY <1>19, Phases DEF UseEnd, Goto, clientVars, threadVars, objVars
<1>20. ASSUME NEW u \in Users, ClientSwap(u) PROVE PhaseInv'
  BY <1>20, Phases DEF ClientSwap, Goto, ClientOpen, threadVars, objVars
<1>21. ASSUME NEW u \in Users, ClientStop(u) PROVE PhaseInv'
  BY <1>21, Phases DEF ClientStop, Goto, objVars
<1>22. ASSUME NEW u \in Users, NEW o \in Objects, ClientRange(u, o) PROVE PhaseInv'
  BY <1>22, Phases DEF ClientRange, Start, threadVars, userVars
<1>23. ASSUME NEW u \in Users, ClientFree(u) PROVE PhaseInv'
  <2>1. clnt.state = "ready" /\ clnt.closed /\ closing = u
    BY <1>23, Phases DEF ClientFree
  <2>2. \A o \in Objects : result[o] = "ok" => closed[o]
    BY <1>23 DEF ClientFree, ObjectInv, Intact, CallbackInv
  <2> QED
    BY <1>23, <2>1, <2>2 DEF ClientFree, Goto, threadVars
<1>24. ASSUME NEW u \in Users, ClientPollFree(u) PROVE PhaseInv'
  BY <1>24, Phases DEF ClientPollFree, Goto, threadVars, objVars
<1>25. ASSUME NEW u \in Users, ClientQueue(u) PROVE PhaseInv'
  BY <1>25, Phases DEF ClientQueue, Goto, threadVars, objVars
<1>26. ASSUME NEW u \in Users, ClientHandle(u) PROVE PhaseInv'
  BY <1>26, Phases DEF ClientHandle, Goto, threadVars, objVars
<1>27. ASSUME ClientCallback PROVE PhaseInv'
  BY <1>27 DEF ClientCallback, clientVars, objVars, userVars
<1>28. ASSUME NEW o \in Objects, ChildCallback(o) PROVE PhaseInv'
  BY <1>28 DEF ChildCallback, clientVars, objVars, userVars
<1>29. ASSUME CallbackReturn PROVE PhaseInv'
  BY <1>29 DEF CallbackReturn, clientVars, objVars, userVars
<1>30. ASSUME UNCHANGED vars PROVE PhaseInv'
  BY <1>30 DEF vars, clientVars, threadVars, objVars, userVars
<1> HIDE DEF PhaseInv, BeforeInv, OpenInv, CloseInv, DoneInv, IInv, TypeOK, ClientType,
        NewState, CloseState, ClientCloseState, ClientOpen, Working
<1> QED
  BY <1>1, <1>2, <1>3, <1>4, <1>5, <1>6, <1>7, <1>8, <1>9, <1>10, <1>11, <1>12, <1>13,
     <1>14, <1>15, <1>16, <1>17, <1>18, <1>19, <1>20, <1>21, <1>22, <1>23, <1>24,
     <1>25, <1>26, <1>27, <1>28, <1>29, <1>30
     DEF Next, Call, WaitingStep, Step, Callback, DoubleClose, ClientDoubleClose

\* The event thread is stopped before the client frees anything.
LEMMA NextCallback == ASSUME IInv, [Next]_vars PROVE CallbackInv'
<1> USE ClientAssumption DEF CallbackInv, IInv, TypeOK, StepInv, ArgInv, ObjectInv
<1>1. ASSUME NEW u \in Users,
             NewClientAlloc(u) \/ NewClientNoMemory(u) \/ NewClientFail(u) \/
               (\E o \in Objects : NewAlloc(u, o)) \/ NewLocal(u) \/ NewEarlyReturn(u) \/
               NewBegin(u) \/ NewFail(u)
      PROVE  CallbackInv'
  BY <1>1, Phases DEF NewClientAlloc, Goto, NoClient, threadVars, objVars,
     NewClientNoMemory, userVars, NewClientFail, NewAlloc, Start, ClientOpen,
     clientVars, NewLocal, NewEarlyReturn, NewBegin, NewFail
<1>2. ASSUME NEW u \in Users,
             NewClientCallback(u) \/ NewClientOk(u) \/ ClientStop(u)
      PROVE  CallbackInv'
  BY <1>2, Phases DEF NewClientCallback, clientVars, objVars, userVars, NewClientOk,
     Goto, ClientStop
<1>3. ASSUME NEW u \in Users, NewOk(u) PROVE CallbackInv'
  BY <1>3, Phases DEF NewOk, Start, clientVars, threadVars
<1>4. ASSUME NEW u \in Users, NEW o \in Objects, CloseSwap(u, o) PROVE CallbackInv'
  BY <1>4, Phases DEF CloseSwap, Start, MayClose, ClientOpen, clientVars, threadVars
<1>5. ASSUME NEW u \in Users,
             CloseBegin(u) \/ CloseQueue(u) \/ CloseHandle(u) \/ Use(u) \/ UseBegin(u) \/
               UseEnd(u) \/ ClientSwap(u) \/ ClientPollFree(u) \/ ClientQueue(u) \/
               ClientHandle(u)
      PROVE  CallbackInv'
  BY <1>5, Phases DEF CloseBegin, Goto, clientVars, threadVars, objVars, CloseQueue,
     CloseHandle, Return, Start, Use, ClientOpen, UseBegin, UseEnd, ClientSwap,
     ClientPollFree, ClientQueue, ClientHandle
<1>6. ASSUME NEW u \in Users, CloseFree(u) PROVE CallbackInv'
  BY <1>6, Phases DEF CloseFree, Goto, clientVars, threadVars
<1>7. ASSUME NEW u \in Users, NEW o \in Objects, ClientRange(u, o) PROVE CallbackInv'
  BY <1>7, Phases DEF ClientRange, Start, threadVars, userVars
<1>8. ASSUME NEW u \in Users, ClientFree(u) PROVE CallbackInv'
  <2>1. clnt.state = "ready" /\ clnt.closed /\ closing = u
    BY <1>8, Phases DEF ClientFree, ClientCloseState
  <2>2. thread = "off"
    BY <1>8, <2>1 DEF ClientFree, PhaseInv, CloseInv
  <2> QED
    BY <1>8, <2>2 DEF ClientFree, threadVars
<1>9. ASSUME ClientCallback \/ (\E o \in Objects : ChildCallback(o)) \/ CallbackReturn \/
               UNCHANGED vars
      PROVE  CallbackInv'
  BY <1>9 DEF ClientCallback, clientVars, objVars, userVars, ChildCallback,
     CallbackReturn, vars, threadVars
<1> HIDE DEF CallbackInv, IInv, TypeOK, StepInv, ArgInv, ObjectInv
<1> QED
  BY <1>1, <1>2, <1>3, <1>4, <1>5, <1>6, <1>7, <1>8, <1>9
     DEF Next, Call, WaitingStep, Step, Callback, DoubleClose, ClientDoubleClose

\* All of it.
LEMMA NextInv == ASSUME IInv, [Next]_vars PROVE IInv'
BY NextType, NextArg, NextStep, NextObject, NextPhase, NextCallback DEF IInv
-----------------------------------------------------------------------------
(* The theorems.  Those with ConcurrentClose FALSE do not hold with it TRUE, *)
(* as the run ClientConcurrentClose shows for UsedWhileThere.                *)

\* IInv holds in every behaviour.
THEOREM Invariance == Spec => []IInv
<1>1. IInv /\ [Next]_vars => IInv'
  BY NextInv
<1> QED
  BY <1>1, InitInv, PTL DEF Spec

\* A callback finds its handle valid, its queue open and the client there:
\* Close frees the C object under the lock before it closes the queue, and
\* Client.Close joins the event thread first, so this holds even when children
\* are closed while Client.Close runs.
THEOREM CallbackFindsObject == Spec => []NoCallbackOnClosed
<1>1. IInv => NoCallbackOnClosed
  <2> SUFFICES ASSUME IInv PROVE NoCallbackOnClosed
    OBVIOUS
  <2> USE ClientAssumption DEF IInv
  <2>1. thread = "first" => clnt.state \in {"none", "failed"} /\ poll = "new"
    BY DEF TypeOK, ClientType, PhaseInv, BeforeInv, OpenInv, CloseInv, DoneInv, ClientOpen
  <2>2. thread \in {"client", "child"} =>
          clnt.handle = "valid" /\ clnt.queue = "open" /\ clnt.avahi = "live"
    BY DEF TypeOK, ClientType, PhaseInv, BeforeInv, OpenInv, CloseInv, DoneInv, ClientOpen
  <2>3. thread = "first" => clnt.handle = "valid" /\ clnt.queue = "open" /\ clnt.avahi = "none"
    BY <2>1 DEF PhaseInv, BeforeInv
  <2>4. ASSUME thread = "child" PROVE handle[target] = "valid" /\ queue[target] = "open"
    <3>1. target \in Objects /\ cobj[target] = "live" /\ result[target] = "ok"
      BY <2>4 DEF TypeOK, CallbackInv, ObjectInv
    <3>2. CASE \A u \in Users : arg[u] # target
      BY <3>1, <3>2 DEF ObjectInv, Released, Intact
    <3>3. CASE \E u \in Users : arg[u] = target
      BY <3>1, <3>3 DEF ArgInv, StepInv, Released, Intact, Overtaken, CloseState, NewState
    <3> QED
      BY <3>2, <3>3
  <2> QED
    BY <2>2, <2>3, <2>4 DEF NoCallbackOnClosed, AsksErrno
<1> QED
  BY <1>1, Invariance, PTL

\* The poll, the client and the C objects are there for everyone who is about
\* to hand them to Avahi, in every phase of Close and Client.Close.
THEOREM UsedWhileThere == ASSUME ~ConcurrentClose PROVE Spec => []NoUseAfterFree
<1>1. IInv => NoUseAfterFree
  <2> SUFFICES ASSUME IInv, NEW u \in Users PROVE
        /\ pc[u] \in {"newbegin", "begin", "usebegin", "create", "critical", "use"} =>
             poll \in {"running", "stopped"} /\ clnt.avahi = "live"
        /\ pc[u] = "critical" => Intact(arg[u])
        /\ thread \notin {"off", "first"} => poll = "running"
    BY DEF NoUseAfterFree, Intact
  <2> USE DEF IInv
  <2>1. pc[u] \in {"newbegin", "begin", "usebegin", "create", "critical", "use"} =>
          poll \in {"running", "stopped"} /\ clnt.avahi = "live"
    BY Phases DEF PhaseInv, OpenInv, CloseInv, Working, NewState, CloseState
  <2>2. pc[u] = "critical" => Intact(arg[u])
    BY DEF StepInv, Overtaken
  <2>3. thread \notin {"off", "first"} => poll = "running"
    BY DEF TypeOK, ClientType, PhaseInv, BeforeInv, OpenInv, CloseInv, DoneInv, ClientOpen
  <2> QED
    BY <2>1, <2>2, <2>3
<1> QED
  BY <1>1, Invariance, PTL

\* No queue is closed and no handle deleted twice, whoever calls Close.
THEOREM ReleasedOnce == Spec => []NoDoubleRelease
<1>1. IInv => NoDoubleRelease
  <2> SUFFICES ASSUME IInv, NEW u \in Users PROVE
        /\ pc[u] = "queue" => queue[arg[u]] = "open"
        /\ pc[u] = "handle" => handle[arg[u]] = "valid"
        /\ pc[u] = "cqueue" => clnt.queue = "open"
        /\ pc[u] = "chandle" => clnt.handle = "valid"
    BY DEF NoDoubleRelease
  <2>1. pc[u] = "queue" => queue[arg[u]] = "open"
    BY DEF IInv, StepInv, Released
  <2>2. pc[u] = "handle" => handle[arg[u]] = "valid"
    BY DEF IInv, StepInv, Released
  <2>3. pc[u] \in {"cqueue", "chandle"} =>
          clnt.state = "ready" /\ clnt.closed /\ closing = u
    BY Phases DEF ClientCloseState
  <2> QED
    BY <2>1, <2>2, <2>3 DEF IInv, PhaseInv, CloseInv
<1> QED
  BY <1>1, Invariance, PTL

\* No two goroutines are about to access the map of children, of which one
\* writes: the lock keeps the writers apart, and the loop of Client.Close is
\* alone.
THEOREM MapIsSafe == ASSUME ~ConcurrentClose PROVE Spec => []NoMapRace
<1>1. IInv => NoMapRace
  <2> SUFFICES ASSUME IInv, NEW u \in Users, NEW v \in Users, u # v PROVE
        /\ pc[u] \in {"create", "critical"} => pc[v] \notin {"create", "critical", "range"}
        /\ pc[u] = "localadd" => pc[v] # "range"
    BY DEF NoMapRace
  <2>1. pc[u] \in {"create", "critical"} => pc[v] \notin {"create", "critical"}
    BY DEF IInv, TypeOK
  <2>2. pc[v] = "range" => pc[u] = "idle"
    BY Phases DEF IInv, PhaseInv, CloseInv, Aside, ClientCloseState
  <2> QED
    BY <2>1, <2>2
<1> QED
  BY <1>1, Invariance, PTL

\* Nobody is inside a method.
Idle == \A u \in Users : pc[u] = "idle"

\* Whatever calls of Close ran beside Client.Close: once they have returned,
\* too, the map of children is empty, and nothing is left open, or in the
\* table of cgo, but by the early returns of some constructors.
SettledClean == Idle => ChildrenClosedWithClient /\ NothingElseLeaked

\* When Client.Close has returned, Close has been called on every child that a
\* constructor returned.
LEMMA DoneClosed ==
    ASSUME IInv, clnt.state = "done"
    PROVE  \A o \in Objects : result[o] = "ok" => closed[o]
BY DEF IInv, PhaseInv, DoneInv

\* When nobody is at work, what is closed is all gone.
LEMMA IdleReleased ==
    ASSUME IInv, Idle
    PROVE  \A o \in Objects : closed[o] => Released(o, "closed", "deleted")
<1>1. \A u \in Users : arg[u] = None
  BY DEF Idle, IInv, ArgInv, CloseState, NewState
<1> QED
  BY <1>1, ClientAssumption DEF IInv, ObjectInv

\* The invariant implies SettledClean.
LEMMA InvSettled == IInv => SettledClean
<1> SUFFICES ASSUME IInv, Idle PROVE ChildrenClosedWithClient /\ NothingElseLeaked
  BY DEF SettledClean
<1>1. ASSUME clnt.state = "done"
      PROVE  /\ children = {}
             /\ \A o \in Objects : result[o] = "ok" =>
                  closed[o] /\ Released(o, "closed", "deleted")
  <2>1. \A o \in Objects : result[o] = "ok" => closed[o] /\ Released(o, "closed", "deleted")
    BY <1>1, DoneClosed, IdleReleased
  <2>2. \A o \in Objects : o \in children => result[o] = "ok"
    BY DEF IInv, ObjectInv
  <2> QED
    BY <2>1, <2>2 DEF IInv, TypeOK, Released
<1>2. ASSUME clnt.state \in {"done", "failed"}
      PROVE  clnt.handle # "valid" /\ poll \in {"none", "freed"}
  BY <1>2 DEF IInv, PhaseInv, BeforeInv, DoneInv
<1>3. ASSUME clnt.state \in {"done", "failed"}, NEW o \in Objects, o \in Left
      PROVE  o \in EarlyReturns /\ result[o] = "error"
  <2>1. \A u \in Users : arg[u] # o
    BY ClientAssumption DEF Idle, IInv, ArgInv, CloseState, NewState
  <2>2. result[o] # "ok"
    BY <1>3, DoneClosed, IdleReleased DEF Left, Released, IInv, PhaseInv, BeforeInv
  <2> QED
    BY <1>3, <2>1, <2>2 DEF IInv, ObjectInv, Left, Released, TypeOK
<1>4. ChildrenClosedWithClient
  BY <1>1 DEF ChildrenClosedWithClient, Released
<1> QED
  BY <1>2, <1>3, <1>4 DEF NothingElseLeaked, Left

\* When Client.Close and all calls of Close have returned nothing is left,
\* however they overlapped: the swap of closed decides for each child which of
\* them releases it.
THEOREM SettlesClean == Spec => []SettledClean
BY InvSettled, Invariance, PTL

\* When Client.Close has returned, every child that a constructor returned is
\* closed, and the map is empty.
THEOREM CloseTakesChildren == ASSUME ~ConcurrentClose PROVE Spec => []ChildrenClosedWithClient
<1>1. IInv => ChildrenClosedWithClient
  <2> SUFFICES ASSUME IInv, clnt.state = "done" PROVE ChildrenClosedWithClient
    BY DEF ChildrenClosedWithClient
  <2>1. Idle
    BY DEF IInv, PhaseInv, DoneInv, Aside, Idle
  <2> QED
    BY <2>1, InvSettled DEF SettledClean
<1> QED
  BY <1>1, Invariance, PTL

\* Client.Close and a NewClient that fails leave nothing but what the early
\* returns of some constructors left.
THEOREM LeavesNothingElse == ASSUME ~ConcurrentClose PROVE Spec => []NothingElseLeaked
<1>1. IInv => NothingElseLeaked
  <2> SUFFICES ASSUME IInv, clnt.state \in {"done", "failed"} PROVE NothingElseLeaked
    BY DEF NothingElseLeaked
  <2>1. Idle
    BY DEF IInv, PhaseInv, BeforeInv, DoneInv, Aside, Idle
  <2> QED
    BY <2>1, InvSettled DEF SettledClean
<1> QED
  BY <1>1, Invariance, PTL
=============================================================================
