------------------------------- MODULE Client -------------------------------
(***************************************************************************)
(* client.go, closer.go and the constructors, Close methods and callbacks  *)
(* of the objects that a Client owns: browsers, resolvers, entry groups.   *)
(* They all have one shape (servicebrowser.go is the representative) and   *)
(* are one set Objects here; two of them can be created in a way of their  *)
(* own, which the constants say.                                           *)
(*                                                                         *)
(* The actors are the goroutines of the application (Users) and the event  *)
(* thread of the AvahiThreadedPoll, which calls the callbacks.  They share *)
(* the mutex of the poll (begin/end), the C objects, the map of children,  *)
(* and for each object its event queue and the cgo.Handle by which the     *)
(* callback finds it.  A queue is only open or closed here: EventQueue has *)
(* its inside, and this module shows what EventQueue assumes of its owner. *)
(*                                                                         *)
(* What an actor does between begin and end is one action, except where    *)
(* the code touches shared state without begin.                            *)
(***************************************************************************)
EXTENDS Naturals, FiniteSets

CONSTANTS
    Users,          \* goroutines of the application
    Objects,        \* the objects that are created; each is created once
    LocalResolvers, \* HostNameResolvers, which may answer without an Avahi object
    EarlyReturns,   \* objects whose constructor may fail before begin
    ConcurrentClose,\* TRUE: a child may be closed while Client.Close runs
    None            \* no user, no object

ASSUME ClientAssumption ==
    /\ LocalResolvers \subseteq Objects
    /\ EarlyReturns \subseteq Objects
    /\ ConcurrentClose \in BOOLEAN
    /\ None \notin Users \cup Objects
    /\ "thread" \notin Users \cup {None}

VARIABLES
    (* the Client *)
    poll,       \* the AvahiThreadedPoll: "none", "new", "running", "stopped", "freed"
    thread,     \* its event thread: "off", "idle", "client", "child"; "first" is
                \* a callback that runs before there is one, in avahi_client_new
    target,     \* the object whose callback runs, when thread = "child"
    lock,       \* who holds the mutex of the poll: a user, "thread", or None
    clnt,       \* what of the Client is there: see ClientType
    children,   \* Client.children
    visited,    \* what the loop of closers.close has been through
    closing,    \* the user whose Client.Close does the work, or None
    (* its children *)
    cobj,       \* cobj[o]: the C object, "none", "live" or "freed"
    queue,      \* queue[o]: "none", "open" or "closed"
    handle,     \* handle[o]: "none", "valid" or "deleted"
    closed,     \* closed[o]: the flag that Close swaps
    result,     \* result[o]: what the constructor returned, "none", "ok", "error"
    (* the goroutines *)
    pc,         \* pc[u]: where user u is
    arg         \* arg[u]: the object it works on, or None

clientVars == <<poll, clnt, visited, closing>>
threadVars == <<thread, target>>
objVars    == <<cobj, queue, handle, closed, result>>
userVars   == <<pc, arg>>
vars == <<clientVars, threadVars, lock, children, objVars, userVars>>

ClientType == [
    avahi  : {"none", "live", "freed"},     \* avahiClient
    queue  : {"none", "open", "closed"},
    handle : {"none", "valid", "deleted"},
    closed : BOOLEAN,
    state  : {"none", "ready", "failed", "done"}]   \* NewClient and Close returned

NewState   == {"clientnew", "newbegin", "create", "localadd"}
CloseState == {"begin", "critical", "queue", "handle"}
ClientCloseState == {"stop", "range", "pollfree", "cqueue", "chandle"}

TypeOK ==
    /\ poll \in {"none", "new", "running", "stopped", "freed"}
    /\ thread \in {"off", "idle", "client", "child", "first"}
    /\ target \in Objects \cup {None}
    /\ lock \in Users \cup {"thread", None}
    /\ clnt \in ClientType
    /\ children \subseteq Objects
    /\ visited \subseteq Objects
    /\ closing \in Users \cup {None}
    /\ cobj \in [Objects -> {"none", "live", "freed"}]
    /\ queue \in [Objects -> {"none", "open", "closed"}]
    /\ handle \in [Objects -> {"none", "valid", "deleted"}]
    /\ closed \in [Objects -> BOOLEAN]
    /\ result \in [Objects -> {"none", "ok", "error"}]
    /\ pc \in [Users -> {"idle", "usebegin", "use"} \cup NewState \cup CloseState
                           \cup ClientCloseState]
    /\ arg \in [Users -> Objects \cup {None}]
    (* the lock has the holder that is between begin and end *)
    /\ \A u \in Users : lock = u <=> pc[u] \in {"create", "critical", "use"}
    /\ lock = "thread" <=> thread \in {"client", "child"}
    /\ target # None <=> thread = "child"

Init ==
    /\ poll = "none"
    /\ thread = "off"
    /\ target = None
    /\ lock = None
    /\ clnt = [avahi |-> "none", queue |-> "none", handle |-> "none",
               closed |-> FALSE, state |-> "none"]
    /\ children = {}
    /\ visited = {}
    /\ closing = None
    /\ cobj = [o \in Objects |-> "none"]
    /\ queue = [o \in Objects |-> "none"]
    /\ handle = [o \in Objects |-> "none"]
    /\ closed = [o \in Objects |-> FALSE]
    /\ result = [o \in Objects |-> "none"]
    /\ pc = [u \in Users |-> "idle"]
    /\ arg = [u \in Users |-> None]

\* User u goes on to step s, with the object it has.
Goto(u, s) == pc' = [pc EXCEPT ![u] = s] /\ UNCHANGED arg

\* User u starts on object o with step s.
Start(u, s, o) == pc' = [pc EXCEPT ![u] = s] /\ arg' = [arg EXCEPT ![u] = o]

\* User u returns from a method of an object: to the application, or to the
\* loop of Client.Close that called it.
Return(u) == Start(u, IF u = closing THEN "range" ELSE "idle", None)

\* No child may be created, used or closed while Client.Close runs, unless
\* the constant says so: the application has to see to it.
ClientOpen == clnt.state = "ready" /\ ~clnt.closed
-----------------------------------------------------------------------------
(* NewClient.  When it fails the application may try again. *)

\* No client yet, and nobody at making one.
NoClient == clnt.state \in {"none", "failed"} /\ poll \in {"none", "freed"}

NewClientAlloc(u) ==
    /\ pc[u] = "idle"
    /\ NoClient
    /\ poll' = "new"
    /\ clnt' = [clnt EXCEPT !.queue = "open", !.handle = "valid", !.state = "none"]
    /\ Goto(u, "clientnew")
    /\ UNCHANGED <<visited, closing, threadVars, lock, children, objVars>>

\* avahi_threaded_poll_new returns NULL.
NewClientNoMemory(u) ==
    /\ pc[u] = "idle"
    /\ NoClient
    /\ clnt' = [clnt EXCEPT !.state = "failed"]
    /\ UNCHANGED <<poll, visited, closing, threadVars, lock, children, objVars,
                   userVars>>

\* avahi_client_new reports the first state by itself: clientCallback runs in
\* the goroutine of NewClient, before avahiClient is stored.
NewClientCallback(u) ==
    /\ pc[u] = "clientnew"
    /\ thread = "off"
    /\ thread' = "first"
    /\ UNCHANGED <<clientVars, target, lock, children, objVars, userVars>>

\* Mutant of AsksErrno: the pointer is not tested.
AsksErrnoAlways == TRUE

\* clientCallback takes the error of a failure from avahi_client_errno, or it
\* is ErrFailure when there is no avahiClient yet.
AsksErrno == clnt.avahi # "none"

\* avahi_client_new returns NULL: poll_free, queue.Close, handle.Delete.
NewClientFail(u) ==
    /\ pc[u] = "clientnew"
    /\ thread = "off"
    /\ poll' = "freed"
    /\ clnt' = [clnt EXCEPT !.queue = "closed", !.handle = "deleted",
                            !.state = "failed"]
    /\ Goto(u, "idle")
    /\ UNCHANGED <<visited, closing, threadVars, lock, children, objVars>>

\* It succeeds, and the event thread starts.
NewClientOk(u) ==
    /\ pc[u] = "clientnew"
    /\ thread = "off"
    /\ clnt' = [clnt EXCEPT !.avahi = "live", !.state = "ready"]
    /\ poll' = "running"
    /\ thread' = "idle"
    /\ Goto(u, "idle")
    /\ UNCHANGED <<visited, closing, target, lock, children, objVars>>
-----------------------------------------------------------------------------
(* Constructors of the children *)

\* The prologue: a handle and a queue.
NewAlloc(u, o) ==
    /\ pc[u] = "idle"
    /\ ClientOpen
    /\ result[o] = "none"
    /\ handle[o] = "none"
    /\ handle' = [handle EXCEPT ![o] = "valid"]
    /\ queue' = [queue EXCEPT ![o] = "open"]
    /\ \/ Start(u, "newbegin", o)
       \/ o \in LocalResolvers /\ Start(u, "localadd", o)
    /\ UNCHANGED <<clientVars, threadVars, lock, children, cobj, closed, result>>

\* NewHostNameResolver answers for "localhost" by itself: the event is pushed
\* and the resolver registered without begin.
NewLocal(u) ==
    /\ pc[u] = "localadd"
    /\ children' = children \cup {arg[u]}
    /\ result' = [result EXCEPT ![arg[u]] = "ok"]
    /\ Start(u, "idle", None)
    /\ UNCHANGED <<clientVars, threadVars, lock, cobj, queue, handle, closed>>

\* The address, the protocol or the loopback interface is no good: the
\* constructor returns an error and leaves handle and queue as they are.
NewEarlyReturn(u) ==
    /\ pc[u] \in {"newbegin", "localadd"}
    /\ arg[u] \in EarlyReturns
    /\ result' = [result EXCEPT ![arg[u]] = "error"]
    /\ Start(u, "idle", None)
    /\ UNCHANGED <<clientVars, threadVars, lock, children, cobj, queue, handle,
                   closed>>

\* Mutant of NewBegin: the constructor does without begin.
NewWithoutBegin(u) ==
    /\ pc[u] = "newbegin"
    /\ Goto(u, "create")
    /\ UNCHANGED <<clientVars, threadVars, lock, children, objVars>>

NewBegin(u) ==
    /\ pc[u] = "newbegin"
    /\ lock = None
    /\ lock' = u
    /\ Goto(u, "create")
    /\ UNCHANGED <<clientVars, threadVars, children, objVars>>

\* Mutant of NewOk: the child is not registered.
NewWithoutAdd(u) ==
    /\ pc[u] = "create"
    /\ cobj' = [cobj EXCEPT ![arg[u]] = "live"]
    /\ result' = [result EXCEPT ![arg[u]] = "ok"]
    /\ lock' = None
    /\ Start(u, "idle", None)
    /\ UNCHANGED <<clientVars, threadVars, children, queue, handle, closed>>

\* The C object is created, the child registered, end.
NewOk(u) ==
    /\ pc[u] = "create"
    /\ cobj' = [cobj EXCEPT ![arg[u]] = "live"]
    /\ children' = children \cup {arg[u]}
    /\ result' = [result EXCEPT ![arg[u]] = "ok"]
    /\ lock' = None
    /\ Start(u, "idle", None)
    /\ UNCHANGED <<clientVars, threadVars, queue, handle, closed>>

\* Mutant of NewFail: it returns without closing the queue and the handle.
NewFailLeaks(u) ==
    /\ pc[u] = "create"
    /\ result' = [result EXCEPT ![arg[u]] = "error"]
    /\ lock' = None
    /\ Start(u, "idle", None)
    /\ UNCHANGED <<clientVars, threadVars, children, cobj, queue, handle, closed>>

\* Avahi returns NULL: queue.Close, handle.Delete, end.
NewFail(u) ==
    /\ pc[u] = "create"
    /\ queue' = [queue EXCEPT ![arg[u]] = "closed"]
    /\ handle' = [handle EXCEPT ![arg[u]] = "deleted"]
    /\ result' = [result EXCEPT ![arg[u]] = "error"]
    /\ lock' = None
    /\ Start(u, "idle", None)
    /\ UNCHANGED <<clientVars, threadVars, children, cobj, closed>>
-----------------------------------------------------------------------------
(* Close of a child, by the application or by Client.Close *)

MayClose(o) ==
    /\ result[o] = "ok"
    /\ \/ ClientOpen
       \/ clnt.state = "done"
       \/ ConcurrentClose

\* Mutant of CloseSwap: closed is tested, and nobody sets it.
CloseLoad(u, o) ==
    /\ pc[u] = "idle"
    /\ MayClose(o)
    /\ ~closed[o]
    /\ Start(u, "begin", o)
    /\ UNCHANGED <<clientVars, threadVars, lock, children, objVars>>

\* The one call that finds closed unset goes on.
CloseSwap(u, o) ==
    /\ pc[u] = "idle"
    /\ MayClose(o)
    /\ ~closed[o]
    /\ closed' = [closed EXCEPT ![o] = TRUE]
    /\ Start(u, "begin", o)
    /\ UNCHANGED <<clientVars, threadVars, lock, children, cobj, queue, handle,
                   result>>

\* "Note, double close is safe": it returns at once, even when the first
\* close is still at work.
DoubleClose(u, o) ==
    /\ pc[u] = "idle"
    /\ MayClose(o)
    /\ closed[o]
    /\ UNCHANGED vars

CloseBegin(u) ==
    /\ pc[u] = "begin"
    /\ lock = None
    /\ lock' = u
    /\ Goto(u, "critical")
    /\ UNCHANGED <<clientVars, threadVars, children, objVars>>

\* Mutant of CloseFree: the lock is not released.
CloseWithoutEnd(u) ==
    /\ pc[u] = "critical"
    /\ children' = children \ {arg[u]}
    /\ cobj' = [cobj EXCEPT ![arg[u]] = IF @ = "live" THEN "freed" ELSE @]
    /\ Goto(u, "queue")
    /\ UNCHANGED <<clientVars, threadVars, lock, queue, handle, closed, result>>

\* Mutant of CloseFree: the C object is left to avahi_client_free.
CloseWithoutFree(u) ==
    /\ pc[u] = "critical"
    /\ children' = children \ {arg[u]}
    /\ lock' = None
    /\ Goto(u, "queue")
    /\ UNCHANGED <<clientVars, threadVars, objVars>>

\* delCloser, avahi_..._free (a local resolver has nothing to free), end.
CloseFree(u) ==
    /\ pc[u] = "critical"
    /\ children' = children \ {arg[u]}
    /\ cobj' = [cobj EXCEPT ![arg[u]] = IF @ = "live" THEN "freed" ELSE @]
    /\ lock' = None
    /\ Goto(u, "queue")
    /\ UNCHANGED <<clientVars, threadVars, queue, handle, closed, result>>

CloseQueue(u) ==
    /\ pc[u] = "queue"
    /\ queue' = [queue EXCEPT ![arg[u]] = "closed"]
    /\ Goto(u, "handle")
    /\ UNCHANGED <<clientVars, threadVars, lock, children, cobj, handle, closed,
                   result>>

CloseHandle(u) ==
    /\ pc[u] = "handle"
    /\ handle' = [handle EXCEPT ![arg[u]] = "deleted"]
    /\ Return(u)
    /\ UNCHANGED <<clientVars, threadVars, lock, children, cobj, queue, closed,
                   result>>
-----------------------------------------------------------------------------
(* Methods that work on the client between begin and end: GetVersionString, *)
(* GetHostName, GetDomainName, GetHostFQDN.                                 *)

Use(u) ==
    /\ pc[u] = "idle"
    /\ ClientOpen
    /\ Goto(u, "usebegin")
    /\ UNCHANGED <<clientVars, threadVars, lock, children, objVars>>

UseBegin(u) ==
    /\ pc[u] = "usebegin"
    /\ lock = None
    /\ lock' = u
    /\ Goto(u, "use")
    /\ UNCHANGED <<clientVars, threadVars, children, objVars>>

UseEnd(u) ==
    /\ pc[u] = "use"
    /\ lock' = None
    /\ Goto(u, "idle")
    /\ UNCHANGED <<clientVars, threadVars, children, objVars>>
-----------------------------------------------------------------------------
(* Client.Close *)

\* The application calls it when nobody is inside a
\* method of the Client or its children, a Close apart when the constant says.
ClientSwap(u) ==
    /\ pc[u] = "idle"
    /\ ClientOpen
    /\ \A v \in Users : \/ pc[v] = "idle"
                        \/ ConcurrentClose /\ pc[v] \in CloseState
    /\ clnt' = [clnt EXCEPT !.closed = TRUE]
    /\ closing' = u
    /\ Goto(u, "stop")
    /\ UNCHANGED <<poll, visited, threadVars, lock, children, objVars>>

ClientDoubleClose(u) ==
    /\ pc[u] = "idle"
    /\ clnt.closed
    /\ UNCHANGED vars

\* Mutant of ClientStop: it does not wait until the event thread has left its
\* callback.
ClientStopNoJoin(u) ==
    /\ pc[u] = "stop"
    /\ poll' = "stopped"
    /\ Goto(u, "range")
    /\ UNCHANGED <<clnt, visited, closing, threadVars, lock, children, objVars>>

\* avahi_threaded_poll_stop tells the event thread to quit and joins it.
ClientStop(u) ==
    /\ pc[u] = "stop"
    /\ thread = "idle"
    /\ lock = None
    /\ poll' = "stopped"
    /\ thread' = "off"
    /\ Goto(u, "range")
    /\ UNCHANGED <<clnt, visited, closing, target, lock, children, objVars>>

\* The next key of the map: obj.Close() on it, which returns at once when the
\* child is closed already.
ClientRange(u, o) ==
    /\ pc[u] = "range"
    /\ o \in children \ visited
    /\ visited' = visited \cup {o}
    /\ IF closed[o]
       THEN UNCHANGED <<closed, userVars>>
       ELSE /\ closed' = [closed EXCEPT ![o] = TRUE]
            /\ Start(u, "begin", o)
    /\ UNCHANGED <<poll, clnt, closing, threadVars, lock, children, cobj, queue,
                   handle, result>>

\* avahi_client_free, without begin; it frees the C objects that are left.
ClientFree(u) ==
    /\ pc[u] = "range"
    /\ children \subseteq visited
    /\ clnt' = [clnt EXCEPT !.avahi = "freed"]
    /\ cobj' = [o \in Objects |-> IF cobj[o] = "live" THEN "freed" ELSE cobj[o]]
    /\ Goto(u, "pollfree")
    /\ UNCHANGED <<poll, visited, closing, threadVars, lock, children, queue,
                   handle, closed, result>>

ClientPollFree(u) ==
    /\ pc[u] = "pollfree"
    /\ poll' = "freed"
    /\ Goto(u, "cqueue")
    /\ UNCHANGED <<clnt, visited, closing, threadVars, lock, children, objVars>>

ClientQueue(u) ==
    /\ pc[u] = "cqueue"
    /\ clnt' = [clnt EXCEPT !.queue = "closed"]
    /\ Goto(u, "chandle")
    /\ UNCHANGED <<poll, visited, closing, threadVars, lock, children, objVars>>

ClientHandle(u) ==
    /\ pc[u] = "chandle"
    /\ clnt' = [clnt EXCEPT !.handle = "deleted", !.state = "done"]
    /\ closing' = None
    /\ Goto(u, "idle")
    /\ UNCHANGED <<poll, visited, threadVars, lock, children, objVars>>
-----------------------------------------------------------------------------
(* The event thread of Avahi: it calls callbacks with its mutex held. *)

ClientCallback ==
    /\ thread = "idle"
    /\ lock = None
    /\ lock' = "thread"
    /\ thread' = "client"
    /\ UNCHANGED <<clientVars, target, children, objVars, userVars>>

ChildCallback(o) ==
    /\ thread = "idle"
    /\ lock = None
    /\ cobj[o] = "live"
    /\ lock' = "thread"
    /\ thread' = "child"
    /\ target' = o
    /\ UNCHANGED <<clientVars, children, objVars, userVars>>

\* The callback has found its object by the handle, has asked the client for
\* its errno when the event is a failure, and has pushed the event.
CallbackReturn ==
    /\ thread \in {"client", "child", "first"}
    /\ thread' = IF thread = "first" THEN "off" ELSE "idle"
    /\ target' = None
    /\ lock' = None
    /\ UNCHANGED <<clientVars, children, objVars, userVars>>
-----------------------------------------------------------------------------
\* The calls that the application decides on.
Call(u) ==
    \/ NewClientAlloc(u) \/ NewClientNoMemory(u)
    \/ \E o \in Objects : NewAlloc(u, o) \/ CloseSwap(u, o) \/ DoubleClose(u, o)
    \/ Use(u)
    \/ ClientSwap(u) \/ ClientDoubleClose(u)

\* The steps of a call that wait for the event thread or for the lock.
WaitingStep(u) == NewBegin(u) \/ CloseBegin(u) \/ UseBegin(u) \/ ClientStop(u)

\* The other steps of a call.
Step(u) ==
    \/ NewClientFail(u) \/ NewClientOk(u)
    \/ NewLocal(u) \/ NewEarlyReturn(u) \/ NewOk(u) \/ NewFail(u)
    \/ CloseFree(u) \/ CloseQueue(u) \/ CloseHandle(u)
    \/ UseEnd(u)
    \/ \E o \in Objects : ClientRange(u, o)
    \/ ClientFree(u) \/ ClientPollFree(u) \/ ClientQueue(u) \/ ClientHandle(u)

Callback ==
    \/ \E u \in Users : NewClientCallback(u)
    \/ ClientCallback
    \/ \E o \in Objects : ChildCallback(o)

Next ==
    \/ \E u \in Users : Call(u) \/ WaitingStep(u) \/ Step(u)
    \/ Callback
    \/ CallbackReturn

Spec == Init /\ [][Next]_vars

\* Goroutines and the event thread run; a goroutine that waits for the mutex
\* of the poll gets it in the end, though the event thread takes it again and
\* again.  Nothing makes the application call, or Avahi call back.
FairSpec ==
    /\ Spec
    /\ \A u \in Users : WF_vars(Step(u)) /\ SF_vars(WaitingStep(u))
    /\ WF_vars(CallbackReturn)
-----------------------------------------------------------------------------
(* Safety *)

\* A callback finds its object: while one runs (and may push at any moment)
\* the handle is valid, the queue open and the client there if it is asked
\* for its errno, be it while NewClient is still at work (client.go:245-253).
\* It is what EventQueue!Push assumes, and holds only because Close frees the
\* C object under the lock before it closes the queue
\* (servicebrowser.go:161-168).
NoCallbackOnClosed ==
    /\ thread \in {"client", "first"} =>
         /\ clnt.handle = "valid"
         /\ clnt.queue = "open"
         /\ AsksErrno => clnt.avahi = "live"
    /\ thread = "child" =>
         /\ handle[target] = "valid"
         /\ queue[target] = "open"
         /\ clnt.avahi = "live"

\* Nobody is about to hand a freed object to Avahi: the poll exists wherever
\* it is locked, the client wherever it is used, and the C object of a child
\* wherever that is freed.
NoUseAfterFree ==
    \A u \in Users :
        /\ pc[u] \in {"newbegin", "begin", "usebegin", "create", "critical", "use"}
             => poll \in {"running", "stopped"}
        /\ pc[u] \in {"create", "critical", "use"} => clnt.avahi = "live"
        /\ pc[u] = "critical" =>
             \/ cobj[arg[u]] = "live"
             \/ arg[u] \in LocalResolvers /\ cobj[arg[u]] = "none"
        /\ thread \notin {"off", "first"} => poll = "running"

\* Nobody is about to close a queue or delete a handle for the second time,
\* on which Go panics, however often and by whom Close is called.
NoDoubleRelease ==
    \A u \in Users :
        /\ pc[u] = "queue" => queue[arg[u]] = "open"
        /\ pc[u] = "handle" => handle[arg[u]] = "valid"
        /\ pc[u] = "cqueue" => clnt.queue = "open"
        /\ pc[u] = "chandle" => clnt.handle = "valid"

\* Two goroutines are never about to access Client.children at a time, of
\* which one writes: addCloser and delCloser write, the loop of closers.close
\* reads, and only some of that is done with the lock held.  A local resolver
\* registers itself without it (hostnameresolver.go:139): for that one only
\* the loop is excluded.
NoMapRace ==
    \A u, v \in Users :
        u # v => /\ pc[u] \in {"create", "critical"}
                      => pc[v] \notin {"create", "critical", "range"}
                 /\ pc[u] = "localadd" => pc[v] # "range"

\* Client.Close has taken everything with it that a constructor had returned:
\* "closes all objects still in set" (closer.go:35), and nothing was missing
\* in the set.
ChildrenClosedWithClient ==
    clnt.state = "done" =>
        /\ children = {}
        /\ \A o \in Objects :
             result[o] = "ok" =>
                 /\ closed[o]
                 /\ cobj[o] # "live"
                 /\ queue[o] = "closed"
                 /\ handle[o] = "deleted"

\* What is still in the table of cgo, or open.
Left == {o \in Objects : handle[o] = "valid" \/ queue[o] = "open"}

\* client.go:32: "it must be closed using the Client.Close call to free
\* associated resources": then no handle is left in the table of cgo, which
\* would keep its object alive for ever.
NothingLeaked == clnt.state \in {"done", "failed"} => Left = {}

\* As NothingLeaked, for the Client itself too, but for the objects whose
\* constructor has failed before begin: whatever else fails, and however the
\* calls interleave, Client.Close and a NewClient that fails leave nothing.
NothingElseLeaked ==
    clnt.state \in {"done", "failed"} =>
        /\ clnt.handle # "valid"
        /\ poll \in {"none", "freed"}
        /\ Left \subseteq {o \in EarlyReturns : result[o] = "error"}
-----------------------------------------------------------------------------
(* The inductive invariant, whether or not children are closed meanwhile *)

\* Everything of object o is there.
Intact(o) ==
    /\ o \in children /\ handle[o] = "valid" /\ queue[o] = "open"
    /\ cobj[o] = "live" \/ (o \in LocalResolvers /\ cobj[o] = "none")

\* avahi_client_free has freed the C object of o, if there was one, before the
\* Close that had swapped closed came to do it.
Overtaken(o) ==
    /\ ConcurrentClose /\ clnt.avahi = "freed"
    /\ o \in children /\ handle[o] = "valid" /\ queue[o] = "open" /\ cobj[o] # "live"

\* Nothing of object o is there but perhaps its queue q and its handle h.
Released(o, q, h) ==
    o \notin children /\ queue[o] = q /\ handle[o] = h /\ cobj[o] # "live"

\* An object is worked on by one user at a time: the swap of closed lets one
\* Close through.
ArgInv ==
    \A u \in Users :
        /\ arg[u] # None <=> pc[u] \in CloseState \cup (NewState \ {"clientnew"})
        /\ pc[u] = "localadd" => arg[u] \in LocalResolvers
        /\ \A v \in Users : arg[u] # None /\ arg[u] = arg[v] => u = v

\* What is there of an object at each step of its constructor and its Close.
StepInv ==
    \A u \in Users :
        /\ pc[u] \in NewState \ {"clientnew"} =>
             result[arg[u]] = "none" /\ handle[arg[u]] = "valid" /\ queue[arg[u]] = "open"
        /\ pc[u] \in CloseState => result[arg[u]] = "ok" /\ closed[arg[u]]
        /\ pc[u] \in {"begin", "critical"} => Intact(arg[u]) \/ Overtaken(arg[u])
        /\ pc[u] = "queue" => Released(arg[u], "open", "valid")
        /\ pc[u] = "handle" => Released(arg[u], "closed", "valid")

\* What is there of an object on which nobody works.
ObjectInv ==
    \A o \in Objects :
        /\ result[o] # "ok" => cobj[o] = "none" /\ ~closed[o] /\ o \notin children
        /\ result[o] = "ok" /\ ~closed[o] => Intact(o)
        /\ (\A u \in Users : arg[u] # o) =>
             /\ result[o] = "none" => handle[o] = "none" /\ queue[o] = "none"
             /\ result[o] = "error" =>
                  o \in EarlyReturns \/ Released(o, "closed", "deleted")
             /\ closed[o] => Released(o, "closed", "deleted")

\* The phases of the Client's life.  Before it is ready:
BeforeInv ==
    clnt.state \in {"none", "failed"} =>
        /\ ~clnt.closed /\ clnt.avahi = "none" /\ closing = None
        /\ \A o \in Objects : result[o] = "none" /\ handle[o] = "none"
        /\ \A u \in Users : pc[u] \in {"idle", "clientnew"}
        /\ thread \in {"off", "first"}
        /\ IF poll = "new"
           THEN /\ clnt.state = "none" /\ clnt.queue = "open" /\ clnt.handle = "valid"
                /\ \A u, v \in Users : pc[u] = "clientnew" /\ pc[v] = "clientnew" => u = v
           ELSE /\ poll \in {"none", "freed"}
                /\ clnt.queue # "open" /\ clnt.handle # "valid"
                /\ thread = "off"
                /\ \A u \in Users : pc[u] = "idle"

\* While it is open:
OpenInv ==
    ClientOpen =>
        /\ poll = "running" /\ thread \in {"idle", "client", "child"}
        /\ clnt.avahi = "live" /\ clnt.queue = "open" /\ clnt.handle = "valid"
        /\ closing = None
        /\ \A u \in Users : pc[u] \notin ClientCloseState \cup {"clientnew"}

\* Nothing runs in user u beside Client.Close, or Close of a child if need be.
Aside(u) == pc[u] = "idle" \/ (ConcurrentClose /\ pc[u] \in CloseState)

\* While Client.Close runs, in one user and nothing else beside it; once it
\* comes to avahi_client_free, Close has been called on every child:
CloseInv ==
    clnt.state = "ready" /\ clnt.closed =>
        /\ closing \in Users /\ pc[closing] \in CloseState \cup ClientCloseState
        /\ \A u \in Users : u # closing => Aside(u)
        /\ IF pc[closing] = "stop"
           THEN poll = "running" /\ thread \in {"idle", "client", "child"}
           ELSE thread = "off" /\ poll = IF pc[closing] \in {"cqueue", "chandle"}
                                        THEN "freed" ELSE "stopped"
        /\ clnt.queue = (IF pc[closing] = "chandle" THEN "closed" ELSE "open")
        /\ clnt.handle = "valid"
        /\ IF pc[closing] \in {"pollfree", "cqueue", "chandle"}
           THEN \A o \in Objects : result[o] = "ok" => closed[o]
           ELSE clnt.avahi = "live"

\* And when it has returned:
DoneInv ==
    clnt.state = "done" =>
        /\ clnt.closed /\ poll = "freed" /\ thread = "off"
        /\ clnt.queue = "closed" /\ clnt.handle = "deleted" /\ closing = None
        /\ \A u \in Users : Aside(u)
        /\ \A o \in Objects : result[o] = "ok" => closed[o]

\* The callback of a child runs while its C object is there; what the loop of
\* Client.Close has been through is closed.
CallbackInv ==
    /\ thread = "child" => cobj[target] = "live"
    /\ \A o \in visited : closed[o]

PhaseInv == BeforeInv /\ OpenInv /\ CloseInv /\ DoneInv

\* The inductive invariant of ClientProofs.
IInv == TypeOK /\ ArgInv /\ StepInv /\ ObjectInv /\ PhaseInv /\ CallbackInv
-----------------------------------------------------------------------------
(* Liveness *)

\* Close of a child returns, although it waits for a lock that the event
\* thread takes for every callback, and so does Client.Close, which waits for
\* the event thread and closes every child on its way (servicebrowser.go:161,
\* client.go:118-133).
CloseReturns ==
    /\ \A u \in Users : pc[u] = "begin" ~> pc[u] \notin CloseState
    /\ clnt.closed ~> clnt.state = "done"
=============================================================================
