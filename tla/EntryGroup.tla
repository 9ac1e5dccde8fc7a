----------------------------- MODULE EntryGroup -----------------------------
(***************************************************************************)
(* entrygroup.go: publishing through avahi-daemon.                         *)
(*                                                                         *)
(* Goroutines of the application call NewEntryGroup, the Add methods,      *)
(* Commit, Reset and Close; the event thread reports the state of the      *)
(* group; the daemon registers what was committed, and may go away.  There *)
(* is one group at a time, which the application may close and create      *)
(* again, as doc.go:254-258 tells it to do when the daemon was lost.       *)
(*                                                                         *)
(* The flag "empty" is what Go remembers of the daemon's side.  It is      *)
(* written under the lock, after the call to Avahi, and read by IsEmpty    *)
(* without it, so both are steps of their own.  The same holds for errno,  *)
(* which Avahi keeps once for the whole Client.                            *)
(*                                                                         *)
(* All the Add methods have the shape of AddService; AddRecord converts    *)
(* its TTL besides.  The group of the daemon, its signals and errno are    *)
(* external: they are as the code uses them.                               *)
(***************************************************************************)
EXTENDS Integers, Sequences

CONSTANTS
    Users,          \* goroutines of the application
    Second,         \* time.Second, in units of time.Duration; even
    MaxSeconds,     \* math.MaxInt32
    TTLs,           \* the TTLs that AddRecord is called with
    MaxSignals,     \* bound: no call begins, and the daemon does nothing by
                    \* itself, when so many of its signals are under way
    None            \* no user, no error

ASSUME EntryGroupAssumption ==
    /\ Second \in Nat \ {0} /\ Second % 2 = 0
    /\ MaxSeconds \in Nat
    /\ TTLs \subseteq Int
    /\ MaxSignals \in Nat \ {0}
    /\ None \notin Users

VARIABLES
    group,      \* the EntryGroup: "none", "live" or "closing"
    empty,      \* EntryGroup.empty
    lock,       \* who holds the mutex of the poll, or None
    errno,      \* avahi_client_errno: who caused the latest error
    event,      \* the latest event pushed to the queue of the group
    daemon,     \* "up" or "down"
    entries,    \* what the daemon holds of this group
    record,     \* the TTL that AddRecord was called with, and what it passed on
    state,      \* the state of the group at the daemon
    signals,    \* its changes, of which the event thread has yet to hear
    pc, op,     \* pc[u]: where user u is, in the method op[u]
    ttl,        \* ttl[u]: the parameter of AddRecord
    ret         \* ret[u]: what the latest call of u returned

goVars == <<group, empty, event>>
daemonVars == <<daemon, entries, record, state, signals>>
userVars == <<pc, op, ttl, ret>>
vars == <<goVars, lock, errno, daemonVars, userVars>>

GroupStates == {"uncommitted", "registering", "established", "collision", "failure"}
Errors == Users \cup {"daemon", "invalid", "other"}
NoEvent == [state |-> "none", err |-> None]
NoRecord == [asked |-> 0, passed |-> 0]

TypeOK ==
    /\ group \in {"none", "live", "closing"}
    /\ empty \in BOOLEAN
    /\ lock \in Users \cup {None}
    /\ errno \in Errors \cup {None}
    /\ event \in [state : GroupStates \cup {"none"}, err : Errors \cup {None}]
    /\ daemon \in {"up", "down"}
    /\ entries \subseteq {"service", "record"}
    /\ record \in [asked : TTLs \cup {0}, passed : Int]
    /\ state \in GroupStates
    /\ signals \in Seq(GroupStates)
    /\ pc \in [Users -> {"idle", "begin", "call", "store", "errno"}]
    /\ op \in [Users -> {"none", "new", "service", "record", "commit", "reset", "close"}]
    /\ ttl \in [Users -> TTLs \cup {0}]
    /\ ret \in [Users -> Errors \cup {"none", "ok"}]
    (* the lock has the holder that is between begin and end *)
    /\ \A u \in Users : lock = u <=> pc[u] \in {"call", "store", "errno"}

Init ==
    /\ group = "none"
    /\ empty = TRUE
    /\ lock = None
    /\ errno = None
    /\ event = NoEvent
    /\ daemon = "up"
    /\ entries = {}
    /\ record = NoRecord
    /\ state = "uncommitted"
    /\ signals = <<>>
    /\ pc = [u \in Users |-> "idle"]
    /\ op = [u \in Users |-> "none"]
    /\ ttl = [u \in Users |-> 0]
    /\ ret = [u \in Users |-> "none"]

\* Users inside a method of the group.
Busy == {u \in Users : pc[u] # "idle"}

\* User u calls method m and comes to begin.
Enter(u, m) ==
    /\ pc' = [pc EXCEPT ![u] = "begin"]
    /\ op' = [op EXCEPT ![u] = m]
    /\ ret' = [ret EXCEPT ![u] = "none"]

\* User u returns r.
Leave(u, r) ==
    /\ pc' = [pc EXCEPT ![u] = "idle"]
    /\ op' = [op EXCEPT ![u] = "none"]
    /\ ttl' = [ttl EXCEPT ![u] = 0]
    /\ ret' = [ret EXCEPT ![u] = r]

\* User u goes on to step s.
Goto(u, s) == pc' = [pc EXCEPT ![u] = s] /\ UNCHANGED <<op, ttl, ret>>

\* The group at the daemon goes over to state s, and the daemon says so.
Change(s) ==
    /\ state' = s
    /\ signals' = IF s = state THEN signals ELSE Append(signals, s)

Room == Len(signals) < MaxSignals

\* The daemon is there, and knows the group.
Connected == daemon = "up" /\ state # "failure"
-----------------------------------------------------------------------------
(* The methods, up to begin *)

\* The group is no longer there, or never was: NewEntryGroup.
New(u) ==
    /\ pc[u] = "idle"
    /\ group = "none"
    /\ Busy = {}
    /\ Enter(u, "new")
    /\ empty' = TRUE
    /\ UNCHANGED <<group, event, lock, errno, daemonVars, ttl>>

\* AddService, AddServiceSubtype, UpdateServiceTxt, AddAddress, Commit, Reset.
Method(u, m) ==
    /\ pc[u] = "idle"
    /\ Room
    /\ group = "live"
    /\ Enter(u, m)
    /\ UNCHANGED <<goVars, lock, errno, daemonVars, ttl>>

\* No memory for the TXT record, or an address that is neither IP4 nor IP6.
AddInvalid(u) ==
    /\ pc[u] = "idle"
    /\ group = "live"
    /\ Leave(u, "invalid")
    /\ UNCHANGED <<goVars, lock, errno, daemonVars>>

TTLValid(t) == t >= 0 /\ t <= Second * MaxSeconds

\* Mutant of TTLSeconds: the fraction is cut off.
TTLCutOff(t) == t \div Second

\* The TTL in seconds, rounded to the nearest.
TTLSeconds(t) == (t + Second \div 2) \div Second

\* AddRecord returns ErrInvalidTTL, or goes on.
AddRecord(u, t) ==
    /\ pc[u] = "idle"
    /\ group = "live"
    /\ \/ /\ ~TTLValid(t)
          /\ Leave(u, "invalid")
       \/ /\ TTLValid(t)
          /\ Enter(u, "record")
          /\ ttl' = [ttl EXCEPT ![u] = t]
    /\ UNCHANGED <<goVars, lock, errno, daemonVars>>

\* The application closes the group when none of its methods runs.  A second
\* Close finds the flag set and does nothing.
Close(u) ==
    /\ pc[u] = "idle"
    /\ group = "live"
    /\ Busy = {}
    /\ Enter(u, "close")
    /\ group' = "closing"
    /\ UNCHANGED <<empty, event, lock, errno, daemonVars, ttl>>

Begin(u) ==
    /\ pc[u] = "begin"
    /\ lock = None
    /\ lock' = u
    /\ Goto(u, "call")
    /\ UNCHANGED <<goVars, errno, daemonVars>>
-----------------------------------------------------------------------------
(* Between begin and end *)

\* avahi_entry_group_new makes its first callback before it returns.
NewOk(u) ==
    /\ pc[u] = "call" /\ op[u] = "new"
    /\ daemon = "up"
    /\ group' = "live"
    /\ state' = "uncommitted"
    /\ event' = [state |-> "uncommitted", err |-> None]
    /\ lock' = None
    /\ Leave(u, "ok")
    /\ UNCHANGED <<empty, errno, daemon, entries, record, signals>>

\* Mutant of NewFail: end comes before errno.
NewFailEnd(u) ==
    /\ pc[u] = "call" /\ op[u] = "new"
    /\ errno' = u
    /\ lock' = None
    /\ Goto(u, "errno")
    /\ UNCHANGED <<goVars, daemonVars>>

\* Mutant of NewFail: it asks again until the daemon is there.
NewFailRetry(u) ==
    /\ pc[u] = "call" /\ op[u] = "new"
    /\ errno' = u
    /\ Goto(u, "call")
    /\ UNCHANGED <<goVars, lock, daemonVars>>

\* Avahi returns NULL and leaves the reason in errno.
NewFail(u) ==
    /\ pc[u] = "call" /\ op[u] = "new"
    /\ errno' = u
    /\ Goto(u, "errno")
    /\ UNCHANGED <<goVars, lock, daemonVars>>

\* "return nil, clnt.errno()", and the deferred end.
NewErrno(u) ==
    /\ pc[u] = "errno"
    /\ lock' = None
    /\ Leave(u, errno)
    /\ UNCHANGED <<goVars, errno, daemonVars>>

\* Mutant of CallFail: it returns without end.
CallFailLocked(u) ==
    /\ pc[u] = "call" /\ op[u] \in {"service", "record", "commit", "reset"}
    /\ errno' = u
    /\ Leave(u, u)
    /\ UNCHANGED <<goVars, lock, daemonVars>>

\* Avahi refuses, and the method returns what it said.
CallFail(u) ==
    /\ pc[u] = "call" /\ op[u] \in {"service", "record", "commit", "reset"}
    /\ errno' = u
    /\ lock' = None
    /\ Leave(u, u)
    /\ UNCHANGED <<goVars, daemonVars>>

\* Mutant of AddCall: end comes before empty is set.
AddCallEnd(u) ==
    /\ pc[u] = "call" /\ op[u] \in {"service", "record"}
    /\ Connected
    /\ entries' = entries \cup {op[u]}
    /\ record' = IF op[u] = "record"
                 THEN [asked |-> ttl[u], passed |-> TTLSeconds(ttl[u])]
                 ELSE record
    /\ lock' = None
    /\ Goto(u, "store")
    /\ UNCHANGED <<goVars, errno, daemon, state, signals>>

\* Avahi accepts an entry.
AddCall(u) ==
    /\ pc[u] = "call" /\ op[u] \in {"service", "record"}
    /\ Connected
    /\ entries' = entries \cup {op[u]}
    /\ record' = IF op[u] = "record"
                 THEN [asked |-> ttl[u], passed |-> TTLSeconds(ttl[u])]
                 ELSE record
    /\ Goto(u, "store")
    /\ UNCHANGED <<goVars, lock, errno, daemon, state, signals>>

\* The group is purged at once, without commit.
ResetCall(u) ==
    /\ pc[u] = "call" /\ op[u] = "reset"
    /\ Connected
    /\ entries' = {}
    /\ record' = NoRecord
    /\ Change("uncommitted")
    /\ Goto(u, "store")
    /\ UNCHANGED <<goVars, lock, errno, daemon>>

\* empty.Store after the call has succeeded, and the deferred end.
Store(u) ==
    /\ pc[u] = "store"
    /\ empty' = (op[u] = "reset")
    /\ lock' = None
    /\ Leave(u, "ok")
    /\ UNCHANGED <<group, event, errno, daemonVars>>

CommitCall(u) ==
    /\ pc[u] = "call" /\ op[u] = "commit"
    /\ Connected
    /\ state = "uncommitted"
    /\ Change("registering")
    /\ lock' = None
    /\ Leave(u, "ok")
    /\ UNCHANGED <<goVars, errno, daemon, entries, record>>

\* avahi_entry_group_free: the daemon forgets the group, and what it has said
\* of it finds nobody.
CloseCall(u) ==
    /\ pc[u] = "call" /\ op[u] = "close"
    /\ group' = "none"
    /\ entries' = {}
    /\ record' = NoRecord
    /\ state' = "uncommitted"
    /\ signals' = <<>>
    /\ lock' = None
    /\ Leave(u, "ok")
    /\ UNCHANGED <<empty, event, errno, daemon>>
-----------------------------------------------------------------------------
(* The daemon and the event thread *)

\* Registration ends well, or with a collision.
Registered ==
    /\ Connected
    /\ Room
    /\ state = "registering"
    /\ \E s \in {"established", "collision"} : Change(s)
    /\ UNCHANGED <<goVars, lock, errno, daemon, entries, record, userVars>>

\* A group that is there fails, and what it had is gone.
DaemonLost ==
    /\ daemon = "up"
    /\ Room
    /\ daemon' = "down"
    /\ entries' = {}
    /\ record' = NoRecord
    /\ IF group = "none" THEN UNCHANGED <<state, signals>> ELSE Change("failure")
    /\ UNCHANGED <<goVars, lock, errno, userVars>>

DaemonBack ==
    /\ daemon = "down"
    /\ daemon' = "up"
    /\ UNCHANGED <<goVars, lock, errno, entries, record, state, signals, userVars>>

\* A call on some other object of the Client fails, in a critical section of
\* its own.
OtherFail ==
    /\ lock = None
    /\ errno' = "other"
    /\ UNCHANGED <<goVars, lock, daemonVars, userVars>>

\* Mutant of Callback: an event is pushed only when the last one was "uncommitted".
CallbackFirst ==
    /\ lock = None
    /\ group # "none"
    /\ signals # <<>>
    /\ signals' = Tail(signals)
    /\ event' = IF event.state = "uncommitted" THEN [state |-> Head(signals), err |-> None]
                ELSE event
    /\ UNCHANGED <<group, empty, lock, errno, daemon, entries, record, state, userVars>>

\* entryGroupCallback, under the lock from beginning to end.  Avahi has set
\* errno before it calls back with a failure.
Callback ==
    /\ lock = None
    /\ group # "none"
    /\ signals # <<>>
    /\ signals' = Tail(signals)
    /\ errno' = IF Head(signals) = "failure" THEN "daemon" ELSE errno
    /\ event' = [state |-> Head(signals),
                 err |-> IF Head(signals) = "failure" THEN errno' ELSE None]
    /\ UNCHANGED <<group, empty, lock, daemon, entries, record, state, userVars>>
-----------------------------------------------------------------------------
Call(u) ==
    \/ New(u) \/ Close(u) \/ AddInvalid(u)
    \/ \E m \in {"service", "commit", "reset"} : Method(u, m)
    \/ \E t \in TTLs : AddRecord(u, t)

Step(u) ==
    \/ NewOk(u) \/ NewFail(u) \/ NewErrno(u)
    \/ CallFail(u) \/ AddCall(u) \/ ResetCall(u) \/ Store(u)
    \/ CommitCall(u) \/ CloseCall(u)

Next ==
    \/ \E u \in Users : Call(u) \/ Begin(u) \/ Step(u)
    \/ Registered
    \/ DaemonLost
    \/ DaemonBack
    \/ OtherFail
    \/ Callback

Spec == Init /\ [][Next]_vars

\* Goroutines run, and get the mutex in the end though the event thread takes
\* it again and again, and it though they do.  The daemon finishes what it has
\* begun to register.  Nothing makes the application call, or the daemon fail.
FairSpec ==
    /\ Spec
    /\ \A u \in Users : WF_vars(Step(u)) /\ SF_vars(Begin(u))
    /\ WF_vars(Registered)
    /\ SF_vars(Callback)
-----------------------------------------------------------------------------
(* Safety *)

\* IsEmpty, which asks Go only, agrees with the daemon whenever no method is
\* between begin and end: empty is set in the same critical section in which
\* the daemon is asked, so that an Add and a Reset at a time leave it right.
\* A group that has failed is as it was, and has to be closed.
EmptyAgrees ==
    group = "live" /\ lock = None /\ state # "failure"
        => (empty <=> entries = {})

\* Avahi keeps one errno for the whole Client.  A constructor that fails
\* returns the error of its own call, and a failure event has the error that
\* made the group fail, though other calls fail meanwhile: errno is read
\* before the lock is released (entrygroup.go:117-121, 450-452).
ErrorIsOwn ==
    /\ \A u \in Users : ret[u] \in {"none", "ok", "invalid", u}
    /\ event.state = "failure" => event.err = "daemon"

\* entrygroup.go:95: "DNS TTL, rounded to seconds and must fit int32": no TTL
\* that is let through is rounded past the limit, or further than it must.
TTLRounded ==
    "record" \in entries =>
        /\ record.passed \in 0 .. MaxSeconds
        /\ 2 * (record.passed * Second - record.asked) <= Second
        /\ 2 * (record.asked - record.passed * Second) <= Second
-----------------------------------------------------------------------------
(* The inductive invariant *)

Adds == {"service", "record"}

\* Which method finds the group in which state, and who is alone in it; and
\* errno is still the one of the call that has just failed.
MethodInv ==
    \A u \in Users :
        /\ pc[u] = "store" => op[u] \in Adds \cup {"reset"}
        /\ pc[u] = "errno" => op[u] = "new" /\ errno = u
        /\ pc[u] # "idle" =>
             \/ op[u] \in Adds \cup {"commit", "reset"} /\ group = "live"
             \/ op[u] = "new" /\ group = "none" /\ empty /\ Busy = {u}
             \/ op[u] = "close" /\ group = "closing" /\ Busy = {u}

\* What is stored in empty, or is about to be, is what the daemon has been
\* told; and it keeps nothing of a group that is not there.
EmptyInv ==
    /\ group = "none" => entries = {}
    /\ group = "live" /\ state # "failure" =>
         /\ (\A u \in Users : pc[u] # "store") => (empty <=> entries = {})
         /\ \A u \in Users : pc[u] = "store" => (op[u] = "reset" <=> entries = {})

\* What is on its way to the daemon, or there, has passed the test.
RecordInv ==
    /\ \A u \in Users : pc[u] # "idle" /\ op[u] = "record" => ttl[u] \in TTLs /\ TTLValid(ttl[u])
    /\ "record" \in entries =>
         /\ record.asked \in TTLs /\ TTLValid(record.asked)
         /\ record.passed = TTLSeconds(record.asked)

\* The inductive invariant of EntryGroupProofs.
IInv == TypeOK /\ MethodInv /\ EmptyInv /\ ErrorIsOwn /\ RecordInv
-----------------------------------------------------------------------------
(* Liveness *)

\* doc.go:353: "the EntryGroup will eventually come into the either
\* EntryGroupStateEstablished or EntryGroupStateCollision state", unless it
\* is reset, closed or lost, and in each case but Close an event says so.
CommitSettles ==
    group = "live" /\ event.state = "registering"
        ~> group # "live" \/ event.state # "registering"

\* A method that was called returns.
CallsReturn == \A u \in Users : pc[u] = "begin" ~> pc[u] = "idle"
=============================================================================
