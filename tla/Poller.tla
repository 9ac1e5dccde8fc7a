------------------------------- MODULE Poller -------------------------------
(***************************************************************************)
(* poller.go: one Poll loop over the event channels of many objects, and   *)
(* the AddXxx calls that extend its list of sources.                       *)
(*                                                                         *)
(* The list is read (Poll) and appended to (Add) under p.lock; delSource,  *)
(* which Poll calls when a channel turns out to be closed, changes it      *)
(* without the lock.  Its steps are separate actions here, so that an Add  *)
(* may come in between; everything done under the lock is one action.      *)
(*                                                                         *)
(* A channel is a FIFO of the events that its object offers, numbered from *)
(* 1 for each source; EventQueue says in which order an object offers      *)
(* them.  One goroutine polls.                                             *)
(***************************************************************************)
EXTENDS Integers, Sequences, FiniteSets, Functions

CONSTANTS
    Sources,        \* the event channels
    MaxEvents,      \* bound: how many events a source sends
    AddDuringPoll,  \* TRUE: Add may be called while Poll is active
    None            \* no source

ASSUME PollerAssumption ==
    /\ MaxEvents \in Nat
    /\ AddDuringPoll \in BOOLEAN
    /\ None \notin Sources

VARIABLES
    sources,    \* Poller.sources
    pc,         \* where Poll is: see TypeOK
    expired,    \* ctx.Err() # nil
    snapshot,   \* the sources that Poll selects on
    src, idx,   \* the source delSource looks for, and where it found it
    len,        \* the new length that delSource has computed
    chan,       \* chan[s]: the events that wait in channel s
    sent,       \* sent[s]: how many events were sent to it
    closed,     \* closed[s]: the channel is closed
    added,      \* history: the sources added, and not removed since
    returned    \* history: returned[s], the events of s that Poll returned

pollVars == <<pc, expired, snapshot, src, idx, len>>
chanVars == <<chan, sent, closed>>
vars == <<sources, pollVars, chanVars, added, returned>>

Deleting == {"find", "copy", "load", "store"}

TypeOK ==
    /\ sources \in Seq(Sources)
    /\ pc \in {"idle", "check", "select"} \cup Deleting
    /\ expired \in BOOLEAN
    /\ snapshot \subseteq Sources
    /\ src \in Sources \cup {None}
    /\ idx \in 0 .. Len(sources)
    /\ len \in 0 .. Len(sources)     \* else the slice expression panics
    /\ chan \in [Sources -> Seq(1 .. MaxEvents)]
    /\ sent \in [Sources -> 0 .. MaxEvents]
    /\ closed \in [Sources -> BOOLEAN]
    /\ added \subseteq Sources
    /\ returned \in [Sources -> Seq(1 .. MaxEvents)]

Init ==
    /\ sources = <<>>
    /\ pc = "idle"
    /\ expired = FALSE
    /\ snapshot = {}
    /\ src = None
    /\ idx = 0
    /\ len = 0
    /\ chan = [s \in Sources |-> <<>>]
    /\ sent = [s \in Sources |-> 0]
    /\ closed = [s \in Sources |-> FALSE]
    /\ added = {}
    /\ returned = [s \in Sources |-> <<>>]
-----------------------------------------------------------------------------
(* The objects at the other end of the channels. *)

Send(s) ==
    /\ ~closed[s]
    /\ sent[s] < MaxEvents
    /\ sent' = [sent EXCEPT ![s] = @ + 1]
    /\ chan' = [chan EXCEPT ![s] = Append(@, sent[s] + 1)]
    /\ UNCHANGED <<sources, pollVars, closed, added, returned>>

\* Close of the object purges what nobody has received (eventqueue.go:50).
CloseSource(s) ==
    /\ ~closed[s]
    /\ closed' = [closed EXCEPT ![s] = TRUE]
    /\ chan' = [chan EXCEPT ![s] = <<>>]
    /\ UNCHANGED <<sources, pollVars, sent, added, returned>>
-----------------------------------------------------------------------------
(* The application. *)

\* Mutant of Add: a source that is there already is added again.
AddAgain(s) ==
    /\ AddDuringPoll \/ pc = "idle"
    /\ Len(sources) < 2 * Cardinality(Sources)
    /\ sources' = Append(sources, s)
    /\ added' = added \cup {s}
    /\ UNCHANGED <<pollVars, chanVars, returned>>

\* AddClient, AddServiceBrowser, ...: pollerAddSource.
Add(s) ==
    /\ AddDuringPoll \/ pc = "idle"
    /\ sources' = IF s \in Range(sources) THEN sources ELSE Append(sources, s)
    /\ added' = added \cup {s}
    /\ UNCHANGED <<pollVars, chanVars, returned>>

Poll ==
    /\ pc = "idle"
    /\ pc' = "check"
    /\ expired' \in BOOLEAN
    /\ UNCHANGED <<sources, snapshot, src, idx, len, chanVars, added, returned>>

\* The context is cancelled, or its deadline passes.
Expire ==
    /\ pc # "idle"
    /\ ~expired
    /\ expired' = TRUE
    /\ UNCHANGED <<sources, pc, snapshot, src, idx, len, chanVars, added, returned>>
-----------------------------------------------------------------------------
(* The loop of Poll. *)

\* Mutant of PollExpired: the loop does not look at the context.
PollForEver ==
    /\ pc = "check"
    /\ expired
    /\ snapshot' = Range(sources)
    /\ pc' = "select"
    /\ UNCHANGED <<sources, expired, src, idx, len, chanVars, added, returned>>

PollExpired ==
    /\ pc = "check"
    /\ expired
    /\ pc' = "idle"
    /\ UNCHANGED <<sources, expired, snapshot, src, idx, len, chanVars, added,
                   returned>>

Snapshot ==
    /\ pc = "check"
    /\ ~expired
    /\ snapshot' = Range(sources)
    /\ pc' = "select"
    /\ UNCHANGED <<sources, expired, src, idx, len, chanVars, added, returned>>

\* reflect.Select chooses among the cases that are ready, the context first.
SelectExpired ==
    /\ pc = "select"
    /\ expired
    /\ pc' = "check"
    /\ snapshot' = {}
    /\ UNCHANGED <<sources, expired, src, idx, len, chanVars, added, returned>>

\* Mutant of SelectEvent: the context is looked at again after the select,
\* and the event is forgotten when it has expired meanwhile.
SelectEventUnlessExpired(s) ==
    /\ pc = "select"
    /\ s \in snapshot
    /\ chan[s] # <<>>
    /\ chan' = [chan EXCEPT ![s] = Tail(@)]
    /\ returned' = IF expired THEN returned
                   ELSE [returned EXCEPT ![s] = Append(@, Head(chan[s]))]
    /\ pc' = "idle"
    /\ snapshot' = {}
    /\ UNCHANGED <<sources, expired, src, idx, len, sent, closed, added>>

\* An event, which Poll returns.
SelectEvent(s) ==
    /\ pc = "select"
    /\ s \in snapshot
    /\ chan[s] # <<>>
    /\ chan' = [chan EXCEPT ![s] = Tail(@)]
    /\ returned' = [returned EXCEPT ![s] = Append(@, Head(chan[s]))]
    /\ pc' = "idle"
    /\ snapshot' = {}
    /\ UNCHANGED <<sources, expired, src, idx, len, sent, closed, added>>

\* Mutant of SelectClosed: Poll retries, and leaves the source where it is.
SelectClosedRetry(s) ==
    /\ pc = "select"
    /\ s \in snapshot
    /\ closed[s]
    /\ pc' = "check"
    /\ snapshot' = {}
    /\ UNCHANGED <<sources, expired, src, idx, len, chanVars, added, returned>>

\* The channel is closed: Poll calls delSource.
SelectClosed(s) ==
    /\ pc = "select"
    /\ s \in snapshot
    /\ closed[s]
    /\ pc' = "find"
    /\ src' = s
    /\ snapshot' = {}
    /\ UNCHANGED <<sources, expired, idx, len, chanVars, added, returned>>
-----------------------------------------------------------------------------
(* delSource, without p.lock. *)

\* The loop over the list; a source that is not there is left at that.
DelFind ==
    /\ pc = "find"
    /\ IF src \in Range(sources)
       THEN /\ pc' = "copy"
            /\ idx' \in {i \in DOMAIN sources :
                          sources[i] = src /\ \A j \in 1 .. i - 1 : sources[j] # src}
       ELSE /\ pc' = "check"
            /\ UNCHANGED idx
    /\ UNCHANGED <<sources, expired, snapshot, src, len, chanVars, added, returned>>

\* Mutant of DelCopy: the tail is copied to the wrong place.
DelCopyNext ==
    /\ pc = "copy"
    /\ sources' = [i \in DOMAIN sources |->
                      IF i > idx /\ i < Len(sources) THEN sources[i + 1] ELSE sources[i]]
    /\ pc' = "load"
    /\ UNCHANGED <<expired, snapshot, src, idx, len, chanVars, added, returned>>

\* copy(p.sources[i:], p.sources[i+1:])
DelCopy ==
    /\ pc = "copy"
    /\ sources' = [i \in DOMAIN sources |->
                      IF i >= idx /\ i < Len(sources) THEN sources[i + 1] ELSE sources[i]]
    /\ pc' = "load"
    /\ UNCHANGED <<expired, snapshot, src, idx, len, chanVars, added, returned>>

\* Mutant of DelLoad: one too short.
DelLoadShort ==
    /\ pc = "load"
    /\ len' = Len(sources) - 2
    /\ pc' = "store"
    /\ UNCHANGED <<sources, expired, snapshot, src, idx, chanVars, added, returned>>

\* The right-hand side of p.sources = p.sources[:len(p.sources)-1] ...
DelLoad ==
    /\ pc = "load"
    /\ len' = Len(sources) - 1
    /\ pc' = "store"
    /\ UNCHANGED <<sources, expired, snapshot, src, idx, chanVars, added, returned>>

\* ... and the assignment.
DelStore ==
    /\ pc = "store"
    /\ sources' = SubSeq(sources, 1, len)
    /\ added' = added \ {src}
    /\ pc' = "check"
    /\ src' = None
    /\ idx' = 0
    /\ len' = 0
    /\ UNCHANGED <<expired, snapshot, chanVars, returned>>
-----------------------------------------------------------------------------
DelSource == DelFind \/ DelCopy \/ DelLoad \/ DelStore

PollStep ==
    \/ PollExpired
    \/ Snapshot
    \/ SelectExpired
    \/ \E s \in Sources : SelectEvent(s) \/ SelectClosed(s)
    \/ DelSource

Next ==
    \/ \E s \in Sources : Send(s) \/ CloseSource(s) \/ Add(s)
    \/ Poll
    \/ Expire
    \/ PollStep

Spec == Init /\ [][Next]_vars

\* The goroutine in Poll runs; reflect.Select chooses at random among the
\* cases that are ready, so that none is passed over for ever.  Nothing makes
\* the application poll, objects send or close, or contexts expire.
FairSpec ==
    /\ Spec
    /\ WF_vars(PollStep)
    /\ \A s \in Sources : SF_vars(SelectEvent(s)) /\ SF_vars(SelectClosed(s))
-----------------------------------------------------------------------------
(* Safety *)

\* poller.go:50: "If source is added while Poll is active, it may or may not
\* affect the pending Poll, no guarantees are provided here except for safety
\* guarantees."  Whatever happens to the pending Poll, a source that was added
\* is in the list, once, until delSource has taken that very source out of it.
SourcesAsAdded ==
    pc \notin Deleting =>
        /\ Range(sources) = added
        /\ Len(sources) = Cardinality(added)

\* poller.go:54: "Events, received from the same source, are never reordered
\* between each other".  Nor is one lost between them, in particular not when
\* the context expires at the moment at which an event arrives, or when its
\* source is removed and added again.
ReturnedInOrder ==
    \A s \in Sources : \A i \in DOMAIN returned[s] : returned[s][i] = i

\* Only a source that is closed is ever taken out of the list: a step that
\* forgets a source forgets the one that was found closed.
OnlyClosedRemoved ==
    [][\A s \in Range(sources) \ Range(sources') : closed[s]]_vars
-----------------------------------------------------------------------------
(* The inductive invariant *)

\* delSource is after a source that is closed, and has found it in the list.
DelInv ==
    /\ pc \in Deleting => src \in Sources /\ closed[src]
    /\ pc \in Deleting \ {"find"} => idx \in DOMAIN sources

\* What was returned and what waits are the events 1, 2, ... that were sent;
\* only Close leaves a gap, and nothing comes after it.
ChanInv ==
    \A s \in Sources :
        /\ \A i \in DOMAIN returned[s] : returned[s][i] = i
        /\ \A i \in DOMAIN chan[s] : chan[s][i] = Len(returned[s]) + i
        /\ IF closed[s] THEN chan[s] = <<>> ELSE Len(returned[s]) + Len(chan[s]) = sent[s]

\* The list without its last element, which delSource will cut off.
Front == {sources[i] : i \in 1 .. Len(sources) - 1}

\* For AddDuringPoll = FALSE: nothing is in the list twice, and what is there
\* was added; between copy and the assignment, the last element apart, which
\* the copy has left behind.
ListInv ==
    /\ pc = "copy" => sources[idx] = src
    /\ IF pc \notin {"load", "store"}
       THEN /\ Range(sources) = added
            /\ \A i, j \in DOMAIN sources : sources[i] = sources[j] => i = j
       ELSE /\ Front = added \ {src}
            /\ \A i, j \in 1 .. Len(sources) - 1 : sources[i] = sources[j] => i = j
            /\ sources[Len(sources)] \in Front \cup {src}
            /\ pc = "store" => len = Len(sources) - 1

\* The inductive invariant of PollerProofs.
IInv == TypeOK /\ DelInv /\ ChanInv /\ ListInv
-----------------------------------------------------------------------------
(* Liveness *)

\* Poll returns once its context has expired, however many closed sources
\* and events it comes across.
PollReturns == pc # "idle" /\ expired ~> pc = "idle"

\* A source on which Poll selects again and again is not starved by others:
\* each of its events is returned, unless the source is closed before.
EventReturned ==
    \A s \in Sources :
        []<>(pc = "select" /\ s \in snapshot) =>
            \A v \in 1 .. MaxEvents :
                v <= sent[s] ~> v \in Range(returned[s]) \/ closed[s]

\* A closed source is forgotten: Poll does not find it closed for ever, which
\* would keep it busy (poller.go:84).
ClosedForgotten ==
    \A s \in Sources :
        pc = "select" /\ closed[s] /\ s \in snapshot
            ~> s \notin Range(sources) \/ pc = "idle"
=============================================================================
