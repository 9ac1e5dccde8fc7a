---------------------------- MODULE PollerProofs ----------------------------
(***************************************************************************)
(* Theorems about Poller, for every set of sources and every number of     *)
(* events.  What Poll returns is in order whenever sources are added; what *)
(* the list holds is right when they are added between Polls.              *)
(***************************************************************************)
EXTENDS Poller, SequenceTheorems, FiniteSetTheorems, TLAPS

\* The part of IInv that holds when sources are added during Poll too.
Inv1 == TypeOK /\ DelInv /\ ChanInv

\* Nothing is in the list or in a channel at first.
LEMMA InitInv1 == Init => Inv1
<1> SUFFICES ASSUME Init PROVE Inv1
  OBVIOUS
<1>1. TypeOK
  <2>1. sources \in Seq(Sources) /\ Len(sources) = 0
    BY EmptySeq DEF Init
  <2>2. idx \in 0 .. Len(sources) /\ len \in 0 .. Len(sources)
    BY <2>1 DEF Init
  <2>3. chan \in [Sources -> Seq(1 .. MaxEvents)] /\ returned \in [Sources -> Seq(1 .. MaxEvents)]
    BY EmptySeq DEF Init
  <2>4. sent \in [Sources -> 0 .. MaxEvents] /\ closed \in [Sources -> BOOLEAN]
    BY PollerAssumption DEF Init
  <2> QED
    BY <2>1, <2>2, <2>3, <2>4 DEF Init, TypeOK
<1>2. DelInv
  BY DEF Init, DelInv, Deleting
<1>3. ChanInv
  BY EmptySeq DEF Init, ChanInv
<1> QED
  BY <1>1, <1>2, <1>3 DEF Inv1

\* copy keeps the length of the list and brings nothing new into it.
LEMMA CopyType ==
    ASSUME TypeOK, DelInv, DelCopy
    PROVE  sources' \in Seq(Sources) /\ Len(sources') = Len(sources)
<1> DEFINE f(i) == IF i >= idx /\ i < Len(sources) THEN sources[i + 1] ELSE sources[i]
<1>1. Len(sources) \in Nat /\ DOMAIN sources = 1 .. Len(sources)
      /\ \A i \in 1 .. Len(sources) : sources[i] \in Sources
  BY LenProperties, ElementOfSeq DEF TypeOK
<1>2. \A i \in 1 .. Len(sources) : f(i) \in Sources
  BY <1>1
<1>3. sources' = [i \in 1 .. Len(sources) |-> f(i)]
  BY <1>1 DEF DelCopy
<1> HIDE DEF f
<1>4. sources' \in Seq(Sources)
  BY <1>1, <1>2, <1>3, IsASeq
<1>5. Len(sources') = Len(sources)
  BY <1>1, <1>3, <1>4, LenProperties
<1> QED
  BY <1>4, <1>5

\* The types, and where delSource is.
LEMMA NextType == ASSUME Inv1, [Next]_vars PROVE TypeOK' /\ DelInv'
<1> USE PollerAssumption DEF Inv1, Deleting
<1>0. Len(sources) \in Nat /\ DOMAIN sources = 1 .. Len(sources)
  BY LenProperties DEF TypeOK
<1>1. ASSUME NEW s \in Sources, Send(s) PROVE TypeOK' /\ DelInv'
  <2>1. sent[s] + 1 \in 1 .. MaxEvents
    BY <1>1 DEF Send, TypeOK
  <2>2. Append(chan[s], sent[s] + 1) \in Seq(1 .. MaxEvents)
    BY <2>1, AppendProperties DEF TypeOK
  <2>3. sent' \in [Sources -> 0 .. MaxEvents]
    BY <1>1, <2>1 DEF Send, TypeOK
  <2>4. chan' \in [Sources -> Seq(1 .. MaxEvents)]
    BY <1>1, <2>2 DEF Send, TypeOK
  <2> QED
    BY <1>1, <2>3, <2>4 DEF Send, pollVars, TypeOK, DelInv
<1>2. ASSUME NEW s \in Sources, CloseSource(s) PROVE TypeOK' /\ DelInv'
  <2>1. closed' \in [Sources -> BOOLEAN] /\ chan' \in [Sources -> Seq(1 .. MaxEvents)]
    BY <1>2, EmptySeq DEF CloseSource, TypeOK
  <2>2. \A t \in Sources : closed[t] => closed'[t]
    BY <1>2 DEF CloseSource, TypeOK
  <2> QED
    BY <1>2, <2>1, <2>2 DEF CloseSource, pollVars, TypeOK, DelInv
<1>3. ASSUME NEW s \in Sources, Add(s) PROVE TypeOK' /\ DelInv'
  <2>1. sources' \in Seq(Sources) /\ Len(sources') \in Nat /\ Len(sources') >= Len(sources)
    BY <1>0, <1>3, AppendProperties DEF Add, TypeOK
  <2>2. DOMAIN sources \subseteq DOMAIN sources'
    BY <1>0, <2>1, LenProperties
  <2> QED
    BY <1>0, <1>3, <2>1, <2>2 DEF Add, pollVars, chanVars, TypeOK, DelInv
<1>4. ASSUME Poll \/ Expire \/ PollExpired \/ SelectExpired PROVE TypeOK' /\ DelInv'
  BY <1>4 DEF Poll, Expire, PollExpired, SelectExpired, chanVars, TypeOK, DelInv
<1>5. ASSUME Snapshot PROVE TypeOK' /\ DelInv'
  <2>1. Range(sources) \subseteq Sources
    BY ElementOfSeq, <1>0 DEF TypeOK, Range
  <2> QED
    BY <1>5, <2>1 DEF Snapshot, chanVars, TypeOK, DelInv
<1>6. ASSUME NEW s \in Sources, SelectEvent(s) PROVE TypeOK' /\ DelInv'
  <2>1. Head(chan[s]) \in 1 .. MaxEvents /\ Tail(chan[s]) \in Seq(1 .. MaxEvents)
    BY <1>6, HeadTailProperties DEF SelectEvent, TypeOK
  <2>2. Append(returned[s], Head(chan[s])) \in Seq(1 .. MaxEvents)
    BY <2>1, AppendProperties DEF TypeOK
  <2>3. /\ chan' \in [Sources -> Seq(1 .. MaxEvents)]
        /\ returned' \in [Sources -> Seq(1 .. MaxEvents)]
    BY <1>6, <2>1, <2>2 DEF SelectEvent, TypeOK
  <2> QED
    BY <1>6, <2>3 DEF SelectEvent, TypeOK, DelInv
<1>7. ASSUME NEW s \in Sources, SelectClosed(s) PROVE TypeOK' /\ DelInv'
  BY <1>7 DEF SelectClosed, chanVars, TypeOK, DelInv
<1>8. ASSUME DelFind PROVE TypeOK' /\ DelInv'
  BY <1>0, <1>8 DEF DelFind, chanVars, TypeOK, DelInv, Range
<1>9. ASSUME DelCopy PROVE TypeOK' /\ DelInv'
  <2>1. sources' \in Seq(Sources) /\ Len(sources') = Len(sources)
    BY <1>9, CopyType
  <2>2. DOMAIN sources' = DOMAIN sources
    BY <1>0, <2>1, LenProperties
  <2> QED
    BY <1>9, <2>1, <2>2 DEF DelCopy, chanVars, TypeOK, DelInv
<1>10. ASSUME DelLoad PROVE TypeOK' /\ DelInv'
  BY <1>0, <1>10 DEF DelLoad, chanVars, TypeOK, DelInv
<1>11. ASSUME DelStore PROVE TypeOK' /\ DelInv'
  <2>1. len \in Nat /\ \A i \in 1 .. len : sources[i] \in Sources
    BY <1>0, ElementOfSeq DEF TypeOK
  <2>2. sources' \in Seq(Sources)
    BY <1>11, <2>1, SubSeqProperties DEF DelStore
  <2>3. Len(sources') \in Nat
    BY <2>2, LenProperties
  <2> QED
    BY <1>11, <2>2, <2>3 DEF DelStore, chanVars, TypeOK, DelInv
<1>12. ASSUME UNCHANGED vars PROVE TypeOK' /\ DelInv'
  BY <1>12 DEF vars, pollVars, chanVars, TypeOK, DelInv
<1> QED
  BY <1>1, <1>2, <1>3, <1>4, <1>5, <1>6, <1>7, <1>8, <1>9, <1>10, <1>11, <1>12
     DEF Next, PollStep, DelSource

\* An event is appended to its channel after those that were sent before, and
\* Poll returns the oldest.
LEMMA NextChan == ASSUME Inv1, [Next]_vars PROVE ChanInv'
<1> USE DEF Inv1
<1>0. \A s \in Sources :
        /\ Len(chan[s]) \in Nat /\ DOMAIN chan[s] = 1 .. Len(chan[s])
        /\ Len(returned[s]) \in Nat /\ DOMAIN returned[s] = 1 .. Len(returned[s])
        /\ sent[s] \in Nat
  BY LenProperties DEF TypeOK
<1>1. ASSUME NEW s \in Sources, Send(s) PROVE ChanInv'
  <2> DEFINE c == Append(chan[s], sent[s] + 1)
  <2>1. sent[s] + 1 \in 1 .. MaxEvents
    BY <1>1, PollerAssumption DEF Send, TypeOK
  <2>2. /\ Len(c) = Len(chan[s]) + 1 /\ DOMAIN c = 1 .. Len(chan[s]) + 1
        /\ \A i \in 1 .. Len(chan[s]) : c[i] = chan[s][i]
        /\ c[Len(chan[s]) + 1] = sent[s] + 1
    BY <1>0, <2>1, AppendProperties, LenProperties DEF TypeOK
  <2>3. Len(returned[s]) + Len(chan[s]) = sent[s] /\ ~closed[s]
    BY <1>1 DEF Send, ChanInv
  <2>4. chan' = [chan EXCEPT ![s] = c] /\ sent' = [sent EXCEPT ![s] = @ + 1]
        /\ returned' = returned /\ closed' = closed
    BY <1>1 DEF Send
  <2> DEFINE n == Len(returned[s])
             k == Len(chan[s])
  <2>5. /\ n \in Nat /\ k \in Nat /\ n + k = sent[s]
        /\ \A i \in 1 .. k : chan[s][i] = n + i
    BY <1>0, <2>3 DEF ChanInv
  <2>6. Len(c) = k + 1 /\ DOMAIN c = 1 .. k + 1 /\ c[k + 1] = n + k + 1
        /\ \A i \in 1 .. k : c[i] = chan[s][i]
    BY <2>2, <2>5
  <2> HIDE DEF c, n, k
  <2>7. n + Len(c) = sent[s] + 1 /\ \A i \in DOMAIN c : c[i] = n + i
    BY <2>5, <2>6
  <2> QED
    BY <2>3, <2>4, <2>7 DEF ChanInv, TypeOK, n
<1>2. ASSUME NEW s \in Sources, CloseSource(s) PROVE ChanInv'
  BY <1>2, EmptySeq DEF CloseSource, ChanInv, TypeOK
<1>3. ASSUME NEW s \in Sources, SelectEvent(s) PROVE ChanInv'
  <2> DEFINE c == Tail(chan[s])
             r == Append(returned[s], Head(chan[s]))
  <2>1. chan[s] # <<>> /\ chan[s] \in Seq(1 .. MaxEvents) /\ returned[s] \in Seq(1 .. MaxEvents)
    BY <1>3 DEF SelectEvent, TypeOK
  <2>2. Head(chan[s]) = chan[s][1] /\ Len(chan[s]) > 0
    BY <1>0, <2>1, EmptySeq
  <2>3. /\ Head(chan[s]) \in 1 .. MaxEvents
        /\ c \in Seq(1 .. MaxEvents) /\ Len(c) = Len(chan[s]) - 1
        /\ \A i \in 1 .. Len(c) : c[i] = chan[s][i + 1]
    BY <2>1, HeadTailProperties
  <2>4. /\ Len(r) = Len(returned[s]) + 1 /\ DOMAIN r = 1 .. Len(returned[s]) + 1
        /\ \A i \in 1 .. Len(returned[s]) : r[i] = returned[s][i]
        /\ r[Len(returned[s]) + 1] = Head(chan[s])
    BY <1>0, <2>1, <2>3, AppendProperties, LenProperties
  <2>5. chan' = [chan EXCEPT ![s] = c] /\ returned' = [returned EXCEPT ![s] = r]
        /\ sent' = sent /\ closed' = closed
    BY <1>3 DEF SelectEvent
  <2>6. DOMAIN c = 1 .. Len(chan[s]) - 1
    BY <2>3, LenProperties
  <2> DEFINE n == Len(returned[s])
             k == Len(chan[s])
  <2>7. /\ n \in Nat /\ k \in Nat /\ k > 0 /\ ~closed[s] /\ n + k = sent[s]
        /\ \A i \in 1 .. n : returned[s][i] = i
        /\ \A i \in 1 .. k : chan[s][i] = n + i
    BY <1>0, <2>1, <2>2 DEF ChanInv
  <2>8. /\ Len(r) = n + 1 /\ DOMAIN r = 1 .. n + 1 /\ r[n + 1] = n + 1
        /\ \A i \in 1 .. n : r[i] = i
    BY <2>2, <2>4, <2>7
  <2>9. /\ Len(c) = k - 1 /\ DOMAIN c = 1 .. k - 1
        /\ \A i \in 1 .. k - 1 : c[i] = n + 1 + i
    BY <2>3, <2>6, <2>7
  <2> HIDE DEF c, r, n, k
  <2>10. \A i \in DOMAIN r : r[i] = i
    BY <2>7, <2>8
  <2>11. \A i \in DOMAIN c : c[i] = Len(r) + i
    BY <2>7, <2>8, <2>9
  <2>12. Len(r) + Len(c) = sent[s]
    BY <2>7, <2>8, <2>9
  <2> QED
    BY <2>5, <2>7, <2>10, <2>11, <2>12 DEF ChanInv, TypeOK
<1>4. ASSUME UNCHANGED <<chan, sent, closed, returned>> PROVE ChanInv'
  BY <1>4 DEF ChanInv
<1>5. ASSUME NEW s \in Sources, Add(s) \/ SelectClosed(s) PROVE ChanInv'
  BY <1>4, <1>5 DEF Add, SelectClosed, chanVars
<1>6. ASSUME \/ Poll \/ Expire \/ PollExpired \/ Snapshot \/ SelectExpired
             \/ DelSource \/ UNCHANGED vars
      PROVE  ChanInv'
  BY <1>4, <1>6 DEF Poll, Expire, PollExpired, Snapshot, SelectExpired, DelSource, DelFind,
     DelCopy, DelLoad, DelStore, vars, chanVars
<1> QED
  BY <1>1, <1>2, <1>3, <1>5, <1>6 DEF Next, PollStep

\* What Front is, by its definition.
LEMMA InFront ==
    ASSUME NEW v
    PROVE  v \in Front <=> \E i \in 1 .. Len(sources) - 1 : sources[i] = v
BY DEF Front

\* What Range is, for a sequence.
LEMMA InRange ==
    ASSUME TypeOK, NEW v
    PROVE  v \in Range(sources) <=> \E i \in 1 .. Len(sources) : sources[i] = v
BY LenProperties DEF TypeOK, Range

\* The copy of delSource leaves in front what the list had but for the element
\* at idx, each once; and at its end what was there before.
LEMMA CopyFront ==
    ASSUME TypeOK, DelInv, ListInv, DelCopy
    PROVE  /\ Front' = added \ {src}
           /\ \A i, j \in 1 .. Len(sources') - 1 : sources'[i] = sources'[j] => i = j
           /\ sources'[Len(sources')] \in Front' \cup {src}
<1> DEFINE n == Len(sources)
<1>1. n \in Nat /\ DOMAIN sources = 1 .. n /\ Len(sources') = n
  BY CopyType, LenProperties DEF TypeOK
<1>2. idx \in 1 .. n /\ sources[idx] = src
  BY <1>1 DEF DelInv, ListInv, DelCopy, Deleting
<1>3. /\ \A i \in 1 .. n : i < idx => sources'[i] = sources[i]
      /\ \A i \in 1 .. n : i >= idx /\ i < n => sources'[i] = sources[i + 1]
      /\ sources'[n] = sources[n]
  BY <1>1, <1>2 DEF DelCopy
<1>4. \A i, j \in 1 .. n : sources[i] = sources[j] => i = j
  BY <1>1 DEF ListInv, DelCopy
<1>5. \A v : v \in added <=> \E i \in 1 .. n : sources[i] = v
  BY InRange DEF ListInv, DelCopy
<1>6. \A v : v \in Front' <=> \E i \in 1 .. n - 1 : sources'[i] = v
  BY <1>1 DEF Front
<1> HIDE DEF n
<1>7. \A i \in 1 .. n - 1 : \E k \in 1 .. n : k # idx /\ sources'[i] = sources[k]
  <2> TAKE i \in 1 .. n - 1
  <2>1. CASE i < idx
    BY <1>1, <1>2, <1>3, <2>1
  <2>2. CASE i >= idx
    <3>1. i + 1 \in 1 .. n /\ i + 1 # idx /\ sources'[i] = sources[i + 1]
      BY <1>1, <1>2, <1>3, <2>2
    <3> QED
      BY <3>1
  <2> QED
    BY <1>1, <1>2, <2>1, <2>2
<1>8. \A k \in 1 .. n : k # idx => \E i \in 1 .. n - 1 : sources'[i] = sources[k]
  <2> TAKE k \in 1 .. n
  <2> HAVE k # idx
  <2>1. CASE k < idx
    <3>1. k \in 1 .. n - 1 /\ sources'[k] = sources[k]
      BY <1>1, <1>2, <1>3, <2>1
    <3> QED
      BY <3>1
  <2>2. CASE k > idx
    <3>1. k - 1 \in 1 .. n - 1 /\ sources'[k - 1] = sources[k]
      BY <1>1, <1>2, <1>3, <2>2
    <3> QED
      BY <3>1
  <2> QED
    BY <1>1, <1>2, <2>1, <2>2
<1>9. Front' = added \ {src}
  BY <1>2, <1>4, <1>5, <1>6, <1>7, <1>8
<1>10. \A i, j \in 1 .. n - 1 : sources'[i] = sources'[j] => i = j
  BY <1>1, <1>2, <1>3, <1>4
<1>11. sources'[n] \in Front' \cup {src}
  <2>1. sources'[n] \in added
    BY <1>1, <1>2, <1>3, <1>5
  <2> QED
    BY <1>9, <2>1
<1> QED
  BY <1>1, <1>9, <1>10, <1>11

\* When nothing is added during Poll, the list holds what was added, each source
\* once, wherever delSource is.
LEMMA NextList ==
    ASSUME ~AddDuringPoll, Inv1, ListInv, [Next]_vars
    PROVE  ListInv'
<1> USE DEF Inv1, Deleting
<1>0. Len(sources) \in Nat /\ DOMAIN sources = 1 .. Len(sources)
  BY LenProperties DEF TypeOK
<1>1. ASSUME UNCHANGED <<sources, pc, src, idx, len, added>> PROVE ListInv'
  BY <1>1 DEF ListInv, Front
<1>2. ASSUME NEW s \in Sources, Send(s) \/ CloseSource(s) PROVE ListInv'
  BY <1>1, <1>2 DEF Send, CloseSource, pollVars
<1>3. ASSUME NEW s \in Sources, Add(s) PROVE ListInv'
  <2>1. /\ pc = "idle" /\ pc' = "idle" /\ added' = added \cup {s}
        /\ Range(sources) = added
        /\ \A i, j \in DOMAIN sources : sources[i] = sources[j] => i = j
    BY <1>3 DEF Add, pollVars, ListInv
  <2>2. CASE s \in Range(sources)
    BY <1>3, <2>1, <2>2 DEF Add, ListInv
  <2>3. CASE s \notin Range(sources)
    <3>1. sources' = Append(sources, s) /\ sources \in Seq(Sources)
      BY <1>3, <2>3 DEF Add, TypeOK
    <3>2. /\ DOMAIN sources' = 1 .. Len(sources) + 1
          /\ \A i \in 1 .. Len(sources) : sources'[i] = sources[i]
          /\ sources'[Len(sources) + 1] = s
      BY <1>0, <3>1, AppendProperties, LenProperties
    <3>3. \A v : v \in Range(sources) <=> \E i \in 1 .. Len(sources) : sources[i] = v
      BY InRange
    <3>4. \A v : v \in Range(sources') <=> \E i \in 1 .. Len(sources) + 1 : sources'[i] = v
      BY <3>2 DEF Range
    <3>5. Range(sources') = added'
      BY <1>0, <2>1, <3>2, <3>3, <3>4
    <3>6. \A i, j \in DOMAIN sources' : sources'[i] = sources'[j] => i = j
      BY <1>0, <2>1, <2>3, <3>2, <3>3
    <3> QED
      BY <2>1, <3>5, <3>6 DEF ListInv
  <2> QED
    BY <2>2, <2>3
<1>4. ASSUME Poll \/ Expire \/ PollExpired \/ Snapshot \/ SelectExpired PROVE ListInv'
  BY <1>4 DEF Poll, Expire, PollExpired, Snapshot, SelectExpired, ListInv, Front
<1>5. ASSUME NEW s \in Sources, SelectEvent(s) \/ SelectClosed(s) PROVE ListInv'
  BY <1>5 DEF SelectEvent, SelectClosed, ListInv
<1>6. ASSUME DelFind PROVE ListInv'
  <2>1. /\ pc = "find" /\ pc' \in {"copy", "check"} /\ sources' = sources
        /\ added' = added /\ src' = src
    BY <1>6 DEF DelFind
  <2>2. pc' = "copy" => sources'[idx'] = src'
    BY <1>6 DEF DelFind
  <2> QED
    BY <2>1, <2>2 DEF ListInv
<1>7. ASSUME DelCopy PROVE ListInv'
  <2>1. /\ Front' = added \ {src}
        /\ \A i, j \in 1 .. Len(sources') - 1 : sources'[i] = sources'[j] => i = j
        /\ sources'[Len(sources')] \in Front' \cup {src}
    BY <1>7, CopyFront
  <2>2. pc' = "load" /\ added' = added /\ src' = src
    BY <1>7 DEF DelCopy
  <2> QED
    BY <2>1, <2>2 DEF ListInv
<1>8. ASSUME DelLoad PROVE ListInv'
  BY <1>8 DEF DelLoad, ListInv, Front
<1>9. ASSUME DelStore PROVE ListInv'
  <2> DEFINE n == Len(sources)
  <2>1. /\ Front = added \ {src} /\ len = n - 1 /\ n \in Nat /\ n > 0
        /\ \A i, j \in 1 .. n - 1 : sources[i] = sources[j] => i = j
    BY <1>0, <1>9 DEF DelStore, ListInv, DelInv
  <2>2. pc' = "check" /\ added' = added \ {src} /\ sources' = SubSeq(sources, 1, n - 1)
    BY <1>9, <2>1 DEF DelStore
  <2>3. sources \in Seq(Sources)
    BY DEF TypeOK
  <2>4. \A i \in 1 .. n - 1 : sources[i] \in Sources
    BY <1>0, <2>3, ElementOfSeq
  <2>5. /\ sources' \in Seq(Sources) /\ Len(sources') = n - 1
        /\ \A i \in 1 .. n - 1 : sources'[i] = sources[i]
    BY <2>1, <2>2, <2>4, SubSeqProperties
  <2>6. DOMAIN sources' = 1 .. n - 1
    BY <2>5, LenProperties
  <2>7. Range(sources') = added'
    <3>1. Range(sources') = {sources'[i] : i \in 1 .. n - 1}
      BY <2>6 DEF Range
    <3>2. Range(sources') = Front
      BY <2>5, <3>1 DEF Front
    <3> QED
      BY <2>1, <2>2, <3>2
  <2>8. \A i, j \in DOMAIN sources' : sources'[i] = sources'[j] => i = j
    BY <2>1, <2>5, <2>6
  <2> QED
    BY <2>2, <2>7, <2>8 DEF ListInv
<1>10. CASE UNCHANGED vars
  BY <1>1, <1>10 DEF vars, pollVars
<1> QED
  BY <1>2, <1>3, <1>4, <1>5, <1>6, <1>7, <1>8, <1>9, <1>10 DEF Next, PollStep, DelSource

\* Whether or not sources are added during Poll: the types, delSource after a
\* closed source only, and each channel and what was returned from it in step.
THEOREM ChannelsInStep == Spec => []Inv1
<1>1. Init => Inv1
  BY InitInv1
<1>2. Inv1 /\ [Next]_vars => Inv1'
  BY NextType, NextChan DEF Inv1
<1> QED
  BY <1>1, <1>2, PTL DEF Spec

\* poller.go:54, also when sources are added during Poll: the events of a
\* source are returned in the order in which they were sent, and none between
\* them is missing.
THEOREM NeverReordered == Spec => []ReturnedInOrder
<1>1. Inv1 => ReturnedInOrder
  BY DEF Inv1, ChanInv, ReturnedInOrder
<1> QED
  BY <1>1, ChannelsInStep, PTL

\* The inductive invariant, when sources are added between Polls.
THEOREM Invariance == ASSUME ~AddDuringPoll PROVE Spec => []IInv
<1>1. Init => ListInv
  <2>1. ASSUME Init PROVE Range(sources) = {} /\ DOMAIN sources = {}
    BY <2>1, EmptySeq, LenProperties DEF Init, Range
  <2> QED
    BY <2>1 DEF Init, ListInv
<1>2. Inv1 /\ ListInv /\ [Next]_vars => ListInv'
  BY NextList
<1>3. Inv1 /\ ListInv => IInv
  BY DEF Inv1, IInv
<1> QED
  BY <1>1, <1>2, <1>3, ChannelsInStep, PTL DEF Spec

\* A sequence without repetition is as long as it has elements.
LEMMA Distinct ==
    ASSUME NEW S, NEW q \in Seq(S), \A i, j \in DOMAIN q : q[i] = q[j] => i = j
    PROVE  Len(q) = Cardinality(Range(q))
<1>1. Len(q) \in Nat /\ DOMAIN q = 1 .. Len(q) /\ q \in [1 .. Len(q) -> S]
  BY LenProperties
<1>2. Range(q) = {q[i] : i \in 1 .. Len(q)}
  BY <1>1 DEF Range
<1>3. q \in Bijection(1 .. Len(q), Range(q))
  BY <1>1, <1>2 DEF Bijection, Injection, Surjection, IsInjective
<1>4. ExistsBijection(1 .. Len(q), Range(q))
  BY <1>3 DEF ExistsBijection
<1> QED
  BY <1>1, <1>4, FS_CountingElements

\* poller.go:50, for sources that are added between Polls: those that were
\* added are in the list, once, but for those that delSource has taken out.
THEOREM ListIsRight == ASSUME ~AddDuringPoll PROVE Spec => []SourcesAsAdded
<1>1. IInv => SourcesAsAdded
  <2> SUFFICES ASSUME IInv, pc \notin Deleting
               PROVE  Range(sources) = added /\ Len(sources) = Cardinality(added)
    BY DEF SourcesAsAdded
  <2>1. Range(sources) = added /\ \A i, j \in DOMAIN sources : sources[i] = sources[j] => i = j
    BY DEF IInv, ListInv, Deleting
  <2>2. sources \in Seq(Sources)
    BY DEF IInv, TypeOK
  <2> QED
    BY <2>1, <2>2, Distinct
<1> QED
  BY <1>1, Invariance, PTL

\* A step that takes a source out of the list takes out one that is closed.
LEMMA RemovesClosed ==
    ASSUME IInv, [Next]_vars
    PROVE  \A s \in Range(sources) \ Range(sources') : closed[s]
<1> USE DEF Deleting
<1>0. /\ Len(sources) \in Nat /\ DOMAIN sources = 1 .. Len(sources)
      /\ sources \in Seq(Sources)
  BY LenProperties DEF IInv, TypeOK
<1>1. ASSUME Range(sources) \subseteq Range(sources')
      PROVE  \A s \in Range(sources) \ Range(sources') : closed[s]
  BY <1>1
<1>2. ASSUME NEW t \in Sources, Add(t) PROVE Range(sources) \subseteq Range(sources')
  BY <1>0, <1>2, AppendProperties, LenProperties DEF Add, Range
<1>3. ASSUME DelCopy PROVE \A s \in Range(sources) \ Range(sources') : closed[s]
  <2>1. Front' = added \ {src} /\ Range(sources) = added /\ closed[src]
    BY <1>3, CopyFront DEF IInv, ListInv, DelInv, DelCopy
  <2>2. sources' \in Seq(Sources) /\ Len(sources') = Len(sources)
    BY <1>3, CopyType DEF IInv
  <2>3. DOMAIN sources' = 1 .. Len(sources)
    BY <2>2, LenProperties
  <2>4. Front' \subseteq Range(sources')
    BY <1>0, <2>2, <2>3 DEF Front, Range
  <2> QED
    BY <2>1, <2>4
<1>4. ASSUME DelStore PROVE \A s \in Range(sources) \ Range(sources') : closed[s]
  <2>1. /\ len = Len(sources) - 1 /\ Len(sources) > 0 /\ closed[src]
        /\ sources[Len(sources)] \in Front \cup {src}
    BY <1>0, <1>4 DEF IInv, ListInv, DelInv, DelStore
  <2>2. sources' = SubSeq(sources, 1, Len(sources) - 1)
    BY <1>4, <2>1 DEF DelStore
  <2>3. \A i \in 1 .. Len(sources) - 1 : sources[i] \in Sources
    BY <1>0, ElementOfSeq
  <2>4. /\ sources' \in Seq(Sources) /\ Len(sources') = Len(sources) - 1
        /\ \A i \in 1 .. Len(sources) - 1 : sources'[i] = sources[i]
    BY <1>0, <2>1, <2>2, <2>3, SubSeqProperties
  <2>5. DOMAIN sources' = 1 .. Len(sources) - 1
    BY <2>4, LenProperties
  <2>6. Range(sources') = Front
    BY <2>4, <2>5 DEF Range, Front
  <2>7. Range(sources) \subseteq Front \cup {sources[Len(sources)]}
    BY <1>0 DEF Range, Front
  <2> QED
    BY <2>1, <2>6, <2>7
<1>5. ASSUME UNCHANGED sources
      PROVE  \A s \in Range(sources) \ Range(sources') : closed[s]
  BY <1>5
<1>6. ASSUME \/ \E s \in Sources : \/ Send(s) \/ CloseSource(s)
                                   \/ SelectEvent(s) \/ SelectClosed(s)
             \/ Poll \/ Expire \/ PollExpired \/ Snapshot \/ SelectExpired
             \/ DelFind \/ DelLoad \/ UNCHANGED vars
      PROVE  UNCHANGED sources
  BY <1>6 DEF Send, CloseSource, SelectEvent, SelectClosed, Poll, Expire, PollExpired,
     Snapshot, SelectExpired, DelFind, DelLoad, vars
<1> QED
  BY <1>1, <1>2, <1>3, <1>4, <1>5, <1>6 DEF Next, PollStep, DelSource

\* Only a source that is closed is ever taken out of the list, when sources are
\* added between Polls: what delSource moves is not lost on the way.
THEOREM OpenSourcesStay == ASSUME ~AddDuringPoll PROVE Spec => OnlyClosedRemoved
<1>1. IInv /\ [Next]_vars => [\A s \in Range(sources) \ Range(sources') : closed[s]]_vars
  BY RemovesClosed
<1> QED
  BY <1>1, Invariance, PTL DEF Spec, OnlyClosedRemoved
=============================================================================
