-------------------------- MODULE EventQueueProofs --------------------------
(***************************************************************************)
(* Theorems about EventQueue, for every number of events and every set of  *)
(* readers.  The invariant IInv of EventQueue is proved in layers: the     *)
(* types and the whereabouts of the procs first, then where the events     *)
(* are, then what Close has ended.                                         *)
(***************************************************************************)
EXTENDS EventQueue, FiniteSetTheorems, SequenceTheorems, TLAPS

Inv1 == TypeOK /\ ProcInv

\* The live procs are finitely many, so that Cardinality counts them.
LEMMA LiveFinite ==
    IsFiniteSet(Live) /\ Cardinality(Live) \in Nat
<1>1. IsFiniteSet(1 .. MaxPush)
  BY MaxPushAssumption, FS_Interval
<1>2. Live \subseteq 1 .. MaxPush
  BY DEF Live, Procs
<1> QED
  BY <1>1, <1>2, FS_Subset, FS_CardinalityType

\* At first there is no proc.
LEMMA InitInv1 == Init => Inv1
<1> SUFFICES ASSUME Init PROVE Inv1
  OBVIOUS
<1>1. TypeOK
  BY MaxPushAssumption DEF Init, TypeOK, PcState, CloserState, Events, Procs
<1>2. Live = {}
  BY DEF Init, Live
<1>3. closewait = Cardinality(Live)
  BY <1>2, FS_EmptySet DEF Init
<1>4. ProcInv
  BY <1>3 DEF Init, ProcInv, InHand, Procs
<1> QED
  BY <1>1, <1>4 DEF Inv1

\* Where a step leaves the procs: the cases that change closewait apart, a
\* step starts and ends no proc.
LEMMA NextInv1 == Inv1 /\ [Next]_vars => Inv1'
<1> SUFFICES ASSUME Inv1, [Next]_vars
             PROVE  Inv1'
  OBVIOUS
<1> USE DEF Inv1
<1>a. MaxPush \in Nat
  BY MaxPushAssumption
<1>b. \A i \in 1 .. Len(sendq) : sendq[i] \in Procs
  BY ElementOfSeq DEF TypeOK
<1>1. CASE Push
  <2>2. pushed + 1 \in Procs
    BY <1>1, <1>a DEF Push, TypeOK, Procs
  <2>1. TypeOK'
    <3>1. buf' \in Seq(Events)
      BY <1>1, <2>2, AppendProperties DEF Push, TypeOK, Procs, Events
    <3>2. pc' \in [Procs -> PcState] /\ closewait' \in Nat
      <4>1. CASE buf = <<>>
        BY <1>1, <4>1 DEF Push, TypeOK, PcState
      <4>2. CASE buf # <<>>
        BY <1>1, <4>2 DEF Push, TypeOK
      <4> QED
        BY <4>1, <4>2
    <3>3. pushed' \in 0 .. MaxPush
      BY <1>1, <1>a DEF Push, TypeOK
    <3> QED
      BY <1>1, <3>1, <3>2, <3>3 DEF Push, TypeOK, closeVars, readVars
  <2>3. closewait' = Cardinality(Live')
    <3>1. CASE buf = <<>>
      <4>1. Live' = Live \cup {pushed + 1}
        BY <1>1, <2>2, <3>1 DEF Push, TypeOK, Live
      <4>2. pushed + 1 \notin Live
        BY <2>2, <1>1 DEF ProcInv, Live, TypeOK, Push
      <4> QED
        BY <1>1, <3>1, <4>1, <4>2, LiveFinite, FS_AddElement DEF Push, ProcInv
    <3>2. CASE buf # <<>>
      BY <1>1, <3>2 DEF Push, Live, ProcInv
    <3> QED
      BY <3>1, <3>2
  <2>4. ProcInv'
    <3>1. \A p \in Procs : p > pushed' => pc'[p] = "none"
      BY <1>1, <1>a DEF Push, TypeOK, ProcInv, Procs
    <3>a. pc[pushed + 1] = "none"
      BY <2>2 DEF TypeOK, ProcInv
    <3>b. \A p \in Procs : pc'[p] = pc[p] \/ (pc'[p] = "lock" /\ p = pushed + 1)
      BY <1>1 DEF Push, TypeOK
    <3>2. InHand' = InHand
      BY <3>a, <3>b DEF InHand
    <3>4. \A i \in 1 .. Len(sendq) : pc'[sendq[i]] = "parked"
      BY <1>b, <3>a, <3>b DEF ProcInv
    <3> QED
      BY <1>1, <2>3, <3>1, <3>2, <3>4 DEF Push, ProcInv
  <2> QED
    BY <2>1, <2>4
<1>2. CASE ClosePurge
  <2>1. TypeOK'
    <3>1. buf' \in Seq(Events) /\ sendq' \in Seq(Procs)
      BY <1>2, EmptySeq DEF ClosePurge
    <3>2. pc' \in [Procs -> PcState] /\ held' \in [Procs -> 0 .. MaxPush]
      BY <1>2, <1>a DEF ClosePurge, TypeOK, PcState
    <3> QED
      BY <1>2, <3>1, <3>2 DEF ClosePurge, TypeOK, readVars, CloserState
  <2>2. Live' = Live
    BY <1>2 DEF ClosePurge, TypeOK, Live
  <2>3. \A p \in Procs : held'[p] # 0 <=> p \in InHand'
    BY <1>2 DEF ClosePurge, TypeOK, ProcInv, InHand
  <2>4. ProcInv'
    BY <1>2, <2>2, <2>3 DEF ClosePurge, ProcInv, TypeOK
  <2> QED
    BY <2>1, <2>4
<1>3. CASE CloseWait
  BY <1>3 DEF CloseWait, TypeOK, ProcInv, CloserState, Live, InHand,
              queueVars, procVars, readVars
<1>4. CASE CloseOut
  BY <1>4 DEF CloseOut, TypeOK, ProcInv, CloserState, Live, InHand,
              queueVars, procVars
<1>5. ASSUME NEW p \in Procs, Take(p) PROVE Inv1'
  <2>1. Head(buf) \in Events /\ Tail(buf) \in Seq(Events)
    BY <1>5, HeadTailProperties DEF Take, TypeOK
  <2>2. TypeOK'
    BY <1>5, <1>a, <2>1 DEF Take, TypeOK, closeVars, readVars, PcState, Procs, Events
  <2>3. Live' = Live
    BY <1>5 DEF Take, TypeOK, Live
  <2>4. \A q \in Procs : held'[q] # 0 <=> q \in InHand'
    BY <1>5, <1>a, <2>1 DEF Take, TypeOK, ProcInv, InHand, Events
  <2>5. \A i \in 1 .. Len(sendq) : pc'[sendq[i]] = "parked"
    BY <1>5 DEF Take, TypeOK, ProcInv
  <2>6. \A q \in Procs : q > pushed' => pc'[q] = "none"
    BY <1>5 DEF Take, TypeOK, ProcInv
  <2>7. ProcInv'
    BY <1>5, <2>3, <2>4, <2>5, <2>6 DEF Take, ProcInv
  <2> QED
    BY <2>2, <2>7
<1>6. ASSUME NEW p \in Procs, Finish(p) PROVE Inv1'
  <2>1. TypeOK'
    BY <1>6 DEF Finish, TypeOK, queueVars, closeVars, readVars, PcState
  <2>2. Live' = Live /\ InHand' = InHand
    BY <1>6 DEF Finish, TypeOK, Live, InHand
  <2>3. \A i \in 1 .. Len(sendq) : pc'[sendq[i]] = "parked"
    BY <1>6 DEF Finish, TypeOK, ProcInv
  <2>4. \A q \in Procs : q > pushed' => pc'[q] = "none"
    BY <1>6 DEF Finish, TypeOK, ProcInv, queueVars
  <2>5. ProcInv'
    BY <1>6, <2>2, <2>3, <2>4 DEF Finish, ProcInv
  <2> QED
    BY <2>1, <2>5
<1>7. ASSUME NEW p \in Procs, Done(p) PROVE Inv1'
  <2>1. Live' = Live \ {p} /\ p \in Live /\ InHand' = InHand
    BY <1>7 DEF Done, TypeOK, Live, InHand
  <2>2. closewait' = Cardinality(Live')
    BY <1>7, <2>1, LiveFinite, FS_RemoveElement DEF Done, ProcInv
  <2>3. closewait' \in Nat
    <3>1. IsFiniteSet(Live')
      BY <2>1, LiveFinite, FS_RemoveElement
    <3> QED
      BY <2>2, <3>1, FS_CardinalityType
  <2>4. TypeOK'
    BY <1>7, <2>3 DEF Done, TypeOK, queueVars, closeVars, readVars, PcState
  <2>5. \A i \in 1 .. Len(sendq) : pc'[sendq[i]] = "parked"
    BY <1>7 DEF Done, TypeOK, ProcInv
  <2>6. \A q \in Procs : q > pushed' => pc'[q] = "none"
    BY <1>7 DEF Done, TypeOK, ProcInv, queueVars
  <2>7. ProcInv'
    BY <1>7, <2>1, <2>2, <2>5, <2>6 DEF Done, ProcInv
  <2> QED
    BY <2>4, <2>7
<1>8. ASSUME NEW p \in Procs, SelectClose(p) PROVE Inv1'
  <2>1. TypeOK'
    BY <1>8, <1>a DEF SelectClose, TypeOK, queueVars, closeVars, readVars, PcState
  <2>2. Live' = Live
    BY <1>8 DEF SelectClose, TypeOK, Live
  <2>3. \A q \in Procs : held'[q] # 0 <=> q \in InHand'
    BY <1>8 DEF SelectClose, TypeOK, ProcInv, InHand
  <2>4. \A i \in 1 .. Len(sendq) : pc'[sendq[i]] = "parked"
    BY <1>8 DEF SelectClose, TypeOK, ProcInv
  <2>5. \A q \in Procs : q > pushed' => pc'[q] = "none"
    BY <1>8 DEF SelectClose, TypeOK, ProcInv, queueVars
  <2>6. ProcInv'
    BY <1>8, <2>2, <2>3, <2>4, <2>5 DEF SelectClose, ProcInv
  <2> QED
    BY <2>1, <2>6
<1>9. ASSUME NEW p \in Procs, NEW r \in Readers, SelectSend(p, r) PROVE Inv1'
  <2>1. held[p] \in Events
    BY <1>9, <1>a DEF SelectSend, TypeOK, ProcInv, InHand, Events
  <2>2. TypeOK'
    <3>1. received' \in Seq(Events)
      BY <1>9, <2>1, AppendProperties DEF SelectSend, TypeOK
    <3>2. rpc' \in [Readers -> {"idle", "waiting", "eof"}]
      BY <1>9 DEF SelectSend, TypeOK
    <3> QED
      BY <1>9, <1>a, <3>1, <3>2 DEF SelectSend, TypeOK, queueVars, closeVars, PcState
  <2>3. Live' = Live
    BY <1>9 DEF SelectSend, TypeOK, Live
  <2>4. \A q \in Procs : held'[q] # 0 <=> q \in InHand'
    BY <1>9 DEF SelectSend, TypeOK, ProcInv, InHand
  <2>5. \A i \in 1 .. Len(sendq) : pc'[sendq[i]] = "parked"
    BY <1>9 DEF SelectSend, TypeOK, ProcInv
  <2>6. \A q \in Procs : q > pushed' => pc'[q] = "none"
    BY <1>9 DEF SelectSend, TypeOK, ProcInv, queueVars
  <2>7. ProcInv'
    BY <1>9, <2>3, <2>4, <2>5, <2>6 DEF SelectSend, ProcInv
  <2> QED
    BY <2>2, <2>7
<1>10. ASSUME NEW p \in Procs, SelectPark(p) PROVE Inv1'
  <2>1. TypeOK'
    BY <1>10 DEF SelectPark, TypeOK, queueVars, closeVars, readVars, PcState
  <2>2. Live' = Live /\ InHand' = InHand
    BY <1>10 DEF SelectPark, TypeOK, Live, InHand
  <2>3. \A i \in 1 .. Len(sendq) : sendq[i] # p
    BY <1>10 DEF SelectPark, TypeOK, ProcInv
  <2>4. /\ Len(sendq') = Len(sendq) + 1
        /\ \A i \in 1 .. Len(sendq) : sendq'[i] = sendq[i]
        /\ sendq'[Len(sendq) + 1] = p
    BY <1>10, AppendProperties DEF SelectPark, TypeOK
  <2>5. \A i \in 1 .. Len(sendq') : pc'[sendq'[i]] = "parked"
    BY <1>10, <1>b, <2>3, <2>4 DEF SelectPark, TypeOK, ProcInv
  <2>6. \A i, j \in 1 .. Len(sendq') : sendq'[i] = sendq'[j] => i = j
    <3>1. Len(sendq) \in Nat
      BY LenProperties DEF TypeOK
    <3>2. \A i \in 1 .. Len(sendq') : i \in 1 .. Len(sendq) \/ i = Len(sendq) + 1
      BY <2>4, <3>1
    <3> QED
      BY <2>3, <2>4, <3>1, <3>2 DEF ProcInv
  <2>7. \A q \in Procs : q > pushed' => pc'[q] = "none"
    BY <1>10 DEF SelectPark, TypeOK, ProcInv, queueVars
  <2>8. ProcInv'
    BY <1>10, <2>2, <2>5, <2>6, <2>7 DEF SelectPark, ProcInv
  <2> QED
    BY <2>1, <2>8
<1>11. ASSUME NEW r \in Readers, ReceiveSent(r) PROVE Inv1'
  <2> DEFINE p == Head(sendq)
  <2>1. /\ p \in Procs
        /\ p = sendq[1]
        /\ 1 \in 1 .. Len(sendq)
        /\ Tail(sendq) \in Seq(Procs)
        /\ Len(Tail(sendq)) = Len(sendq) - 1
        /\ \A i \in 1 .. Len(Tail(sendq)) : Tail(sendq)[i] = sendq[i + 1]
    BY <1>11, HeadTailProperties, EmptySeq DEF ReceiveSent, TypeOK
  <2>2. pc[p] = "parked" /\ held[p] \in Events
    BY <2>1, <1>a DEF ProcInv, TypeOK, InHand, Events
  <2> HIDE DEF p
  <2>3. TypeOK'
    <3>1. received' \in Seq(Events)
      BY <1>11, <2>2, AppendProperties DEF ReceiveSent, TypeOK, p
    <3>2. sendq' \in Seq(Procs)
      BY <1>11, <2>1 DEF ReceiveSent
    <3> QED
      BY <1>11, <1>a, <2>1, <3>1, <3>2
         DEF ReceiveSent, TypeOK, queueVars, closeVars, PcState, p
  <2>4. Live' = Live
    BY <1>11, <2>1, <2>2 DEF ReceiveSent, TypeOK, Live, p
  <2>5. \A q \in Procs : held'[q] # 0 <=> q \in InHand'
    BY <1>11, <2>1, <2>2 DEF ReceiveSent, TypeOK, ProcInv, InHand, p
  <2>6. \A i \in 1 .. Len(Tail(sendq)) : Tail(sendq)[i] # p
    BY <2>1 DEF ProcInv, TypeOK
  <2>7. \A i \in 1 .. Len(sendq') : pc'[sendq'[i]] = "parked"
    BY <1>11, <2>1, <2>6 DEF ReceiveSent, TypeOK, ProcInv, p
  <2>8. \A i, j \in 1 .. Len(sendq') : sendq'[i] = sendq'[j] => i = j
    BY <1>11, <2>1 DEF ReceiveSent, ProcInv, TypeOK
  <2>9. \A q \in Procs : q > pushed' => pc'[q] = "none"
    BY <1>11, <2>1, <2>2 DEF ReceiveSent, TypeOK, ProcInv, queueVars, p
  <2>10. ProcInv'
    BY <1>11, <2>4, <2>5, <2>7, <2>8, <2>9 DEF ReceiveSent, ProcInv
  <2> QED
    BY <2>3, <2>10
<1>12. ASSUME NEW r \in Readers, ReceiveWait(r) \/ ReceiveEOF(r) \/ Cancel(r)
       PROVE  Inv1'
  <2>1. UNCHANGED <<queueVars, procVars, closeVars, received>>
    BY <1>12 DEF ReceiveWait, ReceiveEOF, Cancel
  <2>2. rpc' \in [Readers -> {"idle", "waiting", "eof"}]
    BY <1>12 DEF ReceiveWait, ReceiveEOF, Cancel, TypeOK
  <2>3. Live' = Live /\ InHand' = InHand
    BY <2>1 DEF Live, InHand, procVars
  <2> QED
    BY <2>1, <2>2, <2>3 DEF TypeOK, ProcInv, queueVars, procVars, closeVars
<1>13. CASE UNCHANGED vars
  BY <1>13 DEF vars, queueVars, procVars, closeVars, readVars,
               TypeOK, ProcInv, Live, InHand
<1> QED
  BY <1>1, <1>2, <1>3, <1>4, <1>5, <1>6, <1>7, <1>8, <1>9, <1>10, <1>11,
     <1>12, <1>13 DEF Next, CloserStep, ProcStep, Receive

\* Every variable stays in its type; in particular the counter of the
\* WaitGroup never becomes negative, on which Go would panic.
THEOREM TypeCorrect == Spec => []TypeOK
<1>1. Init => Inv1
  BY InitInv1
<1>2. Inv1 /\ [Next]_vars => Inv1'
  BY NextInv1
<1>3. Inv1 => TypeOK
  BY DEF Inv1
<1> QED
  BY <1>1, <1>2, <1>3, PTL DEF Spec
-----------------------------------------------------------------------------
(* Where the events are *)

\* EventInv speaks of seven pieces of state only, and of closer only as to
\* whether it is "open".
LEMMA EventInvStable ==
    ASSUME EventInv, UNCHANGED <<buf, pushed, held, received>>,
           InHand' = InHand, closer' = "open" => closer = "open"
    PROVE  EventInv'
BY DEF EventInv, Taken

\* A value that leaves its proc without reaching a reader leaves the rest of
\* EventInv alone; once Close has started nobody misses it.
LEMMA EventInvDrop ==
    ASSUME Inv1, EventInv, NEW n \in Nat, pushed' - Len(buf') = n, Taken <= n,
           pushed' = pushed, Len(buf') <= pushed, UNCHANGED received,
           \A i \in 1 .. Len(buf') : buf'[i] = n + i,
           InHand' \subseteq InHand,
           \A p \in Procs : held'[p] = held[p] \/ held'[p] = 0,
           \A p \in InHand' : held'[p] = held[p],
           closer' # "open"
    PROVE  EventInv'
<1>1. Taken \in Nat /\ Len(buf) \in Nat
  BY LenProperties DEF Taken, EventInv, Inv1, TypeOK
<1>2. \A p \in Procs : held'[p] <= n
  <2>1. \A p \in Procs : held[p] \in Nat
    BY MaxPushAssumption DEF Inv1, TypeOK
  <2>2. \A p \in Procs : held[p] <= Taken
    BY DEF EventInv
  <2> QED
    BY <1>1, <2>1, <2>2
<1>3. \A i \in 1 .. Len(received) : received[i] <= n
  <2>1. \A i \in 1 .. Len(received) : received[i] \in Nat
    BY MaxPushAssumption, ElementOfSeq DEF Inv1, TypeOK, Events
  <2>2. \A i \in 1 .. Len(received) : received[i] <= Taken
    BY DEF EventInv
  <2> QED
    BY <1>1, <2>1, <2>2
<1>4. Taken' = n
  BY DEF Taken
<1> QED
  BY <1>2, <1>3, <1>4 DEF EventInv

\* A value moves from the hands of a proc to the output.
LEMMA EventInvHandoff ==
    ASSUME Inv1, EventInv, NEW p \in InHand,
           received' = Append(received, held[p]),
           InHand' = InHand \ {p},
           held' = [held EXCEPT ![p] = 0],
           UNCHANGED <<buf, pushed, closer>>
    PROVE  EventInv'
<1> USE DEF Inv1
<1>1. p \in Procs /\ held[p] \in Events /\ held[p] <= Taken
  BY MaxPushAssumption DEF InHand, TypeOK, ProcInv, EventInv, Events
<1>2. /\ Len(received) \in Nat
      /\ Len(received') = Len(received) + 1
      /\ \A i \in 1 .. Len(received) : received'[i] = received[i]
      /\ received'[Len(received) + 1] = held[p]
  BY <1>1, LenProperties, AppendProperties DEF TypeOK
<1>3. \A i \in 1 .. Len(received') : i \in 1 .. Len(received) \/ i = Len(received) + 1
  BY <1>2
<1>4. Taken' = Taken /\ Taken \in Nat
  BY LenProperties DEF Taken, TypeOK, EventInv
<1>5. \A q \in InHand' : held'[q] = held[q] /\ q \in InHand /\ q # p
  BY DEF TypeOK, InHand
<1>6. \A q \in Procs : held'[q] <= Taken'
  BY <1>1, <1>4 DEF TypeOK, EventInv
<1>7. \A i \in 1 .. Len(received') : received'[i] <= Taken'
  BY <1>1, <1>2, <1>3, <1>4 DEF EventInv
<1>8. \A q, q2 \in InHand' : held'[q] = held'[q2] => q = q2
  BY <1>5 DEF EventInv
<1>9. \A i, j \in 1 .. Len(received') : received'[i] = received'[j] => i = j
  BY <1>2, <1>3 DEF EventInv
<1>10. \A q \in InHand' : \A i \in 1 .. Len(received') : held'[q] # received'[i]
  BY <1>2, <1>3, <1>5 DEF EventInv
<1>11. ASSUME closer' = "open", NEW v \in 1 .. Taken'
       PROVE  \/ \E q \in InHand' : held'[q] = v
              \/ \E i \in 1 .. Len(received') : received'[i] = v
  <2>1. CASE v = held[p]
    BY <1>2, <2>1
  <2>2. CASE \E q \in InHand : held[q] = v /\ q # p
    BY <1>5, <2>2 DEF TypeOK, InHand
  <2>3. CASE \E i \in 1 .. Len(received) : received[i] = v
    BY <1>2, <2>3
  <2> QED
    BY <1>4, <1>11, <2>1, <2>2, <2>3 DEF EventInv
<1> QED
  BY <1>4, <1>6, <1>7, <1>8, <1>9, <1>10, <1>11 DEF EventInv

Inv2 == Inv1 /\ EventInv /\ CloseInv

\* At first no event is anywhere.
LEMMA InitInv2 == Init => EventInv /\ CloseInv
<1> SUFFICES ASSUME Init PROVE EventInv /\ CloseInv
  OBVIOUS
<1>1. EventInv
  BY MaxPushAssumption DEF Init, EventInv, Taken, InHand
<1>2. CloseInv
  BY DEF Init, CloseInv, NoSendOnClosedChannel, NoLostWakeup
<1> QED
  BY <1>1, <1>2

\* Each step leaves each event at one place, and the buffer an interval.
LEMMA NextEventInv == Inv2 /\ [Next]_vars => EventInv'
<1> SUFFICES ASSUME Inv2, [Next]_vars
             PROVE  EventInv'
  OBVIOUS
<1> USE DEF Inv2, Inv1
<1>a. MaxPush \in Nat
  BY MaxPushAssumption
<1>b. /\ Len(buf) \in Nat
      /\ Len(received) \in Nat
      /\ Taken \in Nat
      /\ pushed \in Nat
  BY <1>a, LenProperties DEF TypeOK, EventInv, Taken
<1>1. CASE Push
  <2>1. pushed + 1 \in Procs /\ pc[pushed + 1] = "none"
    BY <1>1, <1>a DEF Push, TypeOK, Procs, ProcInv
  <2>2. \A p \in Procs : pc'[p] = pc[p] \/ (pc'[p] = "lock" /\ p = pushed + 1)
    BY <1>1 DEF Push, TypeOK
  <2>3. InHand' = InHand
    BY <2>1, <2>2 DEF InHand
  <2>4. /\ Len(buf') = Len(buf) + 1
        /\ \A i \in 1 .. Len(buf) : buf'[i] = buf[i]
        /\ buf'[Len(buf) + 1] = pushed + 1
    BY <1>1, <2>1, AppendProperties DEF Push, TypeOK, Procs, Events
  <2>5. Taken' = Taken /\ pushed' = pushed + 1
    BY <1>1, <1>b, <2>4 DEF Push, Taken
  <2>6. \A i \in 1 .. Len(buf') : i \in 1 .. Len(buf) \/ i = Len(buf) + 1
    BY <1>b, <2>4
  <2>7. \A i \in 1 .. Len(buf') : buf'[i] = Taken' + i
    <3>1. \A i \in 1 .. Len(buf) : buf[i] = Taken + i
      BY DEF EventInv
    <3>2. pushed + 1 = Taken + (Len(buf) + 1)
      BY <1>b DEF Taken
    <3> QED
      BY <2>4, <2>5, <2>6, <3>1, <3>2
  <2>8. UNCHANGED <<held, received, closer>>
    BY <1>1 DEF Push, closeVars, readVars
  <2> QED
    BY <1>b, <2>3, <2>4, <2>5, <2>7, <2>8 DEF EventInv
<1>2. CASE ClosePurge
  <2>1. buf' = <<>> /\ Len(buf') = 0 /\ pushed' = pushed /\ received' = received
    BY <1>2, EmptySeq DEF ClosePurge, readVars
  <2>2. Taken <= pushed /\ pushed' - Len(buf') = pushed
    BY <1>b, <2>1 DEF Taken
  <2>3. \A p \in Procs : held'[p] = held[p] \/ held'[p] = 0
    BY <1>2 DEF ClosePurge
  <2>4. InHand' \subseteq InHand /\ \A p \in InHand' : held'[p] = held[p]
    BY <1>2 DEF ClosePurge, InHand
  <2>5. closer' # "open"
    BY <1>2 DEF ClosePurge
  <2> QED
    BY <1>b, <2>1, <2>2, <2>3, <2>4, <2>5, EventInvDrop
<1>3. CASE CloserStep
  BY <1>3, EventInvStable
     DEF CloserStep, CloseWait, CloseOut, queueVars, procVars, readVars, InHand
<1>4. ASSUME NEW p \in Procs, Take(p) PROVE EventInv'
  <2>1. /\ Head(buf) = buf[1]
        /\ 1 \in 1 .. Len(buf)
        /\ Len(Tail(buf)) = Len(buf) - 1
        /\ \A i \in 1 .. Len(Tail(buf)) : Tail(buf)[i] = buf[i + 1]
    BY <1>4, HeadTailProperties, EmptySeq DEF Take, TypeOK
  <2>2. /\ UNCHANGED <<pushed, received, closer>>
        /\ buf' = Tail(buf)
        /\ p \notin InHand
        /\ InHand' = InHand \cup {p}
    BY <1>4 DEF Take, closeVars, readVars, InHand, TypeOK
  <2>3. Taken' = Taken + 1 /\ buf[1] = Taken + 1
    <3>1. buf[1] = Taken + 1
      BY <2>1 DEF EventInv
    <3>2. Taken' = pushed - (Len(buf) - 1)
      BY <2>1, <2>2 DEF Taken
    <3> QED
      BY <1>b, <3>1, <3>2 DEF Taken
  <2>4. held'[p] = Taken' /\ \A q \in Procs \ {p} : held'[q] = held[q]
    BY <1>4, <2>1, <2>3 DEF Take, TypeOK
  <2>5. \A i \in 1 .. Len(buf') : buf'[i] = Taken' + i
    BY <1>b, <2>1, <2>2, <2>3 DEF EventInv
  <2>6. \A q \in Procs : held[q] \in Nat /\ held[q] < Taken'
    BY <1>b, <2>3 DEF EventInv, TypeOK
  <2>7. \A i \in 1 .. Len(received) : received[i] \in Nat /\ received[i] < Taken'
    <3>1. \A i \in 1 .. Len(received) : received[i] \in Nat
      BY <1>a, ElementOfSeq DEF TypeOK, Events
    <3>2. \A i \in 1 .. Len(received) : received[i] <= Taken
      BY DEF EventInv
    <3> QED
      BY <1>b, <2>3, <3>1, <3>2
  <2>8. \A q \in Procs : held'[q] <= Taken'
    BY <1>b, <2>3, <2>4, <2>6
  <2>9. \A q, q2 \in InHand' : held'[q] = held'[q2] => q = q2
    BY <2>2, <2>4, <2>6 DEF EventInv, InHand
  <2>10. \A q \in InHand' : \A i \in 1 .. Len(received') : held'[q] # received'[i]
    BY <2>2, <2>4, <2>7 DEF EventInv, InHand
  <2>11. ASSUME closer' = "open", NEW v \in 1 .. Taken'
         PROVE  \/ \E q \in InHand' : held'[q] = v
                \/ \E i \in 1 .. Len(received') : received'[i] = v
    <3>1. CASE v = Taken'
      BY <2>2, <2>4, <3>1
    <3>2. CASE v \in 1 .. Taken
      BY <2>2, <2>4, <2>11, <3>2 DEF EventInv, InHand
    <3> QED
      BY <1>b, <2>3, <3>1, <3>2
  <2>12. Len(buf') <= pushed'
    BY <1>b, <2>1, <2>2 DEF EventInv
  <2>13. \A i \in 1 .. Len(received') : received'[i] <= Taken'
    BY <1>b, <2>2, <2>3, <2>7
  <2>14. \A i, j \in 1 .. Len(received') : received'[i] = received'[j] => i = j
    BY <2>2 DEF EventInv
  <2> QED
    BY <2>5, <2>8, <2>9, <2>10, <2>11, <2>12, <2>13, <2>14 DEF EventInv
<1>5. ASSUME NEW p \in Procs, Finish(p) \/ Done(p) \/ SelectPark(p) PROVE EventInv'
  <2>1. InHand' = InHand
    BY <1>5 DEF Finish, Done, SelectPark, InHand, TypeOK
  <2> QED
    BY <1>5, <2>1, EventInvStable
       DEF Finish, Done, SelectPark, queueVars, closeVars, readVars
<1>6. ASSUME NEW p \in Procs, SelectClose(p) PROVE EventInv'
  <2>1. /\ UNCHANGED <<buf, pushed, received, closer>>
        /\ held' = [held EXCEPT ![p] = 0]
        /\ closer # "open"
    BY <1>6 DEF SelectClose, queueVars, closeVars, readVars, CloseInv
  <2>2. \A q \in Procs : held'[q] = held[q] \/ held'[q] = 0
    BY <2>1 DEF TypeOK
  <2>3. InHand' \subseteq InHand /\ \A q \in InHand' : held'[q] = held[q]
    BY <1>6 DEF SelectClose, InHand, TypeOK
  <2>4. pushed' - Len(buf') = Taken /\ Taken <= Taken
    BY <1>b, <2>1 DEF Taken
  <2>5. Len(buf') <= pushed /\ \A i \in 1 .. Len(buf') : buf'[i] = Taken + i
    BY <2>1 DEF EventInv
  <2> QED
    BY <1>b, <2>1, <2>2, <2>3, <2>4, <2>5, EventInvDrop
<1>7. ASSUME NEW p \in Procs, NEW r \in Readers, SelectSend(p, r) PROVE EventInv'
  <2>1. p \in InHand /\ InHand' = InHand \ {p}
    BY <1>7 DEF SelectSend, InHand, TypeOK
  <2> QED
    BY <1>7, <2>1, EventInvHandoff DEF SelectSend, queueVars, closeVars
<1>8. ASSUME NEW r \in Readers, ReceiveSent(r) PROVE EventInv'
  <2> DEFINE p == Head(sendq)
  <2>1. p \in Procs /\ p = sendq[1] /\ 1 \in 1 .. Len(sendq)
    BY <1>8, HeadTailProperties, EmptySeq DEF ReceiveSent, TypeOK
  <2>2. pc[p] = "parked"
    BY <2>1 DEF ProcInv
  <2> HIDE DEF p
  <2>3. p \in InHand /\ InHand' = InHand \ {p}
    BY <1>8, <2>1, <2>2 DEF ReceiveSent, InHand, TypeOK, p
  <2> QED
    BY <1>8, <2>3, EventInvHandoff DEF ReceiveSent, queueVars, closeVars, p
<1>9. ASSUME NEW r \in Readers, ReceiveWait(r) \/ ReceiveEOF(r) \/ Cancel(r)
      PROVE  EventInv'
  <2>1. UNCHANGED <<queueVars, procVars, closeVars, received>>
    BY <1>9 DEF ReceiveWait, ReceiveEOF, Cancel
  <2> QED
    BY <2>1, EventInvStable DEF queueVars, procVars, closeVars, InHand
<1>10. CASE UNCHANGED vars
  BY <1>10, EventInvStable
     DEF vars, queueVars, procVars, closeVars, readVars, InHand
<1> QED
  BY <1>1, <1>2, <1>3, <1>4, <1>5, <1>6, <1>7, <1>8, <1>9, <1>10
     DEF Next, ProcStep, Receive
-----------------------------------------------------------------------------
(* What Close has ended *)

\* Each step leaves the events in the buffer with a proc, and Close in order.
LEMMA NextCloseInv == Inv2 /\ [Next]_vars => CloseInv'
<1> SUFFICES ASSUME Inv2, [Next]_vars
             PROVE  CloseInv'
  OBVIOUS
<1> USE DEF Inv2, Inv1
<1>1. CASE Push
  <2>1. pushed + 1 \in Procs
    BY <1>1, MaxPushAssumption DEF Push, TypeOK, Procs
  <2>2. closer = "open" /\ UNCHANGED closeVars
    BY <1>1 DEF Push
  <2>3. NoLostWakeup'
    <3>1. CASE buf = <<>>
      <4>1. pc'[pushed + 1] = "lock"
        BY <1>1, <2>1, <3>1 DEF Push, TypeOK
      <4> QED
        BY <2>1, <4>1 DEF NoLostWakeup
    <3>2. CASE buf # <<>>
      BY <1>1, <3>2 DEF Push, CloseInv, NoLostWakeup
    <3> QED
      BY <3>1, <3>2
  <2> QED
    BY <2>2, <2>3 DEF CloseInv, NoSendOnClosedChannel, closeVars
<1>2. CASE ClosePurge
  BY <1>2 DEF ClosePurge, CloseInv, NoSendOnClosedChannel, NoLostWakeup
<1>3. CASE CloseWait
  <2>1. Cardinality(Live) = 0
    BY <1>3 DEF CloseWait, ProcInv
  <2>2. Live = {}
    BY <2>1, LiveFinite, FS_EmptySet
  <2>3. Live' = Live
    BY <1>3 DEF CloseWait, procVars, Live
  <2> QED
    BY <1>3, <2>2, <2>3 DEF CloseWait, CloseInv, NoSendOnClosedChannel,
       NoLostWakeup, queueVars, procVars
<1>4. CASE CloseOut
  <2>1. Live' = Live
    BY <1>4 DEF CloseOut, procVars, Live
  <2> QED
    BY <1>4, <2>1 DEF CloseOut, CloseInv, NoSendOnClosedChannel,
       NoLostWakeup, queueVars, procVars
<1>5. ASSUME NEW p \in Live, UNCHANGED closeVars,
             closer # "open" => buf' = <<>> /\ sendq' = <<>>,
             NoLostWakeup'
      PROVE  CloseInv'
  \* A proc moves: then Close still waits for it.
  BY <1>5 DEF CloseInv, NoSendOnClosedChannel, closeVars
<1>6. ASSUME NEW p \in Procs, Take(p) PROVE CloseInv'
  <2>1. p \in Live /\ pc'[p] = "select"
    BY <1>6 DEF Take, Live, TypeOK
  <2> QED
    BY <1>5, <1>6, <2>1 DEF Take, CloseInv, NoLostWakeup
<1>7. ASSUME NEW p \in Procs, Finish(p) PROVE CloseInv'
  <2>1. p \in Live
    BY <1>7 DEF Finish, Live
  <2> QED
    BY <1>5, <1>7, <2>1 DEF Finish, CloseInv, NoLostWakeup, queueVars
<1>8. ASSUME NEW p \in Procs, Done(p) PROVE CloseInv'
  <2>1. p \in Live /\ \A q \in Procs : q # p => pc'[q] = pc[q]
    BY <1>8 DEF Done, Live, TypeOK
  <2>2. NoLostWakeup'
    BY <1>8, <2>1 DEF Done, CloseInv, NoLostWakeup, queueVars
  <2> QED
    BY <1>5, <1>8, <2>1, <2>2 DEF Done, CloseInv, queueVars
<1>9. ASSUME NEW p \in Procs, SelectClose(p) PROVE CloseInv'
  <2>1. p \in Live /\ pc'[p] = "lock"
    BY <1>9 DEF SelectClose, Live, TypeOK
  <2> QED
    BY <1>5, <1>9, <2>1 DEF SelectClose, CloseInv, NoLostWakeup, queueVars
<1>10. ASSUME NEW p \in Procs, NEW r \in Readers, SelectSend(p, r) PROVE CloseInv'
  <2>1. p \in Live /\ pc'[p] = "lock"
    BY <1>10 DEF SelectSend, Live, TypeOK
  <2> QED
    BY <1>5, <1>10, <2>1 DEF SelectSend, CloseInv, NoLostWakeup, queueVars
<1>11. ASSUME NEW p \in Procs, SelectPark(p) PROVE CloseInv'
  <2>1. p \in Live /\ pc'[p] = "parked"
    BY <1>11 DEF SelectPark, Live, TypeOK
  <2> QED
    BY <1>5, <1>11, <2>1 DEF SelectPark, CloseInv, NoLostWakeup, queueVars
<1>12. ASSUME NEW r \in Readers, ReceiveSent(r) PROVE CloseInv'
  <2> DEFINE p == Head(sendq)
  <2>1. p \in Procs /\ p = sendq[1] /\ 1 \in 1 .. Len(sendq)
    BY <1>12, HeadTailProperties, EmptySeq DEF ReceiveSent, TypeOK
  <2>2. p \in Live
    BY <2>1 DEF ProcInv, Live
  <2> HIDE DEF p
  <2>3. pc'[p] = "lock"
    BY <1>12, <2>1 DEF ReceiveSent, TypeOK, p
  <2>4. closer = "open"
    BY <1>12 DEF ReceiveSent, CloseInv
  <2>5. NoLostWakeup'
    BY <2>1, <2>3 DEF NoLostWakeup
  <2> QED
    BY <1>5, <1>12, <2>2, <2>4, <2>5 DEF ReceiveSent
<1>13. ASSUME NEW r \in Readers, ReceiveWait(r) \/ ReceiveEOF(r) \/ Cancel(r)
       PROVE  CloseInv'
  <2>1. UNCHANGED <<queueVars, procVars, closeVars>>
    BY <1>13 DEF ReceiveWait, ReceiveEOF, Cancel
  <2> QED
    BY <2>1 DEF CloseInv, NoSendOnClosedChannel, NoLostWakeup, Live,
       queueVars, procVars, closeVars
<1>14. CASE UNCHANGED vars
  BY <1>14 DEF CloseInv, NoSendOnClosedChannel, NoLostWakeup, Live,
     vars, queueVars, procVars, closeVars
<1> QED
  BY <1>1, <1>2, <1>3, <1>4, <1>6, <1>7, <1>8, <1>9, <1>10, <1>11, <1>12,
     <1>13, <1>14 DEF Next, CloserStep, ProcStep, Receive

\* The inductive invariant holds of every behavior of the queue.
THEOREM Invariance == Spec => []IInv
<1>1. Init => Inv2
  BY InitInv1, InitInv2 DEF Inv2
<1>2. Inv2 /\ [Next]_vars => Inv2'
  BY NextInv1, NextEventInv, NextCloseInv DEF Inv2
<1>3. Inv2 => IInv
  BY DEF Inv2, Inv1, IInv
<1> QED
  BY <1>1, <1>2, <1>3, PTL DEF Spec

\* What EventInv says of positions, Conservation says of the sets of events.
LEMMA ConservationFromIInv == IInv => Conservation
<1> SUFFICES ASSUME IInv PROVE Conservation
  OBVIOUS
<1> USE DEF IInv
<1>1. /\ DOMAIN buf = 1 .. Len(buf)
      /\ DOMAIN received = 1 .. Len(received)
      /\ Len(buf) \in Nat
      /\ Taken \in Nat
      /\ Taken = pushed - Len(buf)
      /\ pushed \in Nat
  BY MaxPushAssumption, LenProperties DEF TypeOK, EventInv, Taken
<1>2. \A p \in InHand : held[p] \in 1 .. Taken
  BY MaxPushAssumption, <1>1 DEF TypeOK, ProcInv, EventInv, InHand
<1>3. \A i \in 1 .. Len(received) : received[i] \in 1 .. Taken
  <2>1. \A i \in 1 .. Len(received) : received[i] \in Events
    BY ElementOfSeq DEF TypeOK
  <2> QED
    BY <1>1, <2>1, MaxPushAssumption DEF EventInv, Events
<1>4. Range(buf) = {v \in 1 .. pushed : v > Taken}
  <2>1. \A i \in 1 .. Len(buf) : buf[i] = Taken + i
    BY DEF EventInv
  <2>2. \A i \in 1 .. Len(buf) : buf[i] \in 1 .. pushed /\ buf[i] > Taken
    BY <1>1, <2>1
  <2>3. ASSUME NEW v \in 1 .. pushed, v > Taken
        PROVE  v - Taken \in 1 .. Len(buf) /\ buf[v - Taken] = v
    BY <1>1, <2>1, <2>3
  <2> QED
    BY <1>1, <2>2, <2>3 DEF Range
<1>5. Range(received) \subseteq 1 .. Taken
  BY <1>1, <1>3 DEF Range
<1>6. \A i, j \in DOMAIN buf : buf[i] = buf[j] => i = j
  BY <1>1 DEF EventInv
<1>7. \A i, j \in DOMAIN received : received[i] = received[j] => i = j
  BY <1>1 DEF EventInv
<1>8. \A p \in InHand : held[p] \notin Range(buf)
  BY <1>1, <1>2, <1>4
<1>9. Undelivered \cap Range(received) = {}
  BY <1>1, <1>4, <1>5 DEF Undelivered, EventInv, Range
<1>10. ASSUME closer = "open"
       PROVE  Undelivered \cup Range(received) = 1 .. pushed
  <2>1. \A v \in 1 .. Taken : v \in Undelivered \cup Range(received)
    BY <1>1, <1>10 DEF EventInv, Undelivered, Range
  <2>2. 1 .. pushed = (1 .. Taken) \cup Range(buf)
    BY <1>1, <1>4
  <2>3. Undelivered \cup Range(received) \subseteq 1 .. pushed
    BY <1>1, <1>2, <1>4, <1>5 DEF Undelivered
  <2> QED
    BY <2>1, <2>2, <2>3 DEF Undelivered
<1> QED
  BY <1>6, <1>7, <1>8, <1>9, <1>10 DEF Conservation, EventInv

\* No event is lost or duplicated, whatever procs and readers do.
THEOREM EventsConserved == Spec => []Conservation
BY Invariance, ConservationFromIInv, PTL

\* Reordering never crosses the buffer.
THEOREM BufferOrder == Spec => []BufferNeverOvertaken
<1>1. IInv => BufferNeverOvertaken
  <2> SUFFICES ASSUME IInv, NEW i \in DOMAIN buf,
                      NEW v \in Range(received) \cup {held[p] : p \in InHand}
               PROVE  v < buf[i]
    BY DEF BufferNeverOvertaken
  <2> USE DEF IInv
  <2>1. /\ DOMAIN buf = 1 .. Len(buf)
        /\ DOMAIN received = 1 .. Len(received)
        /\ Len(buf) \in Nat
        /\ Taken \in Nat
    BY MaxPushAssumption, LenProperties DEF TypeOK, EventInv, Taken
  <2>2. buf[i] = Taken + i /\ i \in Nat /\ i > 0
    BY <2>1 DEF EventInv
  <2>3. v \in Nat /\ v <= Taken
    <3>1. \A k \in 1 .. Len(received) : received[k] \in Nat /\ received[k] <= Taken
      BY MaxPushAssumption, ElementOfSeq DEF TypeOK, Events, EventInv
    <3>2. \A p \in InHand : held[p] \in Nat /\ held[p] <= Taken
      BY MaxPushAssumption DEF TypeOK, EventInv, InHand
    <3> QED
      BY <2>1, <3>1, <3>2 DEF Range
  <2> QED
    BY <2>1, <2>2, <2>3
<1> QED
  BY <1>1, Invariance, PTL

\* Once Close goes on to close the output channel, nobody is left to send.
THEOREM CloseIsSafe == Spec => []NoSendOnClosedChannel
<1>1. IInv => NoSendOnClosedChannel
  BY DEF IInv, CloseInv
<1> QED
  BY <1>1, Invariance, PTL

\* An event in the buffer always has a proc that will come for it.
THEOREM WakeupNotLost == Spec => []NoLostWakeup
<1>1. IInv => NoLostWakeup
  BY DEF IInv, CloseInv
<1> QED
  BY <1>1, Invariance, PTL

\* A reader that waits does so on a channel that is open: closing it wakes all.
ReaderInv == outchan = "closed" => \A r \in Readers : rpc[r] # "waiting"

\* Each step leaves the readers as ReaderInv has them.
LEMMA NextReader == IInv /\ ReaderInv /\ [Next]_vars => ReaderInv'
<1> SUFFICES ASSUME IInv, ReaderInv, [Next]_vars PROVE ReaderInv'
  OBVIOUS
<1> USE DEF ReaderInv
<1>1. ASSUME UNCHANGED <<outchan, rpc>> PROVE ReaderInv'
  BY <1>1
<1>2. ASSUME Push \/ ClosePurge \/ CloseWait PROVE ReaderInv'
  BY <1>1, <1>2 DEF Push, ClosePurge, CloseWait, closeVars, readVars
<1>3. ASSUME CloseOut PROVE ReaderInv'
  BY <1>3 DEF CloseOut
<1>4. ASSUME NEW p \in Procs,
             Take(p) \/ Finish(p) \/ Done(p) \/ SelectClose(p) \/ SelectPark(p)
      PROVE  ReaderInv'
  BY <1>1, <1>4 DEF Take, Finish, Done, SelectClose, SelectPark, closeVars, readVars
<1>5. ASSUME NEW p \in Procs, NEW r \in Readers, SelectSend(p, r) PROVE ReaderInv'
  BY <1>5 DEF SelectSend, closeVars, IInv, TypeOK
<1>6. ASSUME NEW r \in Readers, ReceiveSent(r) \/ ReceiveWait(r) \/ ReceiveEOF(r) \/ Cancel(r)
      PROVE  ReaderInv'
  BY <1>6 DEF ReceiveSent, ReceiveWait, ReceiveEOF, Cancel, closeVars, IInv, TypeOK
<1>7. ASSUME UNCHANGED vars PROVE ReaderInv'
  BY <1>1, <1>7 DEF vars, closeVars, readVars
<1> QED
  BY <1>2, <1>3, <1>4, <1>5, <1>6, <1>7 DEF Next, CloserStep, ProcStep, Receive

\* What is there of the queue when Close has returned.
AfterClose ==
    closer = "closed" =>
        /\ Live = {} /\ closewait = 0 /\ sendq = <<>> /\ buf = <<>>
        /\ outchan = "closed" /\ \A r \in Readers : rpc[r] # "waiting"

\* Once Close has returned no goroutine of the queue is alive or will be waited
\* for, no event is left and no reader waits (eventqueue.go:46-61).
THEOREM ClosedIsQuiet == Spec => []AfterClose
<1>1. Init => ReaderInv
  BY DEF Init, ReaderInv
<1>2. IInv /\ ReaderInv => AfterClose
  <2> SUFFICES ASSUME IInv, ReaderInv, closer = "closed"
               PROVE  /\ Live = {} /\ closewait = 0 /\ sendq = <<>> /\ buf = <<>>
                      /\ outchan = "closed" /\ \A r \in Readers : rpc[r] # "waiting"
    BY DEF AfterClose
  <2>1. Live = {} /\ sendq = <<>> /\ buf = <<>> /\ outchan = "closed"
    BY DEF IInv, CloseInv, NoSendOnClosedChannel
  <2>2. closewait = 0
    BY <2>1, FS_EmptySet DEF IInv, ProcInv
  <2> QED
    BY <2>1, <2>2 DEF ReaderInv
<1> QED
  BY <1>1, <1>2, NextReader, Invariance, PTL DEF Spec
-----------------------------------------------------------------------------
(* The queue implements the abstract stream *)

\* The value that a proc gives up or hands over is pending nowhere else.
LEMMA HeldLeaves ==
    ASSUME IInv, NEW p \in InHand, InHand' = InHand \ {p},
           held' = [held EXCEPT ![p] = 0], buf' = buf
    PROVE  /\ held[p] \in Undelivered
           /\ Undelivered' = Undelivered \ {held[p]}
<1>1. p \in Procs /\ \A q \in InHand' : held'[q] = held[q] /\ q \in InHand /\ q # p
  BY DEF InHand, IInv, TypeOK
<1>2. \A q \in InHand : q # p => q \in InHand' /\ held'[q] = held[q]
  BY <1>1 DEF InHand, IInv, TypeOK
<1>3. \A q \in InHand : held[q] = held[p] => q = p
  BY DEF IInv, EventInv
<1>4. held[p] \notin Range(buf)
  BY ConservationFromIInv DEF Conservation
<1>5. Undelivered' = Range(buf) \cup {held[q] : q \in InHand \ {p}}
  BY <1>1, <1>2 DEF Undelivered
<1> QED
  BY <1>3, <1>4, <1>5 DEF Undelivered

\* Each step is a step of EventStream, or leaves it as it is.
LEMMA StepRefines ==
    IInv /\ IInv' /\ [Next]_vars => [Stream!Next]_(Stream!vars)
<1> SUFFICES ASSUME IInv, IInv', [Next]_vars
             PROVE  Stream!Next \/ UNCHANGED Stream!vars
  OBVIOUS
<1> USE DEF IInv
<1>1. CASE Push
  <2>1. pushed + 1 \in Procs /\ pc[pushed + 1] = "none"
    BY <1>1, MaxPushAssumption DEF Push, TypeOK, Procs, ProcInv
  <2>2. \A p \in Procs : pc'[p] = pc[p] \/ (pc'[p] = "lock" /\ p = pushed + 1)
    BY <1>1 DEF Push, TypeOK
  <2>3. InHand' = InHand
    BY <2>1, <2>2 DEF InHand
  <2>4. /\ Len(buf) \in Nat
        /\ DOMAIN buf = 1 .. Len(buf)
        /\ DOMAIN buf' = 1 .. Len(buf) + 1
        /\ \A i \in 1 .. Len(buf) : buf'[i] = buf[i]
        /\ buf'[Len(buf) + 1] = pushed + 1
    BY <1>1, <2>1, LenProperties, AppendProperties DEF Push, TypeOK, Procs, Events
  <2>5. Range(buf') = Range(buf) \cup {pushed + 1}
    <3>1. \A i \in DOMAIN buf' : i \in 1 .. Len(buf) \/ i = Len(buf) + 1
      BY <2>4
    <3>2. Len(buf) + 1 \in DOMAIN buf' /\ DOMAIN buf \subseteq DOMAIN buf'
      BY <2>4
    <3> QED
      BY <2>4, <3>1, <3>2 DEF Range
  <2>6. Undelivered' = Undelivered \cup {pushed + 1}
    BY <1>1, <2>3, <2>5 DEF Undelivered, Push
  <2>7. Stage = "open" /\ Stage' = Stage
    BY <1>1 DEF Stage, Push, closeVars
  <2>8. Stream!Accept
    BY <1>1, <2>6, <2>7 DEF Stream!Accept, Push, readVars
  <2> QED
    BY <2>8 DEF Stream!Next
<1>2. CASE ClosePurge
  <2>1. InHand' \subseteq InHand /\ \A p \in InHand' : held'[p] = held[p]
    BY <1>2 DEF ClosePurge, InHand
  <2>2. Range(buf') = {}
    BY <1>2, EmptySeq DEF ClosePurge, Range
  <2>3. Undelivered' \in SUBSET Undelivered
    BY <2>1, <2>2 DEF Undelivered
  <2>4. Stage = "open" /\ Stage' = "closing"
    BY <1>2 DEF Stage, ClosePurge
  <2>5. Stream!BeginClose
    BY <1>2, <2>3, <2>4 DEF Stream!BeginClose, ClosePurge, readVars
  <2> QED
    BY <2>5 DEF Stream!Next
<1>3. CASE CloseWait
  BY <1>3 DEF CloseWait, Stage, Stream!vars, Undelivered, InHand,
              queueVars, procVars, readVars
<1>4. CASE CloseOut
  <2>1. Live = {} /\ buf = <<>>
    BY <1>4 DEF CloseOut, CloseInv, NoSendOnClosedChannel
  <2>2. InHand = {} /\ Range(buf) = {}
    BY <2>1, EmptySeq DEF InHand, Live, Range
  <2>3. Undelivered = {} /\ Undelivered' = Undelivered
    BY <1>4, <2>2 DEF Undelivered, InHand, CloseOut, queueVars, procVars
  <2>4. Stage = "closing" /\ Stage' = "closed"
    BY <1>4 DEF Stage, CloseOut
  <2>5. Stream!EndClose
    BY <1>4, <2>3, <2>4 DEF Stream!EndClose, CloseOut, queueVars
  <2> QED
    BY <2>5 DEF Stream!Next
<1>5. ASSUME NEW p \in Procs, Take(p) PROVE UNCHANGED Stream!vars
  <2>1. /\ Head(buf) = buf[1]
        /\ 1 \in 1 .. Len(buf)
        /\ Len(buf) \in Nat
        /\ DOMAIN buf = 1 .. Len(buf)
        /\ DOMAIN Tail(buf) = 1 .. Len(buf) - 1
        /\ \A i \in 1 .. Len(buf) - 1 : Tail(buf)[i] = buf[i + 1]
    BY <1>5, LenProperties, HeadTailProperties, EmptySeq DEF Take, TypeOK
  <2>2. Range(buf) = Range(Tail(buf)) \cup {Head(buf)}
    <3>1. \A i \in DOMAIN buf : i = 1 \/ (i - 1 \in DOMAIN Tail(buf) /\ Tail(buf)[i - 1] = buf[i])
      BY <2>1
    <3>2. \A i \in DOMAIN Tail(buf) : i + 1 \in DOMAIN buf /\ Tail(buf)[i] = buf[i + 1]
      BY <2>1
    <3>3. \A i \in DOMAIN buf : buf[i] \in Range(Tail(buf)) \cup {Head(buf)}
      BY <2>1, <3>1 DEF Range
    <3>4. \A i \in DOMAIN Tail(buf) : Tail(buf)[i] \in Range(buf)
      BY <3>2 DEF Range
    <3>5. Head(buf) \in Range(buf)
      BY <2>1 DEF Range
    <3> QED
      BY <3>3, <3>4, <3>5 DEF Range
  <2>3. InHand' = InHand \cup {p} /\ p \notin InHand
    BY <1>5 DEF Take, InHand, TypeOK
  <2>4. held'[p] = Head(buf) /\ \A q \in InHand : held'[q] = held[q]
    BY <1>5, <2>3 DEF Take, InHand, TypeOK
  <2>5. Undelivered' = Undelivered
    BY <1>5, <2>2, <2>3, <2>4 DEF Undelivered, Take
  <2> QED
    BY <1>5, <2>5 DEF Take, Stage, Stream!vars, closeVars, readVars
<1>6. ASSUME NEW p \in Procs, Finish(p) \/ Done(p) \/ SelectPark(p)
      PROVE  UNCHANGED Stream!vars
  <2>1. InHand' = InHand
    BY <1>6 DEF Finish, Done, SelectPark, InHand, TypeOK
  <2> QED
    BY <1>6, <2>1 DEF Finish, Done, SelectPark, Stage, Undelivered, Stream!vars,
       queueVars, closeVars, readVars
<1>7. ASSUME NEW p \in Procs, SelectClose(p) PROVE Stream!Next
  <2>1. p \in InHand /\ InHand' = InHand \ {p} /\ p \in Live
    BY <1>7 DEF SelectClose, InHand, Live, TypeOK
  <2>2. held[p] \in Undelivered /\ Undelivered' = Undelivered \ {held[p]}
    BY <1>7, <2>1, HeldLeaves DEF SelectClose, queueVars
  <2>3. Stage = "closing" /\ Stage' = Stage
    BY <1>7, <2>1 DEF SelectClose, Stage, CloseInv, NoSendOnClosedChannel,
       closeVars, TypeOK, CloserState
  <2>4. Stream!Discard(held[p])
    BY <1>7, <2>2, <2>3 DEF Stream!Discard, SelectClose, queueVars, readVars
  <2> QED
    BY <2>2, <2>4 DEF Stream!Next
<1>8. ASSUME NEW p \in InHand, p \in Live, InHand' = InHand \ {p},
             held' = [held EXCEPT ![p] = 0],
             received' = Append(received, held[p]),
             UNCHANGED <<queueVars, closeVars>>
      PROVE  Stream!Next
  \* A handoff, to a reader that waits or to one that arrives.
  <2>1. held[p] \in Undelivered /\ Undelivered' = Undelivered \ {held[p]}
    BY <1>8, HeldLeaves DEF queueVars
  <2>2. Stage # "closed" /\ Stage' = Stage
    BY <1>8 DEF Stage, CloseInv, NoSendOnClosedChannel, closeVars
  <2>3. Stream!Deliver(held[p])
    BY <1>8, <2>1, <2>2 DEF Stream!Deliver, queueVars
  <2> QED
    BY <2>1, <2>3 DEF Stream!Next
<1>9. ASSUME NEW p \in Procs, NEW r \in Readers, SelectSend(p, r) PROVE Stream!Next
  <2>1. p \in InHand /\ InHand' = InHand \ {p} /\ p \in Live
    BY <1>9 DEF SelectSend, InHand, Live, TypeOK
  <2> QED
    BY <1>8, <1>9, <2>1 DEF SelectSend
<1>10. ASSUME NEW r \in Readers, ReceiveSent(r) PROVE Stream!Next
  <2> DEFINE p == Head(sendq)
  <2>1. p \in Procs /\ p = sendq[1] /\ 1 \in 1 .. Len(sendq)
    BY <1>10, HeadTailProperties, EmptySeq DEF ReceiveSent, TypeOK
  <2>2. pc[p] = "parked"
    BY <2>1 DEF ProcInv
  <2> HIDE DEF p
  <2>3. p \in InHand /\ InHand' = InHand \ {p} /\ p \in Live
    BY <1>10, <2>1, <2>2 DEF ReceiveSent, InHand, Live, TypeOK, p
  <2> QED
    BY <1>8, <1>10, <2>3 DEF ReceiveSent, p
<1>11. ASSUME NEW r \in Readers, ReceiveWait(r) \/ ReceiveEOF(r) \/ Cancel(r)
       PROVE  UNCHANGED Stream!vars
  <2>1. UNCHANGED <<queueVars, procVars, closeVars, received>>
    BY <1>11 DEF ReceiveWait, ReceiveEOF, Cancel
  <2> QED
    BY <2>1 DEF Stage, Undelivered, InHand, Stream!vars,
       queueVars, procVars, closeVars
<1>12. CASE UNCHANGED vars
  BY <1>12 DEF vars, Stage, Undelivered, InHand, Stream!vars,
     queueVars, procVars, closeVars, readVars
<1> QED
  BY <1>1, <1>2, <1>3, <1>4, <1>5, <1>6, <1>7, <1>9, <1>10, <1>11, <1>12
     DEF Next, CloserStep, ProcStep, Receive

\* The queue keeps every promise of EventStream, for every number of events
\* and of readers.
THEOREM ImplementsStream == Spec => StreamRefinement
<1>1. Init => Stream!Init
  <2> SUFFICES ASSUME Init PROVE Stream!Init
    OBVIOUS
  <2>1. Undelivered = {}
    BY EmptySeq DEF Init, Undelivered, InHand, Range
  <2> QED
    BY <2>1 DEF Init, Stream!Init, Stage
<1>2. IInv /\ IInv' /\ [Next]_vars => [Stream!Next]_(Stream!vars)
  BY StepRefines
<1> QED
  BY <1>1, <1>2, Invariance, PTL DEF Spec, StreamRefinement, Stream!Spec
=============================================================================
