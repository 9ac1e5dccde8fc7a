-------------------------- MODULE EntryGroupProofs --------------------------
(***************************************************************************)
(* Theorems about EntryGroup, for every set of goroutines, every set of    *)
(* TTLs and every limit.  The types, the lock and the methods that are     *)
(* under way come first (Inv1); the three other parts of IInv are each     *)
(* inductive relative to it.                                               *)
(***************************************************************************)
EXTENDS EntryGroup, SequenceTheorems, TLAPS

(* The arithmetic of TTLs *)

\* What division is.
LEMMA Division ==
    ASSUME NEW a \in Int, NEW b \in Nat \ {0}
    PROVE  /\ a \div b \in Int
           /\ b * (a \div b) <= a
           /\ a < b * (a \div b) + b
BY SMT

\* Half a second is a number of units.
LEMMA Half == Second \div 2 \in Nat /\ 2 * (Second \div 2) = Second
BY EntryGroupAssumption, SMT

\* The TTL in seconds is a number.
LEMMA TTLSecondsType ==
    ASSUME NEW t \in TTLs \cup {0}
    PROVE  TTLSeconds(t) \in Int
<1>1. t \in Int
  BY EntryGroupAssumption
<1> QED
  BY <1>1, EntryGroupAssumption, Half, Division DEF TTLSeconds

\* A multiple of b that is less than the next multiple after m * b is at most
\* m * b; both facts about products are apart from the rest for the prover.
LEMMA AtMost ==
    ASSUME NEW q \in Int, NEW m \in Int, NEW b \in Nat \ {0}, b * q < b * m + b
    PROVE q <= m
BY SMT
\* A multiple of b that is greater than -b is not negative.
LEMMA AtLeast ==
    ASSUME NEW q \in Int, NEW b \in Nat \ {0}, 0 < b * q + b
    PROVE 0 <= q
BY SMT

\* AddRecord (entrygroup.go:246-257): what passes the test is rounded to a
\* TTL within the limit, at most half a second away.
LEMMA TTLRounding ==
    ASSUME NEW t \in Int, TTLValid(t)
    PROVE  /\ TTLSeconds(t) \in 0 .. MaxSeconds
           /\ 2 * (TTLSeconds(t) * Second - t) <= Second
           /\ 2 * (t - TTLSeconds(t) * Second) <= Second
<1> DEFINE h == Second \div 2
           q == TTLSeconds(t)
           p == Second * q
           m == Second * MaxSeconds
<1>1. h \in Nat /\ 2 * h = Second /\ Second \in Nat \ {0} /\ MaxSeconds \in Nat /\ m \in Int
  BY Half, EntryGroupAssumption
<1>2. q \in Int /\ p \in Int /\ p <= t + h /\ t + h < p + Second
  BY <1>1, Division DEF TTLSeconds
<1>3. q * Second = p
  BY <1>1, <1>2
<1>4. t >= 0 /\ t <= m
  BY DEF TTLValid
<1> HIDE DEF h, q
<1>5. p < m + Second /\ 0 < p + Second
  <2> HIDE DEF p, m
  <2> QED BY <1>1, <1>2, <1>4
<1>6. q <= MaxSeconds 
  BY <1>1, <1>2, <1>5, AtMost
<1>7. 0 <= q
  BY <1>1, <1>2, <1>5, AtLeast
<1>8. 2 * (p - t) <= Second /\ 2 * (t - p) <= Second
  <2> HIDE DEF p, m
  <2> QED BY <1>1, <1>2, <1>4
<1>9. q \in 0 .. MaxSeconds
  BY <1>1, <1>2, <1>6, <1>7
<1> QED
  BY <1>3, <1>8, <1>9 DEF q
-----------------------------------------------------------------------------
(* Types, the lock, and the methods under way *)

Inv1 == TypeOK /\ MethodInv

\* At first no method is under way.
LEMMA InitInv1 == Init => Inv1
BY EntryGroupAssumption
   DEF Init, Inv1, TypeOK, MethodInv, GroupStates, Errors, NoEvent, NoRecord

\* A change of state at the daemon keeps the types of state and signals.
LEMMA ChangeType ==
    ASSUME NEW s \in GroupStates, Change(s), signals \in Seq(GroupStates)
    PROVE  state' \in GroupStates /\ signals' \in Seq(GroupStates)
BY AppendProperties DEF Change

\* Every step keeps the types, the lock and the methods that are under way.
LEMMA NextInv1 == Inv1 /\ [Next]_vars => Inv1'
<1> SUFFICES ASSUME Inv1, [Next]_vars PROVE Inv1'
  OBVIOUS
<1> USE EntryGroupAssumption DEF Inv1
<1>1. ASSUME NEW u \in Users, New(u) PROVE Inv1'
  <2>1. TypeOK'
    BY <1>1 DEF New, Enter, TypeOK, daemonVars
  <2>2. MethodInv'
    BY <1>1 DEF New, Enter, TypeOK, MethodInv, Busy
  <2> QED
    BY <2>1, <2>2
<1>2. ASSUME NEW u \in Users, NEW m \in {"service", "commit", "reset"}, Method(u, m) PROVE Inv1'
  <2>1. TypeOK'
    BY <1>2 DEF Method, Enter, TypeOK, goVars, daemonVars
  <2>2. MethodInv'
    BY <1>2 DEF Method, Enter, TypeOK, MethodInv, Busy, Adds, goVars
  <2> QED
    BY <2>1, <2>2
<1>3. ASSUME NEW u \in Users, AddInvalid(u) PROVE Inv1'
  <2>1. TypeOK'
    BY <1>3 DEF AddInvalid, Leave, TypeOK, goVars, daemonVars, Errors
  <2>2. MethodInv'
    BY <1>3 DEF AddInvalid, Leave, TypeOK, MethodInv, Busy, goVars
  <2> QED
    BY <2>1, <2>2
<1>4. ASSUME NEW u \in Users, NEW t \in TTLs, AddRecord(u, t) PROVE Inv1'
  <2>1. TypeOK'
    BY <1>4 DEF AddRecord, Enter, Leave, TypeOK, goVars, daemonVars, Errors
  <2>2. MethodInv'
    BY <1>4 DEF AddRecord, Enter, Leave, TypeOK, MethodInv, Busy, Adds, goVars
  <2> QED
    BY <2>1, <2>2
<1>5. ASSUME NEW u \in Users, Close(u) PROVE Inv1'
  <2>1. TypeOK'
    BY <1>5 DEF Close, Enter, TypeOK, daemonVars
  <2>2. MethodInv'
    BY <1>5 DEF Close, Enter, TypeOK, MethodInv, Busy
  <2> QED
    BY <2>1, <2>2
<1>6. ASSUME NEW u \in Users, Begin(u) PROVE Inv1'
  <2>1. TypeOK'
    BY <1>6 DEF Begin, Goto, TypeOK, goVars, daemonVars
  <2>2. MethodInv'
    BY <1>6 DEF Begin, Goto, TypeOK, MethodInv, Busy, goVars
  <2> QED
    BY <2>1, <2>2
<1>7. ASSUME NEW u \in Users, NewOk(u) PROVE Inv1'
  <2>1. TypeOK'
    BY <1>7 DEF NewOk, Leave, TypeOK, GroupStates
  <2>2. MethodInv'
    BY <1>7 DEF NewOk, Leave, TypeOK, MethodInv, Busy
  <2> QED
    BY <2>1, <2>2
<1>8. ASSUME NEW u \in Users, NewFail(u) PROVE Inv1'
  <2>1. TypeOK'
    BY <1>8 DEF NewFail, Goto, TypeOK, goVars, daemonVars, Errors
  <2>2. MethodInv'
    BY <1>8 DEF NewFail, Goto, TypeOK, MethodInv, Busy, goVars
  <2> QED
    BY <2>1, <2>2
<1>9. ASSUME NEW u \in Users, NewErrno(u) PROVE Inv1'
  <2>1. TypeOK'
    BY <1>9 DEF NewErrno, Leave, TypeOK, MethodInv, Errors, goVars, daemonVars
  <2>2. MethodInv'
    BY <1>9 DEF NewErrno, Leave, TypeOK, MethodInv, Busy, goVars
  <2> QED
    BY <2>1, <2>2
<1>10. ASSUME NEW u \in Users, CallFail(u) PROVE Inv1'
  <2>1. TypeOK'
    BY <1>10 DEF CallFail, Leave, TypeOK, goVars, daemonVars, Errors
  <2>2. MethodInv'
    BY <1>10 DEF CallFail, Leave, TypeOK, MethodInv, Busy, Adds, goVars
  <2> QED
    BY <2>1, <2>2
<1>11. ASSUME NEW u \in Users, AddCall(u) PROVE Inv1'
  <2>0. ttl[u] \in TTLs \cup {0}
    BY DEF TypeOK
  <2>1. TTLSeconds(ttl[u]) \in Int
    BY <2>0, TTLSecondsType
  <2>2. record' \in [asked : TTLs \cup {0}, passed : Int]
    BY <1>11, <2>1 DEF AddCall, TypeOK
  <2>3. TypeOK'
    BY <1>11, <2>2 DEF AddCall, Goto, TypeOK, goVars
  <2>4. MethodInv'
    BY <1>11 DEF AddCall, Goto, TypeOK, MethodInv, Busy, Adds, goVars
  <2> QED
    BY <2>3, <2>4
<1>12. ASSUME NEW u \in Users, ResetCall(u) PROVE Inv1'
  <2>1. state' \in GroupStates /\ signals' \in Seq(GroupStates)
    BY <1>12, ChangeType DEF ResetCall, TypeOK, GroupStates
  <2>2. TypeOK'
    BY <1>12, <2>1 DEF ResetCall, Goto, TypeOK, goVars, NoRecord
  <2>3. MethodInv'
    BY <1>12 DEF ResetCall, Goto, TypeOK, MethodInv, Busy, Adds, goVars
  <2> QED
    BY <2>2, <2>3
<1>13. ASSUME NEW u \in Users, Store(u) PROVE Inv1'
  <2>1. TypeOK'
    BY <1>13 DEF Store, Leave, TypeOK, daemonVars
  <2>2. MethodInv'
    BY <1>13 DEF Store, Leave, TypeOK, MethodInv, Busy, Adds
  <2> QED
    BY <2>1, <2>2
<1>14. ASSUME NEW u \in Users, CommitCall(u) PROVE Inv1'
  <2>1. state' \in GroupStates /\ signals' \in Seq(GroupStates)
    BY <1>14, ChangeType DEF CommitCall, TypeOK, GroupStates
  <2>2. TypeOK'
    BY <1>14, <2>1 DEF CommitCall, Leave, TypeOK, goVars
  <2>3. MethodInv'
    BY <1>14 DEF CommitCall, Leave, TypeOK, MethodInv, Busy, Adds, goVars
  <2> QED
    BY <2>2, <2>3
<1>15. ASSUME NEW u \in Users, CloseCall(u) PROVE Inv1'
  <2>1. TypeOK'
    BY <1>15 DEF CloseCall, Leave, TypeOK, NoRecord, GroupStates
  <2>2. MethodInv'
    BY <1>15 DEF CloseCall, Leave, TypeOK, MethodInv, Busy, Adds
  <2> QED
    BY <2>1, <2>2
<1>16. ASSUME Registered PROVE Inv1'
  <2>1. state' \in GroupStates /\ signals' \in Seq(GroupStates)
    BY <1>16, ChangeType DEF Registered, TypeOK, GroupStates
  <2>2. TypeOK'
    BY <1>16, <2>1 DEF Registered, TypeOK, goVars, userVars
  <2>3. MethodInv'
    BY <1>16 DEF Registered, MethodInv, Busy, goVars, userVars
  <2> QED
    BY <2>2, <2>3
<1>17. ASSUME DaemonLost PROVE Inv1'
  <2>1. state' \in GroupStates /\ signals' \in Seq(GroupStates)
    BY <1>17, ChangeType DEF DaemonLost, TypeOK, GroupStates
  <2>2. TypeOK'
    BY <1>17, <2>1 DEF DaemonLost, TypeOK, goVars, userVars, NoRecord
  <2>3. MethodInv'
    BY <1>17 DEF DaemonLost, MethodInv, Busy, goVars, userVars
  <2> QED
    BY <2>2, <2>3
<1>18. ASSUME DaemonBack PROVE Inv1'
  <2>1. TypeOK'
    BY <1>18 DEF DaemonBack, TypeOK, goVars, userVars
  <2>2. MethodInv'
    BY <1>18 DEF DaemonBack, MethodInv, Busy, goVars, userVars
  <2> QED
    BY <2>1, <2>2
<1>19. ASSUME OtherFail PROVE Inv1'
  <2>1. TypeOK'
    BY <1>19 DEF OtherFail, TypeOK, goVars, daemonVars, userVars, Errors
  <2>2. MethodInv'
    BY <1>19 DEF OtherFail, TypeOK, MethodInv, Busy, goVars, userVars
  <2> QED
    BY <2>1, <2>2
<1>20. ASSUME Callback PROVE Inv1'
  <2>1. Head(signals) \in GroupStates /\ signals' \in Seq(GroupStates)
    BY <1>20, HeadTailProperties DEF Callback, TypeOK
  <2>2. TypeOK'
    BY <1>20, <2>1 DEF Callback, TypeOK, userVars, Errors
  <2>3. MethodInv'
    BY <1>20 DEF Callback, TypeOK, MethodInv, Busy, userVars
  <2> QED
    BY <2>2, <2>3
<1>21. ASSUME UNCHANGED vars PROVE Inv1'
  BY <1>21 DEF vars, goVars, daemonVars, userVars, TypeOK, MethodInv, Busy
<1> QED
  BY <1>1, <1>2, <1>3, <1>4, <1>5, <1>6, <1>7, <1>8, <1>9, <1>10, <1>11, <1>12, <1>13,
     <1>14, <1>15, <1>16, <1>17, <1>18, <1>19, <1>20, <1>21 DEF Next, Call, Step
-----------------------------------------------------------------------------
(* The three other parts *)

\* At first the group is empty, and nothing has failed or was recorded.
LEMMA InitRest == Init => EmptyInv /\ ErrorIsOwn /\ RecordInv
BY DEF Init, EmptyInv, ErrorIsOwn, RecordInv, NoEvent

\* Only the steps between begin and end, and the daemon, touch what empty and
\* the entries are about; the lock keeps all but one user from "store".
LEMMA NextEmpty == Inv1 /\ EmptyInv /\ [Next]_vars => EmptyInv'
<1> SUFFICES ASSUME Inv1, EmptyInv, [Next]_vars PROVE EmptyInv'
  OBVIOUS
<1> USE EntryGroupAssumption DEF Inv1, EmptyInv
<1>1. ASSUME NEW u \in Users, New(u) \/ Close(u) PROVE EmptyInv'
  BY <1>1 DEF New, Close, Enter, TypeOK, daemonVars
<1>2. ASSUME NEW u \in Users, NEW s \in {"idle", "begin", "call", "errno"},
             pc[u] # "store", pc' = [pc EXCEPT ![u] = s],
             \A v \in Users \ {u} : op'[v] = op[v],
             UNCHANGED <<group, empty, entries, state>>
      PROVE  EmptyInv'
  BY <1>2 DEF TypeOK
<1>3. ASSUME NEW u \in Users, AddInvalid(u)
               \/ (\E m \in {"service", "commit", "reset"} : Method(u, m))
               \/ (\E t \in TTLs : AddRecord(u, t))
      PROVE  EmptyInv'
  BY <1>2, <1>3 DEF AddInvalid, Method, AddRecord, Enter, Leave, TypeOK, goVars, daemonVars
<1>4. ASSUME NEW u \in Users, Begin(u) \/ NewFail(u) \/ NewErrno(u) \/ CallFail(u)
      PROVE  EmptyInv'
  BY <1>2, <1>4 DEF Begin, NewFail, NewErrno, CallFail, Goto, Leave, TypeOK, goVars, daemonVars
<1>5. ASSUME NEW u \in Users, NewOk(u) PROVE EmptyInv'
  BY <1>5 DEF NewOk, Leave, TypeOK, MethodInv, Adds
<1>6. ASSUME NEW u \in Users, AddCall(u) PROVE EmptyInv'
  BY <1>6 DEF AddCall, Goto, TypeOK, MethodInv, Connected, goVars
<1>7. ASSUME NEW u \in Users, ResetCall(u) PROVE EmptyInv'
  BY <1>7 DEF ResetCall, Goto, Change, TypeOK, goVars
<1>8. ASSUME NEW u \in Users, Store(u) PROVE EmptyInv'
  BY <1>8 DEF Store, Leave, TypeOK, daemonVars
<1>9. ASSUME NEW u \in Users, CommitCall(u) PROVE EmptyInv'
  BY <1>9 DEF CommitCall, Leave, Change, TypeOK, goVars
<1>10. ASSUME NEW u \in Users, CloseCall(u) PROVE EmptyInv'
  BY <1>10 DEF CloseCall
<1>11. ASSUME Registered PROVE EmptyInv'
  BY <1>11 DEF Registered, Connected, Change, goVars, userVars
<1>12. ASSUME DaemonLost PROVE EmptyInv'
  BY <1>12 DEF DaemonLost, Change, goVars, userVars
<1>13. ASSUME DaemonBack \/ OtherFail \/ Callback \/ UNCHANGED vars PROVE EmptyInv'
  BY <1>13 DEF DaemonBack, OtherFail, Callback, vars, goVars, daemonVars, userVars
<1> QED
  BY <1>1, <1>3, <1>4, <1>5, <1>6, <1>7, <1>8, <1>9, <1>10, <1>11, <1>12, <1>13 DEF Next, Call, Step

\* What a method returns and an event says was read from errno in the critical
\* section in which Avahi has set it.
LEMMA NextError == Inv1 /\ ErrorIsOwn /\ [Next]_vars => ErrorIsOwn'
<1> SUFFICES ASSUME Inv1, ErrorIsOwn, [Next]_vars PROVE ErrorIsOwn'
  OBVIOUS
<1> USE DEF Inv1, ErrorIsOwn
<1>1. ASSUME NEW u \in Users, Call(u) PROVE ErrorIsOwn'
  BY <1>1 DEF Call, New, Close, AddInvalid, Method, AddRecord, Enter, Leave, TypeOK, goVars
<1>2. ASSUME NEW u \in Users, NewErrno(u) PROVE ErrorIsOwn'
  BY <1>2 DEF NewErrno, Leave, TypeOK, MethodInv, goVars
<1>3. ASSUME NEW u \in Users, NewOk(u) PROVE ErrorIsOwn'
  BY <1>3 DEF NewOk, Leave, TypeOK
<1>4. ASSUME NEW u \in Users, CallFail(u) \/ Store(u) \/ CommitCall(u) \/ CloseCall(u)
      PROVE  ErrorIsOwn'
  BY <1>4 DEF CallFail, Store, CommitCall, CloseCall, Leave, TypeOK, goVars
<1>5. ASSUME NEW u \in Users, Begin(u) \/ NewFail(u) \/ AddCall(u) \/ ResetCall(u)
      PROVE  ErrorIsOwn'
  BY <1>5 DEF Begin, NewFail, AddCall, ResetCall, Goto, goVars
<1>6. ASSUME Callback PROVE ErrorIsOwn'
  BY <1>6 DEF Callback, userVars
<1>7. ASSUME Registered \/ DaemonLost \/ DaemonBack \/ OtherFail \/ UNCHANGED vars
      PROVE  ErrorIsOwn'
  BY <1>7 DEF Registered, DaemonLost, DaemonBack, OtherFail, vars, goVars, userVars
<1> QED
  BY <1>1, <1>2, <1>3, <1>4, <1>5, <1>6, <1>7 DEF Next, Step

\* A TTL is tested before it is kept, and nothing but AddRecord keeps one.
LEMMA NextRecord == Inv1 /\ RecordInv /\ [Next]_vars => RecordInv'
<1> SUFFICES ASSUME Inv1, RecordInv, [Next]_vars PROVE RecordInv'
  OBVIOUS
<1> USE DEF Inv1, RecordInv
<1>1. ASSUME NEW u \in Users, Call(u) PROVE RecordInv'
  BY <1>1 DEF Call, New, Close, AddInvalid, Method, AddRecord, Enter, Leave, TypeOK, daemonVars
<1>2. ASSUME NEW u \in Users, AddCall(u) PROVE RecordInv'
  <2>1. /\ entries' = entries \cup {op[u]}
        /\ record' = IF op[u] = "record"
                     THEN [asked |-> ttl[u], passed |-> TTLSeconds(ttl[u])]
                     ELSE record
        /\ pc[u] = "call" /\ op[u] \in {"service", "record"}
        /\ pc' = [pc EXCEPT ![u] = "store"] /\ UNCHANGED <<op, ttl>>
    BY <1>2 DEF AddCall, Goto
  <2>2. \A v \in Users : pc'[v] # "idle" /\ op'[v] = "record" =>
            ttl'[v] \in TTLs /\ TTLValid(ttl'[v])
    BY <2>1 DEF TypeOK
  <2>3. CASE op[u] = "record"
    BY <2>1, <2>2, <2>3
  <2>4. CASE op[u] = "service"
    BY <2>1, <2>2, <2>4
  <2> QED
    BY <2>1, <2>3, <2>4
<1>3. ASSUME NEW u \in Users, NewErrno(u) \/ CallFail(u) \/ Store(u) PROVE RecordInv'
  BY <1>3 DEF NewErrno, CallFail, Store, Leave, TypeOK, daemonVars
<1>4. ASSUME NEW u \in Users, NewOk(u) \/ CommitCall(u) \/ CloseCall(u) PROVE RecordInv'
  BY <1>4 DEF NewOk, CommitCall, CloseCall, Leave, TypeOK
<1>5. ASSUME NEW u \in Users, Begin(u) \/ NewFail(u) \/ ResetCall(u) PROVE RecordInv'
  BY <1>5 DEF Begin, NewFail, ResetCall, Goto, TypeOK, daemonVars
<1>6. ASSUME \/ Registered \/ DaemonLost \/ DaemonBack \/ OtherFail \/ Callback
             \/ UNCHANGED vars
      PROVE  RecordInv'
  BY <1>6 DEF Registered, DaemonLost, DaemonBack, OtherFail, Callback, vars, daemonVars, userVars
<1> QED
  BY <1>1, <1>2, <1>3, <1>4, <1>5, <1>6 DEF Next, Step
-----------------------------------------------------------------------------
(* The theorems *)

\* IInv holds in every behaviour of the group.
THEOREM Invariance == Spec => []IInv
<1>1. Init => IInv
  BY InitInv1, InitRest DEF IInv, Inv1
<1>2. IInv /\ [Next]_vars => IInv'
  BY NextInv1, NextEmpty, NextError, NextRecord DEF IInv, Inv1
<1> QED
  BY <1>1, <1>2, PTL DEF Spec

\* IsEmpty (entrygroup.go:173-175) agrees with the daemon whenever nobody is
\* between begin and end, however many goroutines add and reset at a time.
THEOREM EmptyIsTrue == Spec => []EmptyAgrees
<1>1. IInv => EmptyAgrees
  BY EntryGroupAssumption DEF IInv, TypeOK, EmptyInv, EmptyAgrees
<1> QED
  BY <1>1, Invariance, PTL

\* The error that NewEntryGroup returns, and the one a failure event carries,
\* is its own, though every object of the Client shares one errno.
THEOREM OwnError == Spec => []ErrorIsOwn
<1>1. IInv => ErrorIsOwn
  BY DEF IInv
<1> QED
  BY <1>1, Invariance, PTL

\* No TTL that AddRecord accepts is rounded past math.MaxInt32 seconds, or by
\* more than half a second, whatever the unit of time.Duration.
THEOREM RoundedTTL == Spec => []TTLRounded
<1>1. IInv => TTLRounded
  <2> SUFFICES ASSUME IInv, "record" \in entries PROVE
        /\ record.passed \in 0 .. MaxSeconds
        /\ 2 * (record.passed * Second - record.asked) <= Second
        /\ 2 * (record.asked - record.passed * Second) <= Second
    BY DEF TTLRounded
  <2>1. record.asked \in Int /\ TTLValid(record.asked) /\ record.passed = TTLSeconds(record.asked)
    BY EntryGroupAssumption DEF IInv, RecordInv
  <2> QED
    BY <2>1, TTLRounding
<1> QED
  BY <1>1, Invariance, PTL
=============================================================================
