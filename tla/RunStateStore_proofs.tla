----------------------- MODULE RunStateStore_proofs -----------------------
(***************************************************************************)
(* What RunStateStore guarantees for any number of callers, any set of     *)
(* healths and actions and any bound on the observations.                  *)
(***************************************************************************)
EXTENDS RunStateStore, TLAPS

\* A reading's reservation is never ahead of the counter, and behind it once a
\* newer statement or reading arrived: this is what commit compares.
TokensInOrder ==
    \A t \in Threads :
        pc[t] = "detect" =>
            /\ token[t] <= observation
            /\ overtaken[t] => token[t] < observation

\* The flag is set while a guard exists.
HolderSetsFlag == \A t \in Threads : pc[t] = "holding" => operation

IInv ==
    /\ TypeOK
    /\ IntentExclusive
    /\ TokensInOrder
    /\ HolderSetsFlag
    /\ OneOperation
    /\ NoLostWakeup
    /\ ViewCatchesUp

-----------------------------------------------------------------------------
\* The three ways a locked region ends, with the types they preserve: nothing
\* said, a reassertion, a change (VersionedService, mod.rs:60-77).
LEMMA ReassertedKeeps ==
    ASSUME TypeOK, Reasserted
    PROVE  /\ observation' \in 0 .. MaxObservations
           /\ observation' = observation + 1
           /\ overtaken' = [t \in Threads |-> pc[t] = "detect"]
           /\ UNCHANGED <<service, owed>>
  BY StoreAssumption DEF TypeOK, Reasserted, Invalidates, Overtakes

LEMMA StatedKeeps ==
    ASSUME TypeOK, NEW t \in Threads, Stated(t)
    PROVE  /\ observation' \in 0 .. MaxObservations
           /\ observation' = observation + 1
           /\ overtaken' = [u \in Threads |-> pc[u] = "detect"]
           /\ owed' = owed \cup {t}
  BY StoreAssumption DEF TypeOK, Stated, Invalidates, Overtakes, Announced

\* A statement either keeps the stored service, or changes it to a value of the
\* right type that never carries an intent and an allowance together; it
\* announces the change and outdates the readings in progress.
Effect(t) ==
    /\ UNCHANGED <<operation, pc, token, woken, signalled, uiReading, view>>
    /\ health' \in HealthStates
    /\ pending' \in Actions \cup {NoAction}
    /\ allowed' \in BOOLEAN
    /\ IntentExclusive'
    /\ \/ UNCHANGED <<health, pending, allowed, owed>>
       \/ owed' = owed \cup {t}
    /\ \/ /\ observation' = observation + 1
          /\ observation' \in 0 .. MaxObservations
          /\ overtaken' = [u \in Threads |-> pc[u] = "detect"]
       \/ UNCHANGED <<observation, overtaken>>

\* Each public statement of the store has that effect and no other.
LEMMA StatementEffect ==
    ASSUME TypeOK, IntentExclusive, NEW t \in Threads, Statement(t)
    PROVE  Effect(t)
  <1> USE DEF Effect, TypeOK, IntentExclusive, service, window
  <1>1. ASSUME NEW h \in Verdicts \cup {"Unknown"}, Observe(t, h)
        PROVE  Effect(t)
    <2>1. CASE AlreadySays(h)
      BY <1>1, <2>1, ReassertedKeeps DEF Observe
    <2>2. CASE ~AlreadySays(h)
      BY <1>1, <2>2, StatedKeeps, StoreAssumption DEF Observe, StoreObserved, HealthStates
    <2> QED BY <2>1, <2>2
  <1>2. ASSUME NEW a \in Actions, RequestAction(t, a)
        PROVE  Effect(t)
    <2>1. CASE pending = a /\ ~allowed
      BY <1>2, <2>1, ReassertedKeeps DEF RequestAction
    <2>2. CASE ~(pending = a /\ ~allowed)
      BY <1>2, <2>2, StatedKeeps DEF RequestAction, StoreRequested
    <2> QED BY <2>1, <2>2
  <1>3. CASE AcceptSidecar(t)
    <2>1. CASE allowed /\ pending = NoAction
      BY <1>3, <2>1, ReassertedKeeps DEF AcceptSidecar
    <2>2. CASE ~(allowed /\ pending = NoAction)
      BY <1>3, <2>2, StatedKeeps DEF AcceptSidecar, StoreSidecar
    <2> QED BY <2>1, <2>2
  <1>4. CASE RestoreSidecarAllowance(t)
    <2>1. CASE allowed
      BY <1>4, <2>1, ReassertedKeeps DEF RestoreSidecarAllowance
    <2>2. CASE ~allowed
      BY <1>4, <2>2, StatedKeeps DEF RestoreSidecarAllowance, StoreSidecar
    <2> QED BY <2>1, <2>2
  <1>5. CASE WithdrawSidecarAllowance(t)
    BY <1>5, StatedKeeps DEF WithdrawSidecarAllowance
  <1>6. CASE AllowSidecarForSession(t)
    BY <1>6, StatedKeeps DEF AllowSidecarForSession, StoreSidecar
  <1>7. CASE AllowSidecarAfterServiceRefusal(t)
    BY <1>7, StatedKeeps DEF AllowSidecarAfterServiceRefusal, HealthStates
  <1>8. CASE RequireInstallForSession(t)
    <2>1. owed' = owed \cup {t} /\ UNCHANGED <<operation, pc, token, woken, signalled, uiReading, view>>
      BY <1>8 DEF RequireInstallForSession, Announced
    <2>2. CASE StoreRequested("Install") /\ Invalidates /\ Overtakes
      <3>1. observation' = observation + 1 /\ observation' \in 0 .. MaxObservations
        BY <2>2, StoreAssumption DEF Invalidates
      <3>2. overtaken' = [u \in Threads |-> pc[u] = "detect"]
        BY <2>2 DEF Overtakes
      <3>3. pending' = "Install" /\ allowed' = FALSE /\ health' = health
        BY <2>2 DEF StoreRequested
      <3> QED BY <2>1, <3>1, <3>2, <3>3, StoreAssumption
    <2>3. CASE Invalidates /\ Overtakes /\ UNCHANGED service
      BY <2>1, <2>3, StoreAssumption DEF Invalidates, Overtakes
    <2>4. CASE UNCHANGED <<service, observation, overtaken>>
      BY <2>1, <2>4
    <2> QED BY <1>8, <2>2, <2>3, <2>4 DEF RequireInstallForSession
  <1> QED
    BY <1>1, <1>2, <1>3, <1>4, <1>5, <1>6, <1>7, <1>8 DEF Statement

-----------------------------------------------------------------------------
\* Every variable keeps its type: in particular no observation exceeds its bound
\* and a thread is always in one of the states of the code it runs.
LEMMA TypeStep ==
    ASSUME TypeOK, IntentExclusive, [Next]_vars
    PROVE  TypeOK'
  <1> USE DEF TypeOK, service, window
  <1>1. CASE UNCHANGED vars
    BY <1>1 DEF vars
  <1>2. ASSUME NEW t \in Threads, Announce(t)
        PROVE  TypeOK'
    BY <1>2 DEF Announce
  <1>3. ASSUME NEW t \in Threads, Statement(t)
        PROVE  TypeOK'
    <2>1. Effect(t) BY <1>3, StatementEffect
    <2> QED BY <2>1 DEF Effect
  <1>4. ASSUME NEW t \in Threads, Reserve(t)
        PROVE  TypeOK'
    BY <1>4, StoreAssumption DEF Reserve, Invalidates, ThreadStates
  <1>5. ASSUME NEW t \in Threads, NEW h \in Verdicts, Commit(t, h)
        PROVE  TypeOK'
    <2>1. /\ pc' = [pc EXCEPT ![t] = "idle"]
          /\ token' = [token EXCEPT ![t] = 0]
          /\ overtaken' = [overtaken EXCEPT ![t] = FALSE]
          /\ UNCHANGED <<observation, operation, woken, window>>
      BY <1>5 DEF Commit
    <2>2. /\ pc' \in [Threads -> ThreadStates]
          /\ token' \in [Threads -> 0 .. MaxObservations]
          /\ overtaken' \in [Threads -> BOOLEAN]
      BY <2>1, StoreAssumption DEF ThreadStates
    <2>3. /\ health' \in HealthStates
          /\ pending' \in Actions \cup {NoAction}
          /\ allowed' \in BOOLEAN
          /\ owed' \subseteq Threads
      BY <1>5, StoreAssumption DEF Commit, StoreObserved, Announced
    <2> QED BY <2>1, <2>2, <2>3
  <1>6. ASSUME NEW t \in Threads, BeginOperation(t)
        PROVE  TypeOK'
    <2>1. Stated(t) /\ operation' = TRUE /\ pc' = [pc EXCEPT ![t] = "holding"]
          /\ UNCHANGED <<service, token, woken, window>>
      BY <1>6 DEF BeginOperation
    <2>2. pc' \in [Threads -> ThreadStates]
      BY <2>1 DEF ThreadStates
    <2>3. /\ observation' \in 0 .. MaxObservations
          /\ overtaken' \in [Threads -> BOOLEAN]
          /\ owed' \subseteq Threads
      BY <2>1, StatedKeeps
    <2> QED BY <2>1, <2>2, <2>3
  <1>7. ASSUME NEW t \in Threads, DropOperation(t) \/ NotifyWaiters(t) \/ Settled(t) \/ SettledReads(t) \/ SettledWakes(t)
        PROVE  TypeOK'
    <2>1. pc' \in [Threads -> ThreadStates]
      BY <1>7 DEF DropOperation, NotifyWaiters, WakesAll, Settled, SettledReads, SettledWakes, ThreadStates
    <2>2. woken' \in [Threads -> BOOLEAN]
      <3>1. CASE SettledReads(t)
        <4>1. woken' = [woken EXCEPT ![t] = woken[t] /\ operation]
          BY <3>1 DEF SettledReads
        <4> QED BY <4>1, Zenon
      <3>2. CASE NotifyWaiters(t)
        <4>1. woken' = [u \in Threads |-> pc[u] \in {"armed", "waiting"}]
          BY <3>2 DEF NotifyWaiters, WakesAll
        <4>2. \A u \in Threads : (pc[u] \in {"armed", "waiting"}) \in BOOLEAN
          OBVIOUS
        <4> HIDE DEF TypeOK
        <4> QED BY <4>1, <4>2, Zenon
      <3>3. CASE DropOperation(t)
        BY <3>3 DEF DropOperation
      <3>4. CASE Settled(t) \/ SettledWakes(t)
        BY <3>4 DEF Settled, SettledWakes
      <3> QED BY <1>7, <3>1, <3>2, <3>3, <3>4
    <2>3. operation' \in BOOLEAN /\ owed' \subseteq Threads
      BY <1>7 DEF DropOperation, NotifyWaiters, WakesAll, Settled, SettledReads, SettledWakes, Announced
    <2>4. UNCHANGED <<service, observation, token, window, overtaken>>
      BY <1>7 DEF DropOperation, NotifyWaiters, WakesAll, Settled, SettledReads, SettledWakes
    <2> QED BY <2>1, <2>2, <2>3, <2>4
  <1>8. CASE WindowWakes
    BY <1>8 DEF WindowWakes
  <1>9. CASE WindowReads
    BY <1>9 DEF WindowReads, Snapshot
  <1> QED
    BY <1>1, <1>2, <1>3, <1>4, <1>5, <1>6, <1>7, <1>8, <1>9 DEF Next, Reading, Operating

\* The stored intent and allowance stay exclusive.
LEMMA ExclusiveStep ==
    ASSUME TypeOK, IntentExclusive, [Next]_vars
    PROVE  IntentExclusive'
  <1> USE DEF IntentExclusive, service, window
  <1>1. ASSUME NEW t \in Threads, Statement(t)
        PROVE  IntentExclusive'
    BY <1>1, StatementEffect DEF Effect
  <1>2. ASSUME NEW t \in Threads, NEW h \in Verdicts, Commit(t, h)
        PROVE  IntentExclusive'
    BY <1>2 DEF Commit, StoreObserved
  <1>3. ASSUME UNCHANGED service
        PROVE  IntentExclusive'
    BY <1>3
  <1> QED
    BY <1>1, <1>2, <1>3
       DEF Next, vars, Announce, Reading, Reserve, Operating, BeginOperation, DropOperation,
           NotifyWaiters, WakesAll, Settled, SettledReads, SettledWakes, WindowWakes, WindowReads

\* Reservations stay ordered as TokensInOrder says.
LEMMA TokensStep ==
    ASSUME TypeOK, IntentExclusive, TokensInOrder, [Next]_vars
    PROVE  TokensInOrder'
  <1> USE DEF TypeOK, TokensInOrder, service, window
  <1>1. ASSUME NEW t \in Threads, Statement(t)
        PROVE  TokensInOrder'
    <2>1. Effect(t) BY <1>1, StatementEffect
    <2> QED BY <2>1 DEF Effect
  <1>2. ASSUME NEW t \in Threads, Reserve(t)
        PROVE  TokensInOrder'
    <2>1. /\ observation' = observation + 1
          /\ pc' = [pc EXCEPT ![t] = "detect"]
          /\ token' = [token EXCEPT ![t] = observation']
          /\ overtaken' = [u \in Threads |-> u # t /\ pc[u] = "detect"]
      BY <1>2 DEF Reserve, Invalidates
    <2>2. SUFFICES ASSUME NEW u \in Threads, pc'[u] = "detect"
                   PROVE  token'[u] <= observation' /\ (overtaken'[u] => token'[u] < observation')
      BY DEF TokensInOrder
    <2>3. CASE u = t
      <3>1. token'[t] = observation'
        BY <2>1
      <3>2. overtaken'[t] = FALSE
        BY <2>1
      <3>3. observation' \in Nat
        BY <2>1, StoreAssumption
      <3> QED BY <2>3, <3>1, <3>2, <3>3
    <2>4. CASE u # t
      BY <2>1, <2>2, <2>4
    <2> QED BY <2>3, <2>4
  <1>3. ASSUME NEW t \in Threads, NEW h \in Verdicts, Commit(t, h)
        PROVE  TokensInOrder'
    BY <1>3 DEF Commit
  <1>4. ASSUME NEW t \in Threads, BeginOperation(t)
        PROVE  TokensInOrder'
    BY <1>4, StatedKeeps DEF BeginOperation
  <1>5. ASSUME NEW t \in Threads, DropOperation(t) \/ NotifyWaiters(t) \/ Settled(t) \/ SettledReads(t) \/ SettledWakes(t)
        PROVE  TokensInOrder'
    BY <1>5 DEF DropOperation, NotifyWaiters, WakesAll, Settled, SettledReads, SettledWakes
  <1>6. ASSUME UNCHANGED <<observation, pc, token, overtaken>>
        PROVE  TokensInOrder'
    BY <1>6
  <1> QED
    BY <1>1, <1>2, <1>3, <1>4, <1>5, <1>6
       DEF Next, vars, Announce, Reading, Operating, WindowWakes, WindowReads

\* The slot keeps one owner, and its flag is set as long as there is one.
LEMMA SlotStep ==
    ASSUME TypeOK, IntentExclusive, HolderSetsFlag, OneOperation, [Next]_vars
    PROVE  HolderSetsFlag' /\ OneOperation'
  <1> USE DEF TypeOK, HolderSetsFlag, OneOperation, service, window
  <1>1. ASSUME NEW t \in Threads, Statement(t)
        PROVE  UNCHANGED <<operation, pc>>
    BY <1>1, StatementEffect DEF Effect
  <1>2. ASSUME NEW t \in Threads, BeginOperation(t)
        PROVE  HolderSetsFlag' /\ OneOperation'
    BY <1>2 DEF BeginOperation, SlotFree
  <1>3. ASSUME NEW t \in Threads, DropOperation(t)
        PROVE  HolderSetsFlag' /\ OneOperation'
    BY <1>3 DEF DropOperation
  <1>4. ASSUME NEW t \in Threads,
               NotifyWaiters(t) \/ Settled(t) \/ SettledReads(t) \/ SettledWakes(t)
                 \/ Reserve(t) \/ \E h \in Verdicts : Commit(t, h)
        PROVE  HolderSetsFlag' /\ OneOperation'
    BY <1>4 DEF NotifyWaiters, WakesAll, Settled, SettledReads, SettledWakes, Reserve, Commit
  <1>5. ASSUME UNCHANGED <<operation, pc>>
        PROVE  HolderSetsFlag' /\ OneOperation'
    BY <1>5
  <1> QED
    BY <1>1, <1>2, <1>3, <1>4, <1>5
       DEF Next, vars, Announce, Reading, Operating, WindowWakes, WindowReads

\* No step loses a wake-up.
LEMMA WakeupStep ==
    ASSUME TypeOK, IntentExclusive, NoLostWakeup, [Next]_vars
    PROVE  NoLostWakeup'
  <1> USE DEF TypeOK, NoLostWakeup, service, window
  <1>1. ASSUME NEW t \in Threads, Statement(t)
        PROVE  UNCHANGED <<operation, pc, woken>>
    BY <1>1, StatementEffect DEF Effect
  <1>2. ASSUME NEW t \in Threads, BeginOperation(t)
        PROVE  NoLostWakeup'
    BY <1>2 DEF BeginOperation
  <1>3. ASSUME NEW t \in Threads, DropOperation(t)
        PROVE  NoLostWakeup'
    <2>1. pc'[t] = "notify" BY <1>3 DEF DropOperation
    <2> QED BY <2>1
  <1>4. ASSUME NEW t \in Threads, NotifyWaiters(t)
        PROVE  NoLostWakeup'
    BY <1>4 DEF NotifyWaiters, WakesAll
  <1>5. ASSUME NEW t \in Threads,
               Settled(t) \/ SettledReads(t) \/ SettledWakes(t)
                 \/ Reserve(t) \/ \E h \in Verdicts : Commit(t, h)
        PROVE  NoLostWakeup'
    BY <1>5 DEF Settled, SettledReads, SettledWakes, Reserve, Commit
  <1>6. ASSUME UNCHANGED <<operation, pc, woken>>
        PROVE  NoLostWakeup'
    BY <1>6
  <1> QED
    BY <1>1, <1>2, <1>3, <1>4, <1>5, <1>6
       DEF Next, vars, Announce, Reading, Operating, WindowWakes, WindowReads

\* Whatever the window does not show yet is still on its way to it.
LEMMA ViewStep ==
    ASSUME TypeOK, IntentExclusive, ViewCatchesUp, [Next]_vars
    PROVE  ViewCatchesUp'
  <1> USE DEF TypeOK, ViewCatchesUp, Snapshot, service, window
  <1>1. ASSUME NEW t \in Threads, Announce(t)
        PROVE  ViewCatchesUp'
    BY <1>1 DEF Announce
  <1>2. ASSUME NEW t \in Threads, Statement(t)
        PROVE  ViewCatchesUp'
    <2>1. Effect(t) BY <1>2, StatementEffect
    <2> QED BY <2>1 DEF Effect
  <1>3. ASSUME NEW t \in Threads, Reserve(t) \/ Settled(t) \/ SettledReads(t) \/ SettledWakes(t)
        PROVE  ViewCatchesUp'
    BY <1>3 DEF Reserve, Settled, SettledReads, SettledWakes
  <1>4. ASSUME NEW t \in Threads, NEW h \in Verdicts, Commit(t, h)
        PROVE  ViewCatchesUp'
    BY <1>4 DEF Commit, Announced
  <1>5. ASSUME NEW t \in Threads, BeginOperation(t)
        PROVE  ViewCatchesUp'
    BY <1>5, StatedKeeps DEF BeginOperation
  <1>6. ASSUME NEW t \in Threads, DropOperation(t)
        PROVE  ViewCatchesUp'
    <2>1. pc'[t] = "notify" BY <1>6 DEF DropOperation
    <2> QED BY <2>1
  <1>7. ASSUME NEW t \in Threads, NotifyWaiters(t)
        PROVE  ViewCatchesUp'
    BY <1>7 DEF NotifyWaiters, WakesAll, Announced
  <1>8. CASE WindowWakes \/ WindowReads \/ UNCHANGED vars
    BY <1>8 DEF WindowWakes, WindowReads, vars
  <1> QED
    BY <1>1, <1>2, <1>3, <1>4, <1>5, <1>6, <1>7, <1>8 DEF Next, Reading, Operating

-----------------------------------------------------------------------------
\* The inductive invariant of the store (mod.rs:91-540).
THEOREM Invariance == Spec => []IInv
  <1>1. Init => IInv
    <2> SUFFICES ASSUME Init PROVE IInv
      OBVIOUS
    <2>1. TypeOK
      <3>1. view \in HealthStates \X (Actions \cup {NoAction}) \X BOOLEAN \X BOOLEAN
        <4>1. view = <<"Unknown", NoAction, FALSE, FALSE>>
          BY DEF Init, Snapshot
        <4> QED BY <4>1 DEF HealthStates
      <3>2. /\ pc \in [Threads -> ThreadStates]
            /\ token \in [Threads -> 0 .. MaxObservations]
            /\ woken \in [Threads -> BOOLEAN]
            /\ overtaken \in [Threads -> BOOLEAN]
        BY StoreAssumption DEF Init, ThreadStates
      <3>3. observation \in 0 .. MaxObservations
        BY StoreAssumption DEF Init
      <3> QED BY <3>1, <3>2, <3>3 DEF Init, TypeOK, HealthStates
    <2>2. IntentExclusive /\ ViewCatchesUp
      BY DEF Init, IntentExclusive, ViewCatchesUp
    <2>3. TokensInOrder /\ HolderSetsFlag /\ OneOperation /\ NoLostWakeup
      BY DEF Init, TokensInOrder, HolderSetsFlag, OneOperation, NoLostWakeup
    <2> QED BY <2>1, <2>2, <2>3 DEF IInv
  <1>2. IInv /\ [Next]_vars => IInv'
    BY TypeStep, ExclusiveStep, TokensStep, SlotStep, WakeupStep, ViewStep DEF IInv
  <1> QED BY <1>1, <1>2, PTL DEF Spec

\* Type correctness: the store, its callers and the window stay in their states.
THEOREM TypeCorrect == Spec => []TypeOK
  <1>1. IInv => TypeOK BY DEF IInv
  <1> QED BY <1>1, Invariance, PTL

\* health.rs:174: a pending action and a Sidecar allowance never coexist.
THEOREM IntentIsExclusive == Spec => []IntentExclusive
  <1>1. IInv => IntentExclusive BY DEF IInv
  <1> QED BY <1>1, Invariance, PTL

\* begin_operation admits one privileged operation at a time.
THEOREM OperationIsExclusive == Spec => []OneOperation
  <1>1. IInv => OneOperation BY DEF IInv
  <1> QED BY <1>1, Invariance, PTL

\* A settled() call that sleeps unwoken still has its notification ahead of it.
THEOREM WakeupIsNotLost == Spec => []NoLostWakeup
  <1>1. IInv => NoLostWakeup BY DEF IInv
  <1> QED BY <1>1, Invariance, PTL

\* The window has a wake-up or a reread ahead of it while it lags the store.
THEOREM ViewIsNotAbandoned == Spec => []ViewCatchesUp
  <1>1. IInv => ViewCatchesUp BY DEF IInv
  <1> QED BY <1>1, Invariance, PTL

\* commit_reserved_observation discards every reading that was overtaken.
THEOREM OvertakenReadingsAreDiscarded == Spec => OvertakenReadingDiscarded
  <1> DEFINE Discards ==
        \A t \in Threads : pc[t] = "detect" /\ pc'[t] = "idle" /\ overtaken[t] => UNCHANGED service
  <1>1. IInv /\ [Next]_vars => [Discards]_vars
    <2> SUFFICES ASSUME IInv, Next, NEW t \in Threads,
                        pc[t] = "detect", pc'[t] = "idle", overtaken[t]
                 PROVE  UNCHANGED service
      OBVIOUS
    <2> USE DEF IInv, TypeOK
    <2>1. token[t] < observation
      BY DEF TokensInOrder
    <2>2. ASSUME NEW u \in Threads, Statement(u)
          PROVE  FALSE
      BY <2>2, StatementEffect DEF Effect
    <2>3. ASSUME NEW u \in Threads, NEW h \in Verdicts, Commit(u, h)
          PROVE  UNCHANGED service
      <3>1. u = t BY <2>3 DEF Commit
      <3> QED BY <2>1, <2>3, <3>1 DEF Commit, service
    <2>4. ASSUME NEW u \in Threads, Reserve(u) \/ Operating(u) \/ Announce(u)
          PROVE  UNCHANGED service
      BY <2>4 DEF Reserve, Operating, BeginOperation, DropOperation, NotifyWaiters, WakesAll, Settled,
                  SettledReads, SettledWakes, Announce
    <2>5. ASSUME WindowWakes \/ WindowReads
          PROVE  UNCHANGED service
      BY <2>5 DEF WindowWakes, WindowReads
    <2> QED BY <2>2, <2>3, <2>4, <2>5 DEF Next, Reading
  <1> QED BY <1>1, Invariance, PTL DEF Spec, OvertakenReadingDiscarded
=============================================================================
