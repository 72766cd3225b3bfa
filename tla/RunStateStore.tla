--------------------------- MODULE RunStateStore ---------------------------
(***************************************************************************)
(* The desktop's record of the service: `RunStateStore` in                 *)
(* crates/zenclash-core/src/service/runstate/mod.rs over the               *)
(* `StoredService` of service/health.rs, and the window that follows it    *)
(* (crates/zenclash-ui/src/app.rs).                                        *)
(*                                                                         *)
(* Threads call the store concurrently.  Health and session intent change  *)
(* under one mutex, so each locked region is one step.  What happens       *)
(* between two regions interleaves: a health reading reserves an           *)
(* observation, performs I/O and commits; a change is announced after the  *)
(* lock is dropped; a privileged operation begins, runs and is dropped;    *)
(* `settled` registers, reads and waits.                                   *)
(*                                                                         *)
(* The running mode and PAC are not here: enter_mode touches neither the   *)
(* mutex nor the versions.  `probe`, `await_ready` and `perform` are       *)
(* sequences of I/O, Observe, Reserve and Commit.                          *)
(***************************************************************************)
EXTENDS Naturals, FiniteSets

CONSTANTS
    Threads,         \* callers of the store
    Verdicts,        \* the healths this installation can be found in
    Actions,         \* PendingAction
    NoAction,        \* pending = None
    MaxObservations  \* bound on the observation counter (u64 in the code)

HealthStates == {"Unknown", "Ready", "NotInstalled", "VersionMismatch", "Unavailable"}

ASSUME StoreAssumption ==
    /\ Verdicts \subseteq HealthStates
    /\ "Install" \in Actions
    /\ NoAction \notin Actions
    /\ MaxObservations \in Nat

VARIABLES
    health, pending, allowed,   \* StoredService; allowed is sidecar_allowed
    observation,                \* VersionedService::observation
    operation,                  \* operation_running
    pc,                         \* what each thread is in the middle of
    token,                      \* the observation a reading reserved
    woken,                      \* notify_waiters reached this settled() call
    owed,                       \* threads that still have to announce
    signalled,                  \* the watch channel holds an unseen version
    uiReading,                  \* the window consumed it and will reread
    view,                       \* the state the window shows
    overtaken                   \* history: a newer statement or reading than this
                                \* thread's reservation reached the store

service == <<health, pending, allowed>>
window == <<signalled, uiReading, view>>
vars == <<health, pending, allowed, observation, operation, pc, token, woken,
          owed, signalled, uiReading, view, overtaken>>

\* "detect": between reserve and commit.  "holding": owns the OperationGuard.
\* "notify": the guard's drop cleared the flag and has not woken anyone yet.
\* "armed": settled() registered and has not read yet.  "waiting": it read an
\* operation in flight and awaits the notification.
ThreadStates == {"idle", "detect", "holding", "notify", "armed", "waiting"}

\* RunState as far as this store owns it.
Snapshot == <<health, pending, allowed, operation>>

TypeOK ==
    /\ health \in HealthStates
    /\ pending \in Actions \cup {NoAction}
    /\ allowed \in BOOLEAN
    /\ observation \in 0 .. MaxObservations
    /\ operation \in BOOLEAN
    /\ pc \in [Threads -> ThreadStates]
    /\ token \in [Threads -> 0 .. MaxObservations]
    /\ woken \in [Threads -> BOOLEAN]
    /\ owed \subseteq Threads
    /\ signalled \in BOOLEAN
    /\ uiReading \in BOOLEAN
    /\ view \in HealthStates \X (Actions \cup {NoAction}) \X BOOLEAN \X BOOLEAN
    /\ overtaken \in [Threads -> BOOLEAN]

Init ==
    /\ health = "Unknown" /\ pending = NoAction /\ allowed = FALSE
    /\ observation = 0
    /\ operation = FALSE
    /\ pc = [t \in Threads |-> "idle"]
    /\ token = [t \in Threads |-> 0]
    /\ woken = [t \in Threads |-> FALSE]
    /\ owed = {}
    /\ signalled = FALSE /\ uiReading = FALSE
    /\ view = Snapshot
    /\ overtaken = [t \in Threads |-> FALSE]

-----------------------------------------------------------------------------
(* StoredService                                                           *)

StoreObserved(h) == health' = h /\ pending' = NoAction /\ allowed' = FALSE

StoreRequested(a) == pending' = a /\ allowed' = FALSE /\ UNCHANGED health

StoreSidecar == pending' = NoAction /\ allowed' = TRUE /\ UNCHANGED health

\* observe and commit leave a store alone that already says this and no more.
AlreadySays(h) == health = h /\ pending = NoAction /\ ~allowed

-----------------------------------------------------------------------------
(* Versions and publication                                                *)

\* A statement made now is newer than every reading in progress.
Overtakes == overtaken' = [t \in Threads |-> pc[t] = "detect"]

\* bump, or next_observation.
InvalidatesTwice ==
    /\ observation < MaxObservations
    /\ observation' = observation + 2
Invalidates ==
    /\ observation < MaxObservations
    /\ observation' = observation + 1

\* A reassertion changes nothing visible but invalidates older readings.
QuietReassertion == UNCHANGED <<observation, service, owed>> /\ Overtakes
Reasserted == Invalidates /\ Overtakes /\ UNCHANGED <<service, owed>>

\* A change is announced after the lock is dropped.
ForgotToAnnounce(t) == UNCHANGED owed
Announced(t) == owed' = owed \cup {t}
Stated(t) == Invalidates /\ Overtakes /\ Announced(t)

\* A thread makes its next call when it has announced its last change.  The
\* owner of the guard goes on calling while it holds it.
Free(t) == pc[t] \in {"idle", "holding"} /\ t \notin owed

Announce(t) ==
    /\ t \in owed
    /\ owed' = owed \ {t}
    /\ signalled' = TRUE
    /\ UNCHANGED <<service, observation, operation, pc, token, woken, uiReading, view, overtaken>>

-----------------------------------------------------------------------------
(* Statements                                                              *)

Observe(t, h) ==
    /\ Free(t)
    /\ IF AlreadySays(h) THEN Reasserted ELSE StoreObserved(h) /\ Stated(t)
    /\ UNCHANGED <<operation, pc, token, woken, window>>

RequestAction(t, a) ==
    /\ Free(t)
    /\ IF pending = a /\ ~allowed THEN Reasserted ELSE StoreRequested(a) /\ Stated(t)
    /\ UNCHANGED <<operation, pc, token, woken, window>>

AcceptSidecar(t) ==
    /\ Free(t)
    /\ IF allowed /\ pending = NoAction THEN Reasserted ELSE StoreSidecar /\ Stated(t)
    /\ UNCHANGED <<operation, pc, token, woken, window>>

\* A cached Ready refuses, and leaves readings in progress valid.
RestoreSidecarAllowance(t) ==
    /\ Free(t)
    /\ allowed \/ health # "Ready"
    /\ IF allowed THEN Reasserted ELSE StoreSidecar /\ Stated(t)
    /\ UNCHANGED <<operation, pc, token, woken, window>>

WithdrawSidecarAllowance(t) ==
    /\ Free(t)
    /\ allowed
    /\ allowed' = FALSE /\ UNCHANGED <<health, pending>>
    /\ Stated(t)
    /\ UNCHANGED <<operation, pc, token, woken, window>>

AllowSidecarForSession(t) ==
    /\ Free(t)
    /\ ~operation
    /\ \/ pending = "Install"
       \/ /\ pending = NoAction /\ ~allowed
          /\ health \in {"NotInstalled", "VersionMismatch", "Unavailable"}
    /\ StoreSidecar /\ Stated(t)
    /\ UNCHANGED <<operation, pc, token, woken, window>>

\* Windows: the refusal and the allowance are published together.
AllowSidecarAfterServiceRefusal(t) ==
    /\ Free(t)
    /\ ~operation /\ pending = NoAction
    /\ health' = "Unavailable" /\ allowed' = TRUE /\ UNCHANGED pending
    /\ Stated(t)
    /\ UNCHANGED <<operation, pc, token, woken, window>>

\* Announces even when it has nothing to say.
RequireInstallForSession(t) ==
    /\ Free(t)
    /\ ~operation
    /\ \/ /\ AlreadySays("NotInstalled")
          /\ StoreRequested("Install") /\ Invalidates /\ Overtakes
       \/ /\ pending = "Install"
          /\ Invalidates /\ Overtakes
          /\ UNCHANGED service
       \/ /\ ~AlreadySays("NotInstalled") /\ pending # "Install"
          /\ UNCHANGED <<service, observation, overtaken>>
    /\ Announced(t)
    /\ UNCHANGED <<operation, pc, token, woken, window>>

-----------------------------------------------------------------------------
(* Readings: observe_current_health                                        *)

\* A newer reservation outdates the older ones.
Reserve(t) ==
    /\ pc[t] = "idle" /\ t \notin owed
    /\ Invalidates
    /\ pc' = [pc EXCEPT ![t] = "detect"]
    /\ token' = [token EXCEPT ![t] = observation']
    /\ overtaken' = [u \in Threads |-> u # t /\ pc[u] = "detect"]
    /\ UNCHANGED <<service, operation, woken, owed, window>>

\* A reading whose I/O found h; a cancelled one just never commits.
Commit(t, h) ==
    /\ pc[t] = "detect"
    /\ IF token[t] = observation /\ ~AlreadySays(h)
       THEN StoreObserved(h) /\ Announced(t)
       ELSE UNCHANGED <<service, owed>>
    /\ pc' = [pc EXCEPT ![t] = "idle"]
    /\ token' = [token EXCEPT ![t] = 0]
    /\ overtaken' = [overtaken EXCEPT ![t] = FALSE]
    /\ UNCHANGED <<observation, operation, woken, window>>

-----------------------------------------------------------------------------
(* The privileged-operation slot                                           *)

SlotFree == ~operation

BeginOperation(t) ==
    /\ pc[t] = "idle" /\ t \notin owed
    /\ SlotFree
    /\ operation' = TRUE
    /\ Stated(t)
    /\ pc' = [pc EXCEPT ![t] = "holding"]
    /\ UNCHANGED <<service, token, woken, window>>

\* OperationGuard::drop: clear the flag, wake the waiters, announce.
DropOperation(t) ==
    /\ pc[t] = "holding" /\ t \notin owed
    /\ operation' = FALSE
    /\ pc' = [pc EXCEPT ![t] = "notify"]
    /\ UNCHANGED <<service, observation, token, woken, owed, window, overtaken>>

\* notify_waiters reaches all that registered before it.
WakesOne == \E u \in Threads : pc[u] \in {"armed", "waiting"} /\ woken' = [woken EXCEPT ![u] = TRUE]
WakesAll == woken' = [u \in Threads |-> pc[u] \in {"armed", "waiting"}]

NotifyWaiters(t) ==
    /\ pc[t] = "notify"
    /\ WakesAll
    /\ pc' = [pc EXCEPT ![t] = "idle"]
    /\ Announced(t)
    /\ UNCHANGED <<service, observation, operation, token, window, overtaken>>

\* settled registers before it reads.
Settled(t) ==
    /\ pc[t] = "idle" /\ t \notin owed
    /\ pc' = [pc EXCEPT ![t] = "armed"]
    /\ woken' = [woken EXCEPT ![t] = FALSE]
    /\ UNCHANGED <<service, observation, operation, token, owed, window, overtaken>>

SettledReads(t) ==
    /\ pc[t] = "armed"
    /\ pc' = [pc EXCEPT ![t] = IF operation THEN "waiting" ELSE "idle"]
    /\ woken' = [woken EXCEPT ![t] = @ /\ operation]
    /\ UNCHANGED <<service, observation, operation, token, owed, window, overtaken>>

SettledWakes(t) ==
    /\ pc[t] = "waiting" /\ woken[t]
    /\ pc' = [pc EXCEPT ![t] = "armed"]
    /\ woken' = [woken EXCEPT ![t] = FALSE]
    /\ UNCHANGED <<service, observation, operation, token, owed, window, overtaken>>

-----------------------------------------------------------------------------
(* The window: changed() is only a wake-up, the value is reread            *)

WindowWakes ==
    /\ signalled
    /\ signalled' = FALSE
    /\ uiReading' = TRUE
    /\ UNCHANGED <<service, observation, operation, pc, token, woken, owed, view, overtaken>>

WindowReads ==
    /\ uiReading
    /\ uiReading' = FALSE
    /\ view' = Snapshot
    /\ UNCHANGED <<service, observation, operation, pc, token, woken, owed, signalled, overtaken>>

-----------------------------------------------------------------------------
Statement(t) ==
    \/ \E h \in Verdicts \cup {"Unknown"} : Observe(t, h)
    \/ \E a \in Actions : RequestAction(t, a)
    \/ AcceptSidecar(t) \/ RestoreSidecarAllowance(t) \/ WithdrawSidecarAllowance(t)
    \/ AllowSidecarForSession(t) \/ AllowSidecarAfterServiceRefusal(t)
    \/ RequireInstallForSession(t)

Reading(t) == Reserve(t) \/ \E h \in Verdicts : Commit(t, h)

Operating(t) ==
    \/ BeginOperation(t) \/ DropOperation(t) \/ NotifyWaiters(t)
    \/ Settled(t) \/ SettledReads(t) \/ SettledWakes(t)

Next ==
    \/ \E t \in Threads : Announce(t) \/ Statement(t) \/ Reading(t) \/ Operating(t)
    \/ WindowWakes
    \/ WindowReads

Spec == Init /\ [][Next]_vars

-----------------------------------------------------------------------------
(* What the store guarantees                                               *)

\* health.rs:174: "`pending` and `sidecar_allowed` are mutually exclusive",
\* also through failed actions, fallbacks and readings that overtake them.
IntentExclusive == ~(pending # NoAction /\ allowed)

\* A reading that some statement or newer reading overtook changes nothing, even
\* when the statement itself had nothing visible to change: a slow probe cannot
\* retire a request, clear an allowance or revive an older health
\* (commit_reserved_observation).
OvertakenReadingDiscarded ==
    [][\A t \in Threads :
         pc[t] = "detect" /\ pc'[t] = "idle" /\ overtaken[t] => UNCHANGED service]_vars

\* A settled() call never sleeps through the end of the operation it waits for:
\* while it sleeps unwoken, an operation runs or its guard is about to notify.
NoLostWakeup ==
    \A t \in Threads :
        pc[t] = "waiting" /\ ~woken[t] =>
            operation \/ \E u \in Threads : pc[u] = "notify"

\* The privileged-operation slot has one owner.
OneOperation ==
    \A t, u \in Threads : pc[t] = "holding" /\ pc[u] = "holding" => t = u

\* Publications can reach the watch channel out of order, but the window only
\* takes them as a wake-up: as long as it shows something else than the store
\* holds, a wake-up or a reread is still to come (announce, app.rs).
ViewCatchesUp ==
    view # Snapshot =>
        signalled \/ uiReading \/ owed # {} \/ \E t \in Threads : pc[t] = "notify"
=============================================================================
