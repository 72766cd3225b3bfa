---------------------------- MODULE CoreSession ----------------------------
(***************************************************************************)
(* Who may run the desktop's managed core, and when its PAC listener       *)
(* serves: the lifecycle of a CoreSession that owns a local process        *)
(* (crates/zenclash-core/src/core_session/: supervision.rs, automatic.rs,  *)
(* maintenance.rs, run_state.rs).                                          *)
(*                                                                         *)
(* The supervisor, the network monitor, callers of maintain() and the      *)
(* shutdown change the core under the transition lock, but they read and   *)
(* write the lifecycle, the running mode and the availability of PAC       *)
(* outside of it.  A step is what a task does between two awaits, or under *)
(* one of the short locks.                                                 *)
(***************************************************************************)
EXTENDS Integers, FiniteSets

CONSTANTS
    Callers,      \* tasks that call maintain()
    Supervisor,   \* supervise_managed_core
    Network,      \* the network monitor: one task, which awaits each of its calls
    Closer,       \* the task that shuts the session down
    Nobody,
    MaxAttempts,  \* CoreRecoveryPolicy::max_attempts
    MaxBusy       \* bound: operations under way at a time, beside the supervisor and a shutdown

Tasks == Callers \cup {Supervisor, Network, Closer}

ASSUME SessionAssumption ==
    /\ Nobody \notin Tasks
    /\ Supervisor # Network /\ Network # Closer /\ Supervisor # Closer
    /\ Callers \cap {Supervisor, Network, Closer} = {}
    /\ MaxAttempts \in Nat /\ MaxBusy \in Nat

VARIABLES
    running,    \* the owned child process
    life,       \* CoreLifecycleSnapshot: phase, stop_requested, recovery_attempts
    suspended,  \* network_suspended
    closing,    \* shutdown_requested
    mode,       \* the store's mode: TRUE is Sidecar, FALSE is NotRunning
    available,  \* PacEffects::available
    pausing,    \* the tasks that hold a PacAvailabilityPauseGuard
    transition, \* who holds the transition lock
    modeUpdate, \* who holds mode_update
    task,       \* what each task does
    intent,     \* history: what was asked for last
    closed      \* history: a shutdown has confirmed the stop

core == <<running, intent, closed>>
flags == <<life, suspended, closing>>
pac == <<mode, available, pausing, modeUpdate>>
vars == <<running, life, suspended, closing, mode, available, pausing, transition,
          modeUpdate, task, intent, closed>>

Phases == {"Stable", "Recovering", "Failed", "ShuttingDown", "Stopped",
           "NetworkSuspended", "Unknown"}
Intents == {"run", "stop", "suspend"}
Ops == {"supervise", "restart", "stop", "suspend", "resume", "shutdown"}
Pcs == {"idle", "gone", "decide", "recover", "queue", "admit", "inspect", "work", "spawn",
        "launch", "ready", "record", "requeue", "again", "unlock", "look", "probe", "publish",
        "enter", "settle", "settled"}

Life == [phase : Phases, stop : BOOLEAN, attempts : 0..MaxAttempts]
\* What a restart by maintain() restores when it changed nothing.
Prior == [phase : Phases, stop : BOOLEAN, suspended : BOOLEAN, intent : Intents,
          running : BOOLEAN]
\* saw: the process, the lifecycle or the mode as last read.  ok: the result of the
\* operation; for the supervisor's observation, that it recovers.  spawned: a restart
\* has replaced the process.
Task == [op : Ops, pc : Pcs, saw : BOOLEAN, ok : BOOLEAN, spawned : BOOLEAN, prior : Prior]

NoPrior == [phase |-> "Stable", stop |-> FALSE, suspended |-> FALSE, intent |-> "run",
            running |-> FALSE]
Does(op, pc) == [op |-> op, pc |-> pc, saw |-> FALSE, ok |-> FALSE, spawned |-> FALSE,
                 prior |-> NoPrior]
Resting(t) == CASE t = Supervisor -> Does("supervise", "idle")
                [] t = Network -> Does("suspend", "idle")
                [] t = Closer -> Does("shutdown", "idle")
                [] OTHER -> Does("stop", "idle")

TypeOK ==
    /\ running \in BOOLEAN
    /\ life \in Life
    /\ suspended \in BOOLEAN /\ closing \in BOOLEAN
    /\ mode \in BOOLEAN /\ available \in BOOLEAN
    /\ pausing \subseteq Tasks
    /\ transition \in Tasks \cup {Nobody}
    /\ modeUpdate \in Tasks \cup {Nobody}
    /\ task \in [Tasks -> Task]
    /\ intent \in Intents
    /\ closed \in BOOLEAN

Stable == [phase |-> "Stable", stop |-> FALSE, attempts |-> 0]

Init ==
    /\ running = TRUE
    /\ life = Stable
    /\ suspended = FALSE /\ closing = FALSE
    /\ mode = FALSE /\ available = FALSE /\ pausing = {}
    /\ transition = Nobody /\ modeUpdate = Nobody
    /\ task = [t \in Tasks |-> Resting(t)]
    /\ intent = "run"
    /\ closed = FALSE

-----------------------------------------------------------------------------
(* Tasks *)

At(t, pc) == task[t].pc = pc
Op(t) == task[t].op
Goto(t, pc) == task' = [task EXCEPT ![t].pc = pc]
\* t goes on and forgets what it did before.
Afresh(t, pc) == task' = [task EXCEPT ![t] = [Resting(t) EXCEPT !.pc = pc]]
Rest(t) == Afresh(t, "idle")
Busy == {t \in Callers \cup {Network} : ~At(t, "idle")}

\* PacEffects::apply
Served == pausing = {} /\ available

\* pause_pac_availability: the pause, and core_starting.
Pause(t) == pausing' = pausing \cup {t} /\ available' = FALSE

SetPhase(p) == life' = [life EXCEPT !.phase = p]

-----------------------------------------------------------------------------
(* How an operation begins and is admitted *)

\* maintain, up to the transition lock.
Maintain(t, op) ==
    /\ t \in Callers /\ At(t, "idle")
    /\ ~closing
    /\ task' = [task EXCEPT ![t] = Does(op, "queue")]
    /\ UNCHANGED <<core, flags, pac, transition>>

\* suspend_for_network and resume_after_network pause before they wait for the lock.
\* The monitor ends when the application quits, before it closes the session.
Monitor(op) ==
    /\ At(Network, "idle")
    /\ ~closing
    /\ task' = [task EXCEPT ![Network] = Does(op, "queue")]
    /\ Pause(Network)
    /\ UNCHANGED <<core, flags, mode, modeUpdate, transition>>

\* request_shutdown and the pause of shutdown, in one step: the flag, the closed PAC, the
\* mode and the lifecycle.  A shutdown that failed may be called again.
Close ==
    /\ At(Closer, "idle") /\ ~closed
    /\ closing' = TRUE
    /\ mode' = FALSE
    /\ life' = [life EXCEPT !.stop = TRUE, !.phase = "ShuttingDown"]
    /\ Pause(Closer)
    /\ Goto(Closer, "queue")
    /\ UNCHANGED <<core, suspended, modeUpdate, transition>>

\* A variant for comparison: a recovery that overlooks the explicit stop.
RefusedWithoutStop(t) ==
    CASE Op(t) \in {"restart", "stop"} -> closing
      [] Op(t) = "suspend" -> closing \/ life.stop
      [] Op(t) = "resume" -> closing \/ ~suspended \/ life.stop
      [] Op(t) = "supervise" -> closing \/ suspended
      [] Op(t) = "shutdown" -> FALSE

\* Whether the operation gives up when it has the lock.
Refused(t) ==
    CASE Op(t) \in {"restart", "stop"} -> closing
      [] Op(t) = "suspend" -> closing \/ life.stop
      [] Op(t) = "resume" -> closing \/ ~suspended \/ life.stop
      [] Op(t) = "supervise" -> closing \/ suspended \/ life.stop
      [] Op(t) = "shutdown" -> FALSE

Admitted(op) == CASE op \in {"restart", "stop", "suspend"} -> "admit"
                  [] op \in {"resume", "shutdown"} -> "work"
                  [] op = "supervise" -> "inspect"

\* A variant for comparison: a shutdown that does not wait for the lock.
AcquireAtOnce(t) ==
    /\ At(t, "queue") /\ (Op(t) = "shutdown" \/ transition = Nobody)
    /\ IF Refused(t)
       THEN IF t \in pausing
            THEN Afresh(t, "unlock") /\ transition' = t
            ELSE Rest(t) /\ UNCHANGED transition
       ELSE Goto(t, Admitted(Op(t))) /\ transition' = t
    /\ IF Op(t) = "shutdown" THEN SetPhase("ShuttingDown") ELSE UNCHANGED life
    /\ UNCHANGED <<core, suspended, closing, pac>>

Acquire(t) ==
    /\ At(t, "queue") /\ transition = Nobody
    /\ IF Refused(t)
       THEN IF t \in pausing
            THEN Afresh(t, "unlock") /\ transition' = t
            ELSE Rest(t) /\ UNCHANGED transition
       ELSE Goto(t, Admitted(Op(t))) /\ transition' = t
    /\ IF Op(t) = "shutdown" THEN SetPhase("ShuttingDown") ELSE UNCHANGED life
    /\ UNCHANGED <<core, suspended, closing, pac>>

\* The supervisor's recovery may get no lease, or find the binding changed.
RecoverRefused ==
    /\ At(Supervisor, "queue") /\ transition = Nobody
    /\ Rest(Supervisor)
    /\ UNCHANGED <<core, flags, pac, transition>>

\* maintain's admission: the intent is recorded, and completion no longer depends on
\* the caller.
AdmitMaintain(t) ==
    /\ At(t, "admit") /\ Op(t) \in {"restart", "stop"}
    /\ task' = [task EXCEPT ![t].pc = "work",
                            ![t].prior = IF Op(t) = "stop" THEN NoPrior ELSE
                                         [phase |-> life.phase, stop |-> life.stop,
                                          suspended |-> suspended, intent |-> intent,
                                          running |-> running]]
    /\ suspended' = FALSE
    /\ life' = [life EXCEPT !.stop = Op(t) = "stop"]
    /\ intent' = IF Op(t) = "stop" THEN "stop" ELSE "run"
    /\ Pause(t)
    /\ UNCHANGED <<running, closed, closing, mode, modeUpdate, transition>>

\* admit_network_suspension; the lock is given back while capture is released.
AdmitSuspension ==
    /\ At(Network, "admit") /\ Op(Network) = "suspend"
    /\ suspended' = TRUE
    /\ SetPhase("NetworkSuspended")
    /\ intent' = "suspend"
    /\ transition' = Nobody
    /\ Goto(Network, "requeue")
    /\ UNCHANGED <<running, closed, closing, pac>>

\* The second half of a suspension, or of a resumption, checks again.
Reacquire ==
    /\ At(Network, "requeue") /\ transition = Nobody
    /\ transition' = Network
    /\ IF closing \/ ~suspended
       THEN Afresh(Network, "unlock")
       ELSE Goto(Network, IF Op(Network) = "suspend" THEN "work" ELSE "again")
    /\ UNCHANGED <<core, flags, pac>>

\* A resumption ends early if the capture cannot be reconciled.
CaptureFails ==
    /\ At(Network, "requeue") /\ Op(Network) = "resume"
    /\ Afresh(Network, "look")
    /\ UNCHANGED <<core, flags, pac, transition>>

Resumed ==
    /\ At(Network, "again")
    /\ suspended' = FALSE
    /\ life' = Stable
    /\ intent' = "run"
    /\ Afresh(Network, "unlock")
    /\ UNCHANGED <<running, closed, closing, pac, transition>>

-----------------------------------------------------------------------------
(* The supervisor *)

\* One observation.  The loop ends with the session.
Observe ==
    /\ At(Supervisor, "idle")
    /\ task' = [task EXCEPT ![Supervisor] =
                   IF closing THEN Does("supervise", "gone")
                   ELSE [Does("supervise", "decide") EXCEPT !.saw = running]]
    /\ UNCHANGED <<core, flags, pac, transition>>

\* supervisor_observation.
Suppressed ==
    \/ closing \/ suspended \/ life.stop
    \/ life.phase \in {"Stopped", "NetworkSuspended", "ShuttingDown"}
\* A variant for comparison: an unknown status counts as a new exit.
NewExitOrUnknown == life.phase \in {"Stable", "Unknown"}

NewExit == life.phase = "Stable"
Attempts == IF NewExit THEN 0 ELSE life.attempts

\* A variant for comparison: one attempt too many.
ExhaustedLate == Attempts > MaxAttempts

Exhausted == Attempts >= MaxAttempts

Supervise(phase, attempts, recovers) ==
    /\ At(Supervisor, "decide")
    /\ life' = [life EXCEPT !.phase = phase, !.attempts = attempts]
    /\ task' = [task EXCEPT ![Supervisor].pc = "look", ![Supervisor].ok = recovers]
    /\ UNCHANGED <<core, suspended, closing, pac, transition>>

Decide ==
    LET saw == task[Supervisor].saw IN
    \/ Suppressed /\ Supervise(life.phase, life.attempts, FALSE)
    \/ /\ ~Suppressed /\ saw
       /\ Supervise(IF life.phase = "Unknown" THEN "Stable" ELSE life.phase,
                    life.attempts, FALSE)
    \/ /\ ~Suppressed /\ ~saw
       /\ Supervise(IF Exhausted THEN "Failed" ELSE "Recovering", Attempts, ~Exhausted)

ObservationFails == ~Suppressed /\ Supervise("Unknown", life.attempts, FALSE)

\* After the delay.
Recover ==
    /\ At(Supervisor, "recover")
    /\ Afresh(Supervisor, IF closing /\ life.attempts > 0 THEN "gone" ELSE "queue")
    /\ UNCHANGED <<core, flags, pac, transition>>

\* recover_managed_core under the lock.
Inspect ==
    /\ At(Supervisor, "inspect")
    /\ Pause(Supervisor)
    /\ IF running
       THEN SetPhase("Stable") /\ Afresh(Supervisor, "look")
       ELSE /\ life' = [life EXCEPT !.attempts = @ + 1, !.phase = "Recovering"]
            /\ Goto(Supervisor, "work")
    /\ UNCHANGED <<core, suspended, closing, mode, modeUpdate, transition>>

-----------------------------------------------------------------------------
(* maintain_owned: the process *)

Stops(t) == Op(t) \in {"stop", "suspend", "shutdown"}
Succeed(t) == task' = [task EXCEPT ![t] = [Does(Op(t), "record") EXCEPT !.ok = TRUE]]
Fail(t) == Goto(t, "record")

\* stop_async; or what a restart does before it spawns: it validates, and stops the old
\* process, unless the session is closing.
Stop(t) ==
    /\ At(t, "work")
    /\ \/ /\ Stops(t) \/ ~closing
          /\ running' = FALSE
          /\ IF Stops(t) THEN Succeed(t) ELSE Goto(t, "spawn")
       \/ Fail(t) /\ UNCHANGED running
    /\ UNCHANGED <<intent, closed, flags, pac, transition>>

\* The last look at the flag, and the spawn.
Proceed(t) ==
    /\ At(t, "spawn")
    /\ IF closing THEN Fail(t) ELSE Goto(t, "launch")
    /\ UNCHANGED <<core, flags, pac, transition>>
Spawn(t) ==
    /\ At(t, "launch")
    /\ \/ /\ running' = TRUE
          /\ task' = [task EXCEPT ![t].pc = "ready", ![t].spawned = TRUE]
       \/ Fail(t) /\ UNCHANGED running
    /\ UNCHANGED <<intent, closed, flags, pac, transition>>

\* wait_until_ready, and the stop of a core that is not.
Ready(t) ==
    /\ At(t, "ready")
    /\ \/ running /\ Succeed(t) /\ UNCHANGED running
       \/ Fail(t) /\ running' \in {FALSE, running}
    /\ UNCHANGED <<intent, closed, flags, pac, transition>>

-----------------------------------------------------------------------------
(* The result of an operation *)

\* The process of the caller's snapshot is another one now, or in another state.
Replaced(t) ==
    LET before == task[t].prior.running IN
    before # running \/ (task[t].spawned /\ running)

\* maintain: a failed restart that changed nothing restores what it found.  If it did
\* change the process, or its exit reason, or cannot tell, and after a stop, the result
\* is recorded (record_maintenance_outcome).
Kept(t) == Op(t) = "restart" /\ ~task[t].ok /\ ~Replaced(t)
Closing(l) == IF closing THEN [l EXCEPT !.stop = TRUE, !.phase = "ShuttingDown"] ELSE l
RecordMaintain(t) ==
    /\ Op(t) \in {"restart", "stop"}
    /\ LET p == task[t].prior IN
       \/ /\ Kept(t)
          /\ life' = Closing([life EXCEPT !.phase = p.phase, !.stop = p.stop])
          /\ suspended' = p.suspended
          /\ intent' = p.intent
       \/ /\ life' = Closing([life EXCEPT
                !.stop = Op(t) = "stop",
                !.phase = IF ~task[t].ok THEN "Unknown"
                          ELSE IF Op(t) = "stop" THEN "Stopped" ELSE "Stable"])
          /\ UNCHANGED <<suspended, intent>>
    /\ Afresh(t, "unlock")
    /\ UNCHANGED <<transition, closed>>

RecordNetwork ==
    /\ IF task[Network].ok THEN UNCHANGED life ELSE SetPhase("Unknown")
    /\ IF task[Network].ok /\ Op(Network) = "resume"
       THEN task' = [task EXCEPT ![Network] = Does("resume", "requeue")] /\ transition' = Nobody
       ELSE Afresh(Network, "unlock") /\ UNCHANGED transition
    /\ UNCHANGED <<suspended, intent, closed>>

RecordRecovery ==
    /\ SetPhase(IF task[Supervisor].ok THEN "Stable"
                ELSE IF life.attempts >= MaxAttempts THEN "Failed" ELSE "Recovering")
    /\ Afresh(Supervisor, "look")
    /\ UNCHANGED <<suspended, intent, transition, closed>>

RecordShutdown ==
    /\ SetPhase(IF task[Closer].ok THEN "Stopped" ELSE "Unknown")
    /\ closed' = task[Closer].ok
    /\ Afresh(Closer, "unlock")
    /\ UNCHANGED <<suspended, intent, transition>>

Record(t) ==
    /\ At(t, "record")
    /\ CASE t = Supervisor -> RecordRecovery
         [] t = Network -> RecordNetwork
         [] t = Closer -> RecordShutdown
         [] OTHER -> RecordMaintain(t)
    /\ UNCHANGED <<running, closing, pac>>

\* The guards are dropped in the reverse order of their declarations: the pause guard
\* last, but for the supervisor's, which is dropped under the lock.
Unlock(t) ==
    /\ At(t, "unlock")
    /\ transition' = Nobody
    /\ Afresh(t, IF t = Supervisor THEN "idle" ELSE "look")
    /\ UNCHANGED <<core, flags, pac>>

-----------------------------------------------------------------------------
(* reconcile_run_state, by the supervisor and by every guard that is dropped *)

Active == ~closing /\ ~suspended /\ life.phase = "Stable" /\ ~life.stop

Look(t) ==
    /\ At(t, "look") /\ modeUpdate = Nobody
    /\ modeUpdate' = t
    /\ task' = [task EXCEPT ![t].pc = "probe", ![t].saw = Active]
    /\ UNCHANGED <<core, flags, mode, available, pausing, transition>>

Probe(t) ==
    /\ At(t, "probe")
    /\ task' = [task EXCEPT ![t].pc = "publish", ![t].saw = @ /\ running]
    /\ UNCHANGED <<core, flags, pac, transition>>

\* What follows a reconciliation: the supervisor's decision, or the rest of the drop.
Reconciled(t) ==
    /\ modeUpdate' = Nobody
    /\ IF t \in pausing THEN Afresh(t, "settle")
       ELSE Afresh(t, IF task[t].ok THEN "recover" ELSE "idle")

\* A variant for comparison: a reconciliation that finds the mode unchanged does nothing.
PublishOnce(t) ==
    LET saw == task[t].saw IN
    /\ At(t, "publish")
    /\ CASE saw = mode -> Reconciled(t) /\ UNCHANGED <<available, mode>>
         [] saw /\ ~mode -> mode' = TRUE /\ Goto(t, "enter") /\ UNCHANGED <<available, modeUpdate>>
         [] OTHER -> available' = FALSE /\ Goto(t, "enter") /\ UNCHANGED <<mode, modeUpdate>>
    /\ UNCHANGED <<core, flags, pausing, transition>>

\* enter_mode: PAC is closed before the mode is left, and opened after it is entered.
\* A reconciliation that finds the mode unchanged settles the availability.
Publish(t) ==
    LET saw == task[t].saw IN
    /\ At(t, "publish")
    /\ CASE saw = mode -> available' = mode /\ Reconciled(t) /\ UNCHANGED mode
         [] saw /\ ~mode -> mode' = TRUE /\ Goto(t, "enter") /\ UNCHANGED <<available, modeUpdate>>
         [] OTHER -> available' = FALSE /\ Goto(t, "enter") /\ UNCHANGED <<mode, modeUpdate>>
    /\ UNCHANGED <<core, flags, pausing, transition>>
Enter(t) ==
    /\ At(t, "enter")
    /\ IF task[t].saw
       THEN available' = TRUE /\ UNCHANGED mode
       ELSE mode' = FALSE /\ UNCHANGED available
    /\ Reconciled(t)
    /\ UNCHANGED <<core, flags, pausing, transition>>

\* The rest of a guard's drop, outside of mode_update: core_start_settled reads the mode
\* and then sets the availability; the pause is lifted last.
Settle(t) ==
    /\ At(t, "settle")
    /\ task' = [task EXCEPT ![t].pc = "settled", ![t].saw = mode]
    /\ UNCHANGED <<core, flags, pac, transition>>
Settled(t) ==
    /\ At(t, "settled")
    /\ available' = task[t].saw
    /\ pausing' = pausing \ {t}
    /\ Afresh(t, IF t = Supervisor THEN "unlock" ELSE "idle")
    /\ UNCHANGED <<core, flags, mode, modeUpdate, transition>>

-----------------------------------------------------------------------------
\* The core may exit at any time.
Exit ==
    /\ running
    /\ running' = FALSE
    /\ UNCHANGED <<intent, closed, flags, pac, transition, task>>

Begin ==
    \/ /\ Cardinality(Busy) < MaxBusy
       /\ \/ \E t \in Callers, op \in {"restart", "stop"} : Maintain(t, op)
          \/ \E op \in {"suspend", "resume"} : Monitor(op)
    \/ Close

\* The application may end when the session is closed.
Over ==
    /\ closed /\ (\A t \in Tasks \ {Supervisor} : At(t, "idle")) /\ At(Supervisor, "gone")
    /\ UNCHANGED vars

\* One step of a task that has begun something.
Step(t) ==
    \/ Acquire(t)
    \/ AdmitMaintain(t)
    \/ Stop(t) \/ Proceed(t) \/ Spawn(t) \/ Ready(t)
    \/ Record(t) \/ Unlock(t)
    \/ Look(t) \/ Probe(t) \/ Publish(t) \/ Enter(t) \/ Settle(t) \/ Settled(t)
    \/ t = Supervisor /\ (Observe \/ Decide \/ Recover \/ Inspect)
    \/ t = Network /\ (AdmitSuspension \/ Reacquire \/ Resumed)

Next == Begin \/ (\E t \in Tasks : Step(t)) \/ RecoverRefused \/ ObservationFails
        \/ CaptureFails \/ Exit \/ Over

Spec == Init /\ [][Next]_vars

\* The runtime polls every task that is ready, and the locks are fair: one that waits
\* is not passed over for ever.
\* A recovery gets its lease, and an observation succeeds, if tried again and again.
FairSpec ==
    /\ Spec
    /\ \A t \in Tasks : SF_vars(Step(t))
    /\ SF_vars(Acquire(Supervisor)) /\ SF_vars(Decide)

-----------------------------------------------------------------------------
(* Properties *)

\* A shutdown that has confirmed the stop is final: no operation that was queued before
\* it, and no recovery, starts the core again (maintenance.rs: ensure_not_shutting_down
\* under the transition lock; supervision.rs: recover_managed_core).
ShutdownFinal == closed => ~running

\* No core is started against the last intent that was admitted: after an explicit stop
\* nothing but an explicit restart starts one, and after a link loss nothing but that or
\* the resumption (automatic.rs: the second half of a suspension or resumption;
\* maintenance.rs: a rejected restart).
IntentRespected ==
    [][~running /\ running' =>
         /\ intent # "stop"
         /\ intent = "suspend" => Op(transition) = "resume"]_vars

\* PAC ends closed if the core stays down, and open if it stays up and is wanted,
\* whatever older reconciliations and guards still write (run_state.rs:
\* reconcile_run_state, PacAvailabilityPauseGuard::drop).
Wanted == life.phase = "Stable" /\ ~life.stop /\ ~suspended /\ ~closing
PacFollowsCore ==
    /\ <>[](~running /\ ~closing) => <>[]~Served
    /\ <>[](running /\ Wanted /\ pausing = {}) => <>[]Served

\* A core that stays down is given up, or was stopped: the supervisor neither misses the
\* exit nor tries for ever (supervision.rs: supervisor_observation).
GivenUp == life.phase # "Stable" /\ life.attempts = MaxAttempts
ExitIsSettled ==
    <>[](~running /\ ~closing /\ \A c \in Callers : At(c, "idle"))
    => <>[](life.stop \/ suspended \/ GivenUp)
=============================================================================
