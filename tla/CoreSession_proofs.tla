------------------------ MODULE CoreSession_proofs ------------------------
(***************************************************************************)
(* What CoreSession guarantees for any number of callers and recovery      *)
(* attempts.                                                               *)
(***************************************************************************)
EXTENDS CoreSession, TLAPS

\* Where a task holds the transition lock; where it works on the process; and from
\* where it may still start one.
Held == {"admit", "inspect", "work", "spawn", "launch", "ready", "record", "again", "unlock"}
Working == {"inspect", "work", "spawn", "launch", "ready", "record"}
Starting == {"admit", "inspect", "work", "spawn", "launch"}

Fits(t, op) ==
    /\ t \in Callers => op \in {"restart", "stop"}
    /\ t = Supervisor => op = "supervise"
    /\ t = Network => op \in {"suspend", "resume"}
    /\ t = Closer => op = "shutdown"

\* What is asked for shows in the lifecycle.
Shows(i, stop, susp) == (i = "stop" => stop) /\ (i = "suspend" => susp)

\* A task has its own operations and works under the lock; one that may start a core
\* was admitted by the present intent, and before a shutdown.
TaskInv(t) ==
    /\ Fits(t, task[t].op)
    /\ task[t].pc \in Held => transition = t
    /\ task[t].pc \in {"spawn", "launch", "ready"} => task[t].op \notin {"stop", "suspend", "shutdown"}
    /\ Shows(task[t].prior.intent, task[t].prior.stop, task[t].prior.suspended)
    /\ task[t].pc \in Working =>
         /\ task[t].op \in {"restart", "supervise"} => intent = "run"
         /\ task[t].op = "resume" => intent # "stop"
    /\ closed => task[t].pc \notin Starting

\* The supervisor drops its pause before the lock.
SupervisorPauses ==
    /\ Supervisor \in pausing => transition = Supervisor
    /\ task[Supervisor].pc \in {"settle", "settled"} => Supervisor \in pausing
    /\ task[Supervisor].pc = "unlock" => Supervisor \notin pausing

\* A recovery that was decided has an attempt left.
Budget ==
    \/ task[Supervisor].pc \in {"recover", "queue", "inspect"}
    \/ task[Supervisor].pc \in {"look", "probe", "publish", "enter"} /\ task[Supervisor].ok
    => life.attempts < MaxAttempts

\* A shutdown announces itself, and once it has stopped the core it keeps it stopped.
Sealed ==
    /\ task[Closer].pc # "idle" => closing
    /\ closed => closing /\ ~running /\ task[Closer].pc # "queue"
    /\ task[Closer].pc = "record" /\ task[Closer].ok => ~running
    /\ task[Closer].pc \in {"idle", "queue", "work"} => ~task[Closer].ok

Recorded == Shows(intent, life.stop, suspended)

SessionInv ==
    TypeOK /\ (\A t \in Tasks : TaskInv(t)) /\ SupervisorPauses /\ Budget /\ Sealed /\ Recorded

-----------------------------------------------------------------------------
(* Tasks *)

\* Only t has moved.
OnlyMoves(t) ==
    /\ task' \in [Tasks -> Task]
    /\ \A u \in Tasks : u # t => task'[u] = task[u]

LEMMA TasksApart ==
    /\ Supervisor \in Tasks /\ Network \in Tasks /\ Closer \in Tasks /\ Nobody \notin Tasks
    /\ Supervisor # Network /\ Network # Closer /\ Supervisor # Closer
    /\ \A c \in Callers : c \in Tasks /\ c # Supervisor /\ c # Network /\ c # Closer
BY SessionAssumption DEF Tasks

LEMMA PriorTyped == NoPrior \in Prior /\ Shows(NoPrior.intent, NoPrior.stop, NoPrior.suspended)
BY DEF NoPrior, Prior, Phases, Intents, Shows

LEMMA DoesTyped ==
    ASSUME NEW op \in Ops, NEW pc \in Pcs
    PROVE  /\ Does(op, pc) \in Task
           /\ Does(op, pc).op = op /\ Does(op, pc).pc = pc
           /\ Does(op, pc).ok = FALSE /\ Does(op, pc).prior = NoPrior
BY PriorTyped DEF Does, Task

\* A task that rests is ready for its own operations.
LEMMA RestingTyped ==
    ASSUME NEW t \in Tasks
    PROVE  /\ Resting(t) \in Task /\ Resting(t).pc = "idle" /\ Resting(t).ok = FALSE
           /\ Resting(t).prior = NoPrior
           /\ Fits(t, Resting(t).op)
<1>1. /\ Does("supervise", "idle") \in Task /\ Does("suspend", "idle") \in Task
      /\ Does("shutdown", "idle") \in Task /\ Does("stop", "idle") \in Task
  BY DoesTyped DEF Ops, Pcs
<1>2. CASE t = Supervisor
  BY <1>1, <1>2, TasksApart DEF Resting, Fits, Does
<1>3. CASE t = Network
  BY <1>1, <1>3, TasksApart DEF Resting, Fits, Does
<1>4. CASE t = Closer
  BY <1>1, <1>4, TasksApart DEF Resting, Fits, Does
<1>5. CASE t \in Callers
  BY <1>1, <1>5, TasksApart DEF Resting, Fits, Does
<1> QED BY <1>2, <1>3, <1>4, <1>5 DEF Tasks

LEMMA GotoMoves ==
    ASSUME task \in [Tasks -> Task], NEW t \in Tasks, NEW pc \in Pcs, Goto(t, pc)
    PROVE  /\ OnlyMoves(t) /\ task'[t].pc = pc
           /\ task'[t].op = task[t].op /\ task'[t].ok = task[t].ok
           /\ task'[t].prior = task[t].prior
BY DEF Goto, OnlyMoves, Task

LEMMA AfreshMoves ==
    ASSUME task \in [Tasks -> Task], NEW t \in Tasks, NEW pc \in Pcs, Afresh(t, pc)
    PROVE  /\ OnlyMoves(t) /\ task'[t].pc = pc
           /\ Fits(t, task'[t].op) /\ task'[t].ok = FALSE
           /\ task'[t].prior = NoPrior
BY RestingTyped DEF Afresh, OnlyMoves, Task

\* What t does under the lock, or when it takes it, and what it does outside of it
\* without a change of intent, keeps the other tasks as they were.
LEMMA OtherTasks ==
    ASSUME SessionInv, NEW t \in Tasks, OnlyMoves(t),
           \/ transition = t
           \/ transition = Nobody /\ transition' \in {t, Nobody}
           \/ UNCHANGED <<transition, intent, closed>>
    PROVE  \A u \in Tasks : u # t => TaskInv(u)'
<1> SUFFICES ASSUME NEW u \in Tasks, u # t PROVE TaskInv(u)'
  OBVIOUS
<1>1. task'[u] = task[u] /\ TaskInv(u)
  BY DEF OnlyMoves, SessionInv
<1>2. CASE task[u].pc \notin Held
  BY <1>1, <1>2 DEF TaskInv, Held, Working, Starting
<1>3. CASE task[u].pc \in Held
  <2>1. transition = u /\ u # Nobody
    BY <1>1, <1>3, TasksApart DEF TaskInv
  <2> QED BY <1>1, <2>1 DEF TaskInv
<1> QED BY <1>2, <1>3

\* So an action has to be looked at for its own task and for what all tasks share.
LEMMA OneTask ==
    ASSUME SessionInv, NEW t \in Tasks, OnlyMoves(t),
           \/ transition = t
           \/ transition = Nobody /\ transition' \in {t, Nobody}
           \/ UNCHANGED <<transition, intent, closed>>,
           TypeOK', TaskInv(t)', SupervisorPauses', Budget', Sealed', Recorded'
    PROVE  SessionInv'
BY OtherTasks DEF SessionInv

-----------------------------------------------------------------------------
THEOREM InitHolds == Init => SessionInv
<1> SUFFICES ASSUME Init PROVE SessionInv
  OBVIOUS
<1>1. \A t \in Tasks : task[t] = Resting(t)
  BY DEF Init
<1>2. TypeOK
  <2>1. task \in [Tasks -> Task]
    BY RestingTyped DEF Init
  <2>2. Stable \in Life
    BY SessionAssumption DEF Stable, Life, Phases
  <2> QED BY <2>1, <2>2 DEF Init, TypeOK, Intents
<1>3. \A t \in Tasks : TaskInv(t)
  BY <1>1, RestingTyped, PriorTyped DEF Init, TaskInv, Held, Working, Starting
<1>4. SupervisorPauses /\ Budget /\ Sealed /\ Recorded
  BY <1>1, RestingTyped, TasksApart
  DEF Init, SupervisorPauses, Budget, Sealed, Recorded, Shows
<1> QED BY <1>2, <1>3, <1>4 DEF SessionInv

-----------------------------------------------------------------------------
(* How an operation begins and is admitted *)

LEMMA MaintainStep ==
    ASSUME SessionInv, NEW t \in Tasks, NEW op \in {"restart", "stop"}, Maintain(t, op)
    PROVE  SessionInv'
<1>1. task'[t] = Does(op, "queue") /\ OnlyMoves(t)
  BY DoesTyped DEF Maintain, OnlyMoves, SessionInv, TypeOK, Ops, Pcs
<1>2. /\ task'[t].op = op /\ task'[t].pc = "queue" /\ task'[t].prior = NoPrior
      /\ task'[t].ok = FALSE /\ ~closing
      /\ UNCHANGED <<core, flags, pac, transition>> /\ t \in Callers
  <2>1. /\ UNCHANGED <<core, flags, pac, transition>> /\ t \in Callers /\ ~closing
    BY DEF Maintain
  <2> QED BY <1>1, <2>1 DEF Does
<1>3. TypeOK'
  BY <1>1, <1>2 DEF SessionInv, TypeOK, OnlyMoves, core, flags, pac
<1>4. TaskInv(t)'
  BY <1>2, PriorTyped, TasksApart DEF TaskInv, Fits, Held, Working, Starting
<1>5. SupervisorPauses' /\ Budget' /\ Sealed' /\ Recorded'
  BY <1>1, <1>2, TasksApart
  DEF SessionInv, OnlyMoves, SupervisorPauses, Budget, Sealed, Recorded, core, flags, pac
<1> QED BY <1>1, <1>2, <1>3, <1>4, <1>5, OneTask DEF core

LEMMA MonitorStep ==
    ASSUME SessionInv, NEW op \in {"suspend", "resume"}, Monitor(op)
    PROVE  SessionInv'
<1>1. task'[Network] = Does(op, "queue") /\ OnlyMoves(Network)
  BY DoesTyped, TasksApart DEF Monitor, OnlyMoves, SessionInv, TypeOK, Ops, Pcs
<1>2. /\ task'[Network].op = op /\ task'[Network].pc = "queue"
      /\ task'[Network].prior = NoPrior /\ task'[Network].ok = FALSE
      /\ UNCHANGED <<core, flags, mode, modeUpdate, transition>>
      /\ pausing' = pausing \cup {Network} /\ available' = FALSE
  <2>1. /\ UNCHANGED <<core, flags, mode, modeUpdate, transition>>
        /\ pausing' = pausing \cup {Network} /\ available' = FALSE
    BY DEF Monitor, Pause
  <2> QED BY <1>1, <2>1 DEF Does
<1>3. TypeOK'
  BY <1>1, <1>2, TasksApart DEF SessionInv, TypeOK, OnlyMoves, core, flags
<1>4. TaskInv(Network)'
  BY <1>2, PriorTyped, TasksApart DEF TaskInv, Fits, Held, Working, Starting
<1>5. SupervisorPauses' /\ Budget' /\ Sealed' /\ Recorded'
  BY <1>1, <1>2, TasksApart
  DEF SessionInv, OnlyMoves, SupervisorPauses, Budget, Sealed, Recorded, core, flags
<1> QED BY <1>1, <1>2, <1>3, <1>4, <1>5, OneTask, TasksApart DEF core

LEMMA CloseStep ==
    ASSUME SessionInv, Close
    PROVE  SessionInv'
<1>1. /\ OnlyMoves(Closer) /\ task'[Closer].pc = "queue"
      /\ task'[Closer].op = task[Closer].op /\ task'[Closer].prior = task[Closer].prior
      /\ ~task'[Closer].ok
  BY GotoMoves, TasksApart DEF Close, At, SessionInv, TypeOK, Sealed, Pcs
<1>2. /\ closing' = TRUE /\ mode' = FALSE /\ available' = FALSE /\ ~closed
      /\ life' = [life EXCEPT !.stop = TRUE, !.phase = "ShuttingDown"]
      /\ pausing' = pausing \cup {Closer}
      /\ UNCHANGED <<core, suspended, modeUpdate, transition>>
  BY DEF Close, Pause
<1>3. life' \in Life /\ life'.stop = TRUE /\ life'.attempts = life.attempts
  BY <1>2 DEF SessionInv, TypeOK, Life, Phases
<1>4. TypeOK'
  BY <1>1, <1>2, <1>3, TasksApart DEF SessionInv, TypeOK, OnlyMoves, core
<1>5. TaskInv(Closer)'
  BY <1>1, <1>2, TasksApart DEF SessionInv, TaskInv, Held, Working, Starting, core
<1>6. SupervisorPauses' /\ Budget' /\ Sealed' /\ Recorded'
  BY <1>1, <1>2, <1>3, TasksApart
  DEF SessionInv, OnlyMoves, SupervisorPauses, Budget, Sealed, Recorded, Shows, core
<1> QED BY <1>1, <1>2, <1>4, <1>5, <1>6, OneTask, TasksApart DEF core

\* Who is admitted may work: the flags it has looked at show the intent.
LEMMA AcquireStep ==
    ASSUME SessionInv, NEW t \in Tasks, Acquire(t)
    PROVE  SessionInv'
<1>1. /\ task[t].pc = "queue" /\ transition = Nobody
      /\ UNCHANGED <<core, suspended, closing, pac>>
      /\ t # Supervisor \/ t \notin pausing
  BY TasksApart DEF Acquire, At, SessionInv, SupervisorPauses
<1>2. /\ life' \in Life /\ life'.stop = life.stop /\ life'.attempts = life.attempts
  BY DEF Acquire, SetPhase, SessionInv, TypeOK, Life, Phases
<1>3. task[t].op \in Ops /\ Fits(t, task[t].op)
  BY DEF SessionInv, TypeOK, TaskInv, Task
<1>4. /\ OnlyMoves(t) /\ transition' \in {t, Nobody}
      /\ Fits(t, task'[t].op) /\ Shows(task'[t].prior.intent, task'[t].prior.stop, task'[t].prior.suspended)
      /\ \/ task'[t].pc = "unlock" /\ transition' = t /\ t \in pausing
         \/ task'[t].pc = "idle" /\ task'[t].ok = FALSE
         \/ /\ task'[t].pc = Admitted(task[t].op) /\ transition' = t /\ ~Refused(t)
            /\ task'[t].op = task[t].op /\ task'[t].ok = task[t].ok
  <2>1. Admitted(task[t].op) \in Pcs
    BY <1>3 DEF Admitted, Ops, Pcs
  <2>2. CASE Refused(t) /\ t \in pausing
    <3>1. Afresh(t, "unlock") /\ transition' = t
      BY <2>2 DEF Acquire
    <3> QED BY <3>1, <2>2, AfreshMoves, PriorTyped DEF SessionInv, TypeOK, Pcs
  <2>3. CASE Refused(t) /\ t \notin pausing
    <3>1. Afresh(t, "idle") /\ transition' = Nobody
      BY <2>3, <1>1 DEF Acquire, Rest
    <3> QED BY <3>1, <2>3, AfreshMoves, PriorTyped DEF SessionInv, TypeOK, Pcs
  <2>4. CASE ~Refused(t)
    <3>1. Goto(t, Admitted(task[t].op)) /\ transition' = t
      BY <2>4 DEF Acquire, Op
    <3> QED BY <3>1, <2>1, <2>4, GotoMoves DEF SessionInv, TypeOK, TaskInv
  <2> QED BY <2>2, <2>3, <2>4
<1>5. ~Refused(t) =>
         /\ task[t].op = "shutdown" \/ ~closing
         /\ task[t].op = "resume" => ~life.stop
         /\ task[t].op = "supervise" => ~suspended /\ ~life.stop
  BY <1>3 DEF Refused, Op, Ops
<1>6. Admitted(task[t].op) =
         IF task[t].op \in {"restart", "stop", "suspend"} THEN "admit"
         ELSE IF task[t].op = "supervise" THEN "inspect" ELSE "work"
  BY <1>3 DEF Admitted, Ops
<1>7. TypeOK'
  BY <1>1, <1>2, <1>4, TasksApart DEF SessionInv, TypeOK, OnlyMoves, core, pac
<1>8. TaskInv(t)'
  <2>1. CASE task'[t].pc = "unlock" /\ transition' = t /\ t \in pausing
    BY <2>1, <1>4 DEF TaskInv, Held, Working, Starting
  <2>2. CASE task'[t].pc = "idle" /\ task'[t].ok = FALSE
    BY <2>2, <1>4 DEF TaskInv, Held, Working, Starting
  <2>3. CASE /\ task'[t].pc = Admitted(task[t].op) /\ transition' = t /\ ~Refused(t)
             /\ task'[t].op = task[t].op
    <3>1. task'[t].pc \in {"admit", "inspect", "work"}
      BY <2>3, <1>6
    <3>2. ~closed
      BY <2>3, <1>1, <1>3, <1>5, TasksApart DEF SessionInv, Sealed, Fits, Tasks
    <3>3. intent \in Intents /\ intent' = intent /\ closed' = closed
      BY <1>1 DEF SessionInv, TypeOK, core
    <3>4. task'[t].op = "supervise" => intent = "run"
      BY <2>3, <1>5, <3>3 DEF SessionInv, Recorded, Shows, Intents
    <3>5. task'[t].op = "resume" => intent # "stop"
      BY <2>3, <1>5 DEF SessionInv, Recorded, Shows
    <3>6. task'[t].op = "restart" => task'[t].pc = "admit"
      BY <2>3, <1>6
    <3> QED BY <3>1, <3>2, <3>3, <3>4, <3>5, <3>6, <2>3, <1>4
        DEF TaskInv, Held, Working, Starting
  <2> QED BY <1>4, <2>1, <2>2, <2>3
<1>9. SupervisorPauses' /\ Budget' /\ Sealed' /\ Recorded'
  <2>1. t # Supervisor =>
          task'[Supervisor] = task[Supervisor] /\ task[Supervisor].pc # "unlock"
    BY <1>1, <1>4, TasksApart DEF OnlyMoves, SessionInv, TaskInv, Held
  <2>2. Supervisor \notin pausing /\ pausing' = pausing
    BY <1>1, TasksApart DEF SessionInv, SupervisorPauses, pac
  <2>3. t = Supervisor => task'[t].pc \in {"idle", "inspect"}
    BY <1>1, <1>3, <1>4, <1>6 DEF Fits
  <2>4. t # Closer => task'[Closer] = task[Closer]
    BY <1>4, TasksApart DEF OnlyMoves
  <2>5. t = Closer => /\ task'[t].pc \in {"unlock", "idle", "work"} /\ closing
                      /\ task'[t].pc # "unlock" => ~task'[t].ok
    BY <1>1, <1>3, <1>4, <1>6 DEF Fits, SessionInv, Sealed
  <2>6. SupervisorPauses'
    BY <2>1, <2>2, <2>3 DEF SessionInv, SupervisorPauses
  <2>7. Budget'
    BY <1>1, <1>2, <2>1, <2>3 DEF SessionInv, Budget
  <2>8. Sealed'
    BY <1>1, <2>4, <2>5 DEF SessionInv, Sealed, core
  <2>9. Recorded'
    BY <1>1, <1>2 DEF SessionInv, Recorded, core
  <2> QED BY <2>6, <2>7, <2>8, <2>9
<1> QED BY <1>1, <1>4, <1>7, <1>8, <1>9, OneTask

\* A step that moves t alone and leaves everything else but PAC as it is.
LEMMA QuietStep ==
    ASSUME SessionInv, NEW t \in Tasks, OnlyMoves(t),
           UNCHANGED <<core, flags, pausing>>,
           mode' \in BOOLEAN, available' \in BOOLEAN, modeUpdate' \in Tasks \cup {Nobody},
           \/ UNCHANGED transition
           \/ transition = Nobody /\ transition' = t
           \/ transition = t /\ transition' = Nobody,
           TaskInv(t)',
           t = Supervisor =>
             /\ transition' # transition => Supervisor \notin pausing
             /\ task'[t].pc \in {"settle", "settled"} => Supervisor \in pausing
             /\ task'[t].pc = "unlock" => Supervisor \notin pausing
             /\ \/ task'[t].pc \in {"recover", "queue", "inspect"}
                \/ task'[t].pc \in {"look", "probe", "publish", "enter"} /\ task'[t].ok
                => life.attempts < MaxAttempts,
           t = Closer =>
             /\ task[t].pc # "idle" /\ task'[t].pc \notin {"queue", "work", "record"}
             /\ task'[t].pc = "idle" => ~task'[t].ok
    PROVE  SessionInv'
<1>1. TypeOK'
  BY DEF SessionInv, TypeOK, OnlyMoves, core, flags
<1>2. SupervisorPauses'
  <2>1. Supervisor \in pausing => transition' = Supervisor
    BY TasksApart DEF SessionInv, SupervisorPauses
  <2>2. t # Supervisor => task'[Supervisor] = task[Supervisor]
    BY TasksApart DEF OnlyMoves
  <2> QED BY <2>1, <2>2 DEF SessionInv, SupervisorPauses
<1>3. Budget'
  <2>1. t # Supervisor => task'[Supervisor] = task[Supervisor]
    BY TasksApart DEF OnlyMoves
  <2> QED BY <2>1 DEF SessionInv, Budget, flags
<1>4. Sealed' /\ Recorded'
  <2>1. t # Closer => task'[Closer] = task[Closer]
    BY TasksApart DEF OnlyMoves
  <2> QED BY <2>1 DEF SessionInv, Sealed, Recorded, core, flags
<1>5. \/ transition = t
      \/ transition = Nobody /\ transition' \in {t, Nobody}
      \/ UNCHANGED <<transition, intent, closed>>
  BY DEF core
<1> QED BY <1>1, <1>2, <1>3, <1>4, <1>5, OneTask

\* A task that is afresh but for the lock it has to give back is in order.
LEMMA RestedTask ==
    ASSUME NEW t \in Tasks, Fits(t, task'[t].op), task'[t].prior = NoPrior,
           task'[t].pc = "unlock" /\ transition' = t
    PROVE  TaskInv(t)'
BY PriorTyped DEF TaskInv, Held, Working, Starting

LEMMA RecoverRefusedStep ==
    ASSUME SessionInv, RecoverRefused
    PROVE  SessionInv'
<1>1. /\ OnlyMoves(Supervisor) /\ task'[Supervisor].pc = "idle"
      /\ Fits(Supervisor, task'[Supervisor].op) /\ task'[Supervisor].ok = FALSE
      /\ task'[Supervisor].prior = NoPrior
  BY AfreshMoves, TasksApart DEF RecoverRefused, Rest, SessionInv, TypeOK, Pcs
<1>2. UNCHANGED <<core, flags, pac, transition>>
  BY DEF RecoverRefused
<1>3. TaskInv(Supervisor)'
  BY <1>1, PriorTyped DEF TaskInv, Held, Working, Starting
<1> QED BY <1>1, <1>2, <1>3, QuietStep, TasksApart DEF pac, SessionInv, TypeOK

LEMMA CaptureFailsStep ==
    ASSUME SessionInv, CaptureFails
    PROVE  SessionInv'
<1>1. /\ OnlyMoves(Network) /\ task'[Network].pc = "look"
      /\ Fits(Network, task'[Network].op) /\ task'[Network].prior = NoPrior
  BY AfreshMoves, TasksApart DEF CaptureFails, SessionInv, TypeOK, Pcs
<1>2. UNCHANGED <<core, flags, pac, transition>>
  BY DEF CaptureFails
<1>3. TaskInv(Network)'
  BY <1>1, PriorTyped DEF TaskInv, Held, Working, Starting
<1> QED BY <1>1, <1>2, <1>3, QuietStep, TasksApart DEF pac, SessionInv, TypeOK

LEMMA ReacquireStep ==
    ASSUME SessionInv, Reacquire
    PROVE  SessionInv'
<1>1. /\ task[Network].pc = "requeue" /\ transition = Nobody /\ transition' = Network
      /\ UNCHANGED <<core, flags, pac>>
      /\ Fits(Network, task[Network].op)
      /\ Shows(task[Network].prior.intent, task[Network].prior.stop, task[Network].prior.suspended)
  BY TasksApart DEF Reacquire, At, SessionInv, TaskInv
<1>2. /\ OnlyMoves(Network)
      /\ \/ /\ task'[Network].pc = "unlock"
            /\ Fits(Network, task'[Network].op) /\ task'[Network].prior = NoPrior
         \/ /\ \/ ~closing /\ task[Network].op = "suspend" /\ task'[Network].pc = "work"
               \/ task[Network].op # "suspend" /\ task'[Network].pc = "again"
            /\ task'[Network].op = task[Network].op
            /\ task'[Network].prior = task[Network].prior
  <2>1. CASE closing \/ ~suspended
    <3>1. Afresh(Network, "unlock")
      BY <2>1 DEF Reacquire
    <3> QED BY <3>1, AfreshMoves, TasksApart DEF SessionInv, TypeOK, Pcs
  <2>2. CASE ~(closing \/ ~suspended) /\ task[Network].op = "suspend"
    <3>1. Goto(Network, "work")
      BY <2>2 DEF Reacquire, Op
    <3> QED BY <3>1, <2>2, GotoMoves, TasksApart DEF SessionInv, TypeOK, Pcs
  <2>3. CASE ~(closing \/ ~suspended) /\ task[Network].op # "suspend"
    <3>1. Goto(Network, "again")
      BY <2>3 DEF Reacquire, Op
    <3> QED BY <3>1, <2>3, GotoMoves, TasksApart DEF SessionInv, TypeOK, Pcs
  <2> QED BY <2>1, <2>2, <2>3
<1>3. TaskInv(Network)'
  <2>1. CASE task'[Network].pc = "unlock" /\ Fits(Network, task'[Network].op)
             /\ task'[Network].prior = NoPrior
    BY <2>1, <1>1, TasksApart, RestedTask
  <2>2. CASE /\ \/ ~closing /\ task[Network].op = "suspend" /\ task'[Network].pc = "work"
                \/ task[Network].op # "suspend" /\ task'[Network].pc = "again"
             /\ task'[Network].op = task[Network].op
             /\ task'[Network].prior = task[Network].prior
    <3>1. task'[Network].pc = "work" => ~closed'
      BY <1>1, <2>2 DEF SessionInv, Sealed, core
    <3> QED BY <2>2, <3>1, <1>1, TasksApart DEF TaskInv, Held, Working, Starting
  <2> QED BY <1>2, <2>1, <2>2
<1> QED BY <1>1, <1>2, <1>3, QuietStep, TasksApart DEF pac, SessionInv, TypeOK

\* Who changes what is asked for holds the lock, so that nobody works on the process.
LEMMA AdmitMaintainStep ==
    ASSUME SessionInv, NEW t \in Tasks, AdmitMaintain(t)
    PROVE  SessionInv'
<1>1. /\ task[t].pc = "admit" /\ task[t].op \in {"restart", "stop"} /\ transition = t
      /\ ~closed /\ t \in Callers
  BY TasksApart DEF AdmitMaintain, At, Op, SessionInv, TaskInv, Held, Starting, Fits, Tasks
<1>2. /\ suspended' = FALSE /\ life' = [life EXCEPT !.stop = task[t].op = "stop"]
      /\ intent' = IF task[t].op = "stop" THEN "stop" ELSE "run"
      /\ pausing' = pausing \cup {t} /\ available' = FALSE
      /\ UNCHANGED <<running, closed, closing, mode, modeUpdate, transition>>
  BY DEF AdmitMaintain, Op, Pause
<1>3. /\ life' \in Life /\ life'.attempts = life.attempts
      /\ life'.stop = (task[t].op = "stop")
  BY <1>2 DEF SessionInv, TypeOK, Life
<1> DEFINE prior == IF task[t].op = "stop" THEN NoPrior
                    ELSE [phase |-> life.phase, stop |-> life.stop, suspended |-> suspended,
                          intent |-> intent, running |-> running]
<1>4. prior \in Prior /\ Shows(prior.intent, prior.stop, prior.suspended)
  BY PriorTyped DEF SessionInv, TypeOK, Life, Prior, Recorded
<1>5. task' = [task EXCEPT ![t].pc = "work", ![t].prior = prior]
  BY DEF AdmitMaintain, Op
<1> HIDE DEF prior
<1>6. /\ OnlyMoves(t) /\ task'[t].pc = "work" /\ task'[t].op = task[t].op
      /\ task'[t].prior = prior
  BY <1>4, <1>5 DEF SessionInv, TypeOK, OnlyMoves, Task, Pcs
<1>7. TypeOK'
  BY <1>2, <1>3, <1>6 DEF SessionInv, TypeOK, OnlyMoves, Intents
<1>8. TaskInv(t)'
  BY <1>1, <1>2, <1>4, <1>6, TasksApart
  DEF SessionInv, TaskInv, Held, Working, Starting
<1>9. SupervisorPauses' /\ Budget' /\ Sealed' /\ Recorded'
  BY <1>1, <1>2, <1>3, <1>6, TasksApart
  DEF SessionInv, OnlyMoves, SupervisorPauses, Budget, Sealed, Recorded, Shows
<1> QED BY <1>1, <1>6, <1>7, <1>8, <1>9, OneTask

LEMMA AdmitSuspensionStep ==
    ASSUME SessionInv, AdmitSuspension
    PROVE  SessionInv'
<1>1. /\ task[Network].pc = "admit" /\ transition = Network
      /\ Fits(Network, task[Network].op)
      /\ Shows(task[Network].prior.intent, task[Network].prior.stop, task[Network].prior.suspended)
  BY TasksApart DEF AdmitSuspension, At, SessionInv, TaskInv, Held
<1>2. /\ suspended' = TRUE /\ intent' = "suspend" /\ transition' = Nobody
      /\ UNCHANGED <<running, closed, closing, pac>>
  BY DEF AdmitSuspension
<1>3. life' \in Life /\ life'.attempts = life.attempts /\ life'.stop = life.stop
  BY DEF AdmitSuspension, SetPhase, SessionInv, TypeOK, Life, Phases
<1>4. /\ OnlyMoves(Network) /\ task'[Network].pc = "requeue"
      /\ task'[Network].op = task[Network].op /\ task'[Network].prior = task[Network].prior
  BY GotoMoves, TasksApart DEF AdmitSuspension, SessionInv, TypeOK, Pcs
<1>5. TypeOK'
  BY <1>2, <1>3, <1>4 DEF SessionInv, TypeOK, OnlyMoves, Intents, pac
<1>6. TaskInv(Network)'
  BY <1>1, <1>4 DEF TaskInv, Held, Working, Starting
<1>7. SupervisorPauses' /\ Budget' /\ Sealed' /\ Recorded'
  BY <1>1, <1>2, <1>3, <1>4, TasksApart
  DEF SessionInv, OnlyMoves, SupervisorPauses, Budget, Sealed, Recorded, Shows, pac
<1> QED BY <1>1, <1>4, <1>5, <1>6, <1>7, OneTask, TasksApart

LEMMA ResumedStep ==
    ASSUME SessionInv, Resumed
    PROVE  SessionInv'
<1>1. task[Network].pc = "again" /\ transition = Network
  BY TasksApart DEF Resumed, At, SessionInv, TaskInv, Held
<1>2. /\ suspended' = FALSE /\ life' = Stable /\ intent' = "run"
      /\ UNCHANGED <<running, closed, closing, pac, transition>>
  BY DEF Resumed
<1>3. life' \in Life /\ life'.attempts = 0
  BY <1>2, SessionAssumption DEF Stable, Life, Phases
<1>4. /\ OnlyMoves(Network) /\ task'[Network].pc = "unlock"
      /\ Fits(Network, task'[Network].op) /\ task'[Network].prior = NoPrior
  BY AfreshMoves, TasksApart DEF Resumed, SessionInv, TypeOK, Pcs
<1>5. TypeOK'
  BY <1>2, <1>3, <1>4 DEF SessionInv, TypeOK, OnlyMoves, Intents, pac
<1>6. TaskInv(Network)'
  BY <1>1, <1>2, <1>4, TasksApart, RestedTask
<1>7. Budget'
  <2>1. life.attempts \in Nat /\ MaxAttempts \in Nat
    BY SessionAssumption DEF SessionInv, TypeOK, Life
  <2> QED BY <2>1, <1>3, <1>4, TasksApart DEF SessionInv, OnlyMoves, Budget
<1>8. SupervisorPauses' /\ Sealed' /\ Recorded'
  BY <1>1, <1>2, <1>3, <1>4, TasksApart
  DEF SessionInv, OnlyMoves, SupervisorPauses, Sealed, Recorded, Shows, pac
<1> QED BY <1>1, <1>4, <1>5, <1>6, <1>7, <1>8, OneTask, TasksApart

-----------------------------------------------------------------------------
(* The supervisor *)

LEMMA ObserveStep ==
    ASSUME SessionInv, Observe
    PROVE  SessionInv'
<1>1. /\ task[Supervisor].pc = "idle" /\ UNCHANGED <<core, flags, pac, transition>>
      /\ running \in BOOLEAN
  BY DEF Observe, At, SessionInv, TypeOK
<1>2. /\ Does("supervise", "gone") \in Task
      /\ [Does("supervise", "decide") EXCEPT !.saw = running] \in Task
  BY <1>1, PriorTyped DEF Does, Task, Ops, Pcs
<1>3. /\ OnlyMoves(Supervisor) /\ task'[Supervisor].pc \in {"gone", "decide"}
      /\ task'[Supervisor].op = "supervise" /\ task'[Supervisor].prior = NoPrior
  BY <1>2, TasksApart DEF Observe, OnlyMoves, SessionInv, TypeOK, Does
<1>4. TaskInv(Supervisor)'
  BY <1>3, PriorTyped, TasksApart DEF TaskInv, Fits, Held, Working, Starting
<1> QED BY <1>1, <1>3, <1>4, QuietStep, TasksApart DEF pac, SessionInv, TypeOK

LEMMA SuperviseStep ==
    ASSUME SessionInv, NEW phase \in Phases, NEW attempts \in 0..MaxAttempts,
           NEW recovers \in BOOLEAN, Supervise(phase, attempts, recovers),
           recovers => attempts < MaxAttempts
    PROVE  SessionInv'
<1>1. /\ task[Supervisor].pc = "decide" /\ UNCHANGED <<core, suspended, closing, pac, transition>>
      /\ life' = [life EXCEPT !.phase = phase, !.attempts = attempts]
      /\ task' = [task EXCEPT ![Supervisor].pc = "look", ![Supervisor].ok = recovers]
  BY DEF Supervise, At
<1>2. life' \in Life /\ life'.stop = life.stop /\ life'.attempts = attempts
  BY <1>1 DEF SessionInv, TypeOK, Life
<1>3. /\ OnlyMoves(Supervisor) /\ task'[Supervisor].pc = "look"
      /\ task'[Supervisor].op = task[Supervisor].op
      /\ task'[Supervisor].prior = task[Supervisor].prior
      /\ task'[Supervisor].ok = recovers
  <2>1. [task[Supervisor] EXCEPT !.pc = "look", !.ok = recovers] \in Task
    BY TasksApart DEF SessionInv, TypeOK, Task, Pcs
  <2>2. task'[Supervisor] = [task[Supervisor] EXCEPT !.pc = "look", !.ok = recovers]
    BY <1>1, TasksApart DEF SessionInv, TypeOK
  <2>3. OnlyMoves(Supervisor)
    BY <1>1, <2>1, TasksApart DEF SessionInv, TypeOK, OnlyMoves
  <2>4. task[Supervisor] \in Task
    BY TasksApart DEF SessionInv, TypeOK
  <2> QED BY <2>2, <2>3, <2>4 DEF Task
<1>4. TypeOK'
  BY <1>1, <1>2, <1>3 DEF SessionInv, TypeOK, OnlyMoves, core, pac
<1>5. TaskInv(Supervisor)'
  BY <1>1, <1>3, TasksApart DEF SessionInv, TaskInv, Held, Working, Starting
<1>6. SupervisorPauses' /\ Budget' /\ Sealed' /\ Recorded'
  BY <1>1, <1>2, <1>3, TasksApart
  DEF SessionInv, OnlyMoves, SupervisorPauses, Budget, Sealed, Recorded, core, pac
<1> QED BY <1>1, <1>3, <1>4, <1>5, <1>6, OneTask, TasksApart DEF core

LEMMA DecideStep ==
    ASSUME SessionInv, Decide \/ ObservationFails
    PROVE  SessionInv'
<1>1. /\ life.phase \in Phases /\ life.attempts \in 0..MaxAttempts /\ MaxAttempts \in Nat
  BY SessionAssumption DEF SessionInv, TypeOK, Life
<1>2. /\ "Unknown" \in Phases /\ "Stable" \in Phases /\ "Failed" \in Phases
      /\ "Recovering" \in Phases
  BY DEF Phases
<1>3. CASE \/ Supervise(life.phase, life.attempts, FALSE)
           \/ Supervise(IF life.phase = "Unknown" THEN "Stable" ELSE life.phase,
                        life.attempts, FALSE)
           \/ Supervise("Unknown", life.attempts, FALSE)
  BY <1>1, <1>2, <1>3, SuperviseStep
<1>4. CASE Supervise(IF Exhausted THEN "Failed" ELSE "Recovering", Attempts, ~Exhausted)
  <2>1. Attempts \in 0..MaxAttempts
    BY <1>1 DEF Attempts
  <2>2. Exhausted \in BOOLEAN /\ (~Exhausted => Attempts < MaxAttempts)
    BY <1>1, <2>1 DEF Exhausted
  <2> QED BY <1>2, <1>4, <2>1, <2>2, SuperviseStep
<1> QED BY <1>3, <1>4 DEF Decide, ObservationFails

LEMMA RecoverStep ==
    ASSUME SessionInv, Recover
    PROVE  SessionInv'
<1>1. /\ task[Supervisor].pc = "recover" /\ UNCHANGED <<core, flags, pac, transition>>
      /\ life.attempts < MaxAttempts
  BY DEF Recover, At, SessionInv, Budget
<1>2. /\ OnlyMoves(Supervisor) /\ task'[Supervisor].pc \in {"gone", "queue"}
      /\ Fits(Supervisor, task'[Supervisor].op) /\ task'[Supervisor].prior = NoPrior
  BY AfreshMoves, TasksApart DEF Recover, SessionInv, TypeOK, Pcs
<1>3. TaskInv(Supervisor)'
  BY <1>2, PriorTyped DEF TaskInv, Held, Working, Starting
<1> QED BY <1>1, <1>2, <1>3, QuietStep, TasksApart DEF pac, SessionInv, TypeOK

LEMMA InspectStep ==
    ASSUME SessionInv, Inspect
    PROVE  SessionInv'
<1>1. /\ task[Supervisor].pc = "inspect" /\ transition = Supervisor
      /\ UNCHANGED <<core, suspended, closing, mode, modeUpdate, transition>>
      /\ pausing' = pausing \cup {Supervisor} /\ available' = FALSE
      /\ life.attempts < MaxAttempts
      /\ Fits(Supervisor, task[Supervisor].op) /\ intent = "run" /\ ~closed
      /\ Shows(task[Supervisor].prior.intent, task[Supervisor].prior.stop, task[Supervisor].prior.suspended)
  BY TasksApart
  DEF Inspect, At, Pause, SessionInv, Budget, TaskInv, Held, Working, Starting, Fits
<1>2. /\ life' \in Life /\ life'.stop = life.stop
      /\ running => life'.attempts = life.attempts
  <2>1. CASE running
    BY <2>1 DEF Inspect, SetPhase, SessionInv, TypeOK, Life, Phases
  <2>2. CASE ~running
    <3>1. life.attempts + 1 \in 0..MaxAttempts
      BY <1>1, SessionAssumption DEF SessionInv, TypeOK, Life
    <3>2. life' = [life EXCEPT !.attempts = life.attempts + 1, !.phase = "Recovering"]
      BY <2>2 DEF Inspect
    <3> QED BY <2>2, <3>1, <3>2 DEF SessionInv, TypeOK, Life, Phases
  <2> QED BY <2>1, <2>2
<1>3. /\ OnlyMoves(Supervisor)
      /\ \/ task'[Supervisor].pc = "look" /\ task'[Supervisor].ok = FALSE
         \/ task'[Supervisor].pc = "work"
      /\ Fits(Supervisor, task'[Supervisor].op)
      /\ Shows(task'[Supervisor].prior.intent, task'[Supervisor].prior.stop, task'[Supervisor].prior.suspended)
  <2>1. CASE running
    <3>1. Afresh(Supervisor, "look")
      BY <2>1 DEF Inspect
    <3> QED BY <3>1, AfreshMoves, PriorTyped, TasksApart DEF SessionInv, TypeOK, Pcs
  <2>2. CASE ~running
    <3>1. Goto(Supervisor, "work")
      BY <2>2 DEF Inspect
    <3> QED BY <1>1, <3>1, GotoMoves, TasksApart DEF SessionInv, TypeOK, Pcs
  <2> QED BY <2>1, <2>2
<1>4. TypeOK'
  BY <1>1, <1>2, <1>3, TasksApart DEF SessionInv, TypeOK, OnlyMoves, core
<1>5. TaskInv(Supervisor)'
  BY <1>1, <1>3, TasksApart DEF TaskInv, Fits, Held, Working, Starting, core
<1>6. SupervisorPauses' /\ Budget' /\ Sealed' /\ Recorded'
  BY <1>1, <1>2, <1>3, TasksApart
  DEF SessionInv, OnlyMoves, SupervisorPauses, Budget, Sealed, Recorded, core
<1> QED BY <1>1, <1>3, <1>4, <1>5, <1>6, OneTask, TasksApart

-----------------------------------------------------------------------------
(* The process *)

\* Where an operation has come to an end.
LEMMA Ends ==
    ASSUME SessionInv, NEW t \in Tasks, task[t].pc \in Working, Succeed(t) \/ Fail(t)
    PROVE  /\ OnlyMoves(t) /\ task'[t].pc = "record" /\ task'[t].op = task[t].op
           /\ Shows(task'[t].prior.intent, task'[t].prior.stop, task'[t].prior.suspended)
           /\ Fail(t) => task'[t].ok = task[t].ok
<1>1. task[t].op \in Ops /\ TaskInv(t)
  BY DEF SessionInv, TypeOK, Task
<1>2. CASE Succeed(t)
  <2>1. [Does(task[t].op, "record") EXCEPT !.ok = TRUE] \in Task
    BY <1>1, PriorTyped DEF Does, Task, Pcs
  <2>2. task' = [task EXCEPT ![t] = [Does(task[t].op, "record") EXCEPT !.ok = TRUE]]
    BY <1>2 DEF Succeed, Op
  <2>3. /\ OnlyMoves(t) /\ task'[t].pc = "record" /\ task'[t].op = task[t].op
        /\ task'[t].prior = NoPrior
    BY <2>1, <2>2 DEF OnlyMoves, SessionInv, TypeOK, Does
  <2>4. Fail(t) => task'[t].ok = task[t].ok
    BY GotoMoves DEF Fail, SessionInv, TypeOK, Pcs
  <2> QED BY <2>3, <2>4, PriorTyped
<1>3. CASE Fail(t)
  BY <1>1, <1>3, GotoMoves DEF Fail, SessionInv, TypeOK, TaskInv, Pcs
<1> QED BY <1>2, <1>3

\* What a task does to the process under the lock; only the spawn starts a core.
LEMMA WorkStep ==
    ASSUME SessionInv, NEW t \in Tasks, task[t].pc \in {"work", "spawn", "launch", "ready"},
           OnlyMoves(t), task'[t].pc \in {"spawn", "launch", "ready", "record"},
           task'[t].op = task[t].op,
           task'[t].pc \in {"spawn", "launch", "ready"} => task[t].op \notin {"stop", "suspend", "shutdown"},
           task'[t].pc \in {"spawn", "launch"} => task[t].pc # "ready",
           Shows(task'[t].prior.intent, task'[t].prior.stop, task'[t].prior.suspended),
           running' \in BOOLEAN, running' => running \/ task[t].pc = "launch",
           task[t].op = "shutdown" => task'[t].pc = "record" /\ (task'[t].ok => ~running'),
           UNCHANGED <<intent, closed, flags, pac, transition>>
    PROVE  SessionInv'
<1>1. transition = t /\ TaskInv(t)
  BY DEF SessionInv, TaskInv, Held
<1>2. TypeOK'
  BY DEF SessionInv, TypeOK, OnlyMoves, flags, pac
<1>3. TaskInv(t)'
  BY <1>1 DEF TaskInv, Held, Working, Starting
<1>4. SupervisorPauses' /\ Budget' /\ Recorded'
  BY TasksApart
  DEF SessionInv, OnlyMoves, SupervisorPauses, Budget, Recorded, flags, pac
<1>5. Sealed'
  <2>1. t = Closer => task[t].op = "shutdown"
    BY <1>1 DEF TaskInv, Fits
  <2>2. t # Closer => task'[Closer] = task[Closer] /\ task[Closer].pc # "record"
    BY <1>1, TasksApart DEF SessionInv, OnlyMoves, TaskInv, Held
  <2>3. closed => task[t].pc # "launch"
    BY <1>1 DEF TaskInv, Starting
  <2> QED BY <2>1, <2>2, <2>3 DEF SessionInv, Sealed, flags
<1> QED BY <1>1, <1>2, <1>3, <1>4, <1>5, OneTask

LEMMA StopStep ==
    ASSUME SessionInv, NEW t \in Tasks, Stop(t)
    PROVE  SessionInv'
<1>1. /\ task[t].pc = "work" /\ UNCHANGED <<intent, closed, flags, pac, transition>>
      /\ TaskInv(t) /\ running \in BOOLEAN
  BY DEF Stop, At, SessionInv, TypeOK
<1>2. CASE running' = FALSE /\ Stops(t) /\ Succeed(t)
  BY <1>1, <1>2, Ends, WorkStep DEF Working
<1>3. CASE running' = FALSE /\ ~Stops(t) /\ Goto(t, "spawn")
  <2>1. /\ OnlyMoves(t) /\ task'[t].pc = "spawn" /\ task'[t].op = task[t].op
        /\ task'[t].prior = task[t].prior
    BY <1>3, GotoMoves DEF SessionInv, TypeOK, Pcs
  <2>2. task[t].op \notin {"stop", "suspend", "shutdown"}
    BY <1>3 DEF Stops, Op
  <2>3. Shows(task'[t].prior.intent, task'[t].prior.stop, task'[t].prior.suspended)
    BY <1>1, <2>1 DEF TaskInv
  <2> QED BY <1>1, <1>3, <2>1, <2>2, <2>3, WorkStep
<1>4. CASE Fail(t) /\ running' = running
  <2>1. task[t].op = "shutdown" => ~task[t].ok
    <3>1. task[t].op = "shutdown" => t = Closer
      BY <1>1 DEF TaskInv, Fits, Tasks
    <3> QED BY <1>1, <3>1 DEF SessionInv, Sealed
  <2> QED BY <1>1, <1>4, <2>1, Ends, WorkStep DEF Working
<1> QED BY <1>2, <1>3, <1>4 DEF Stop

LEMMA ProceedStep ==
    ASSUME SessionInv, NEW t \in Tasks, Proceed(t)
    PROVE  SessionInv'
<1>1. /\ task[t].pc = "spawn" /\ UNCHANGED <<core, flags, pac, transition>>
      /\ TaskInv(t) /\ running \in BOOLEAN
  BY DEF Proceed, At, SessionInv, TypeOK
<1>2. task[t].op \notin {"stop", "suspend", "shutdown"}
  BY <1>1 DEF TaskInv
<1>3. CASE Fail(t)
  BY <1>1, <1>2, <1>3, Ends, WorkStep DEF Working, core
<1>4. CASE Goto(t, "launch")
  <2>1. /\ OnlyMoves(t) /\ task'[t].pc = "launch" /\ task'[t].op = task[t].op
        /\ task'[t].prior = task[t].prior
    BY <1>4, GotoMoves DEF SessionInv, TypeOK, Pcs
  <2> QED BY <1>1, <1>2, <2>1, WorkStep DEF TaskInv, core
<1> QED BY <1>3, <1>4 DEF Proceed

LEMMA SpawnStep ==
    ASSUME SessionInv, NEW t \in Tasks, Spawn(t)
    PROVE  SessionInv'
<1>1. /\ task[t].pc = "launch" /\ UNCHANGED <<intent, closed, flags, pac, transition>>
      /\ TaskInv(t) /\ running \in BOOLEAN
  BY DEF Spawn, At, SessionInv, TypeOK
<1>2. task[t].op \notin {"stop", "suspend", "shutdown"}
  BY <1>1 DEF TaskInv
<1>3. CASE running' = TRUE /\ task' = [task EXCEPT ![t].pc = "ready", ![t].spawned = TRUE]
  <2>1. /\ OnlyMoves(t) /\ task'[t].pc = "ready" /\ task'[t].op = task[t].op
        /\ task'[t].prior = task[t].prior
    BY <1>3 DEF SessionInv, TypeOK, OnlyMoves, Task, Pcs
  <2> QED BY <1>1, <1>2, <1>3, <2>1, WorkStep DEF TaskInv
<1>4. CASE Fail(t) /\ running' = running
  BY <1>1, <1>2, <1>4, Ends, WorkStep DEF Working
<1> QED BY <1>3, <1>4 DEF Spawn

LEMMA ReadyStep ==
    ASSUME SessionInv, NEW t \in Tasks, Ready(t)
    PROVE  SessionInv'
<1>1. /\ task[t].pc = "ready" /\ UNCHANGED <<intent, closed, flags, pac, transition>>
      /\ TaskInv(t) /\ running \in BOOLEAN
  BY DEF Ready, At, SessionInv, TypeOK
<1>2. (Succeed(t) \/ Fail(t)) /\ running' \in {FALSE, running}
  BY DEF Ready
<1>3. task[t].op # "shutdown"
  BY <1>1 DEF TaskInv
<1>4. /\ OnlyMoves(t) /\ task'[t].pc = "record" /\ task'[t].op = task[t].op
      /\ Shows(task'[t].prior.intent, task'[t].prior.stop, task'[t].prior.suspended)
  BY <1>1, <1>2, Ends DEF Working
<1>5. running' \in BOOLEAN /\ (running' => running)
  <2>1. running' = FALSE \/ running' = running
    BY <1>2
  <2>2. CASE running' = FALSE
    BY <2>2
  <2>3. CASE running' = running
    BY <1>1, <2>3
  <2> QED BY <2>1, <2>2, <2>3
<1> QED BY <1>1, <1>3, <1>4, <1>5, WorkStep

-----------------------------------------------------------------------------
(* The result of an operation *)

LEMMA RecordMaintainStep ==
    ASSUME SessionInv, NEW t \in Callers, At(t, "record"), RecordMaintain(t),
           UNCHANGED <<running, closing, pac>>
    PROVE  SessionInv'
<1> DEFINE p == task[t].prior
           phase == IF ~task[t].ok THEN "Unknown"
                    ELSE IF task[t].op = "stop" THEN "Stopped" ELSE "Stable"
<1>1. /\ t \in Tasks /\ transition = t /\ task[t].op \in {"restart", "stop"}
      /\ p \in Prior /\ Shows(p.intent, p.stop, p.suspended)
      /\ task[t].op = "restart" => intent = "run"
      /\ UNCHANGED <<transition, closed>>
  BY TasksApart
  DEF RecordMaintain, At, Op, SessionInv, TypeOK, TaskInv, Held, Working, Task
<1>2. /\ OnlyMoves(t) /\ task'[t].pc = "unlock" /\ Fits(t, task'[t].op)
      /\ task'[t].prior = NoPrior /\ task'[t].ok = FALSE
  BY <1>1, AfreshMoves DEF RecordMaintain, SessionInv, TypeOK, Pcs
<1>3. /\ life' \in Life /\ life'.attempts = life.attempts /\ intent' \in Intents
      /\ suspended' \in BOOLEAN /\ Shows(intent', life'.stop, suspended')
  <2>1. CASE /\ life' = Closing([life EXCEPT !.phase = p.phase, !.stop = p.stop])
             /\ suspended' = p.suspended /\ intent' = p.intent
    <3>1. p.phase \in Phases /\ p.stop \in BOOLEAN
      BY <1>1 DEF Prior
    <3>2. /\ life' \in Life /\ life'.attempts = life.attempts
          /\ life'.stop = TRUE \/ life'.stop = p.stop
      BY <2>1, <3>1 DEF Closing, SessionInv, TypeOK, Life, Phases
    <3>3. suspended' \in BOOLEAN /\ intent' \in Intents
      BY <1>1, <2>1 DEF Prior
    <3>4. Shows(p.intent, life'.stop, p.suspended)
      BY <1>1, <3>2 DEF Shows
    <3> QED BY <2>1, <3>2, <3>3, <3>4
  <2>2. CASE /\ life' = Closing([life EXCEPT !.stop = task[t].op = "stop", !.phase = phase])
             /\ UNCHANGED <<suspended, intent>>
    <3>1. phase \in Phases
      BY DEF Phases
    <3> HIDE DEF phase
    <3>2. /\ life' \in Life /\ life'.attempts = life.attempts
          /\ life'.stop = TRUE \/ life'.stop = (task[t].op = "stop")
      BY <2>2, <3>1 DEF Closing, SessionInv, TypeOK, Life, Phases
    <3> QED BY <1>1, <2>2, <3>2 DEF SessionInv, TypeOK, Recorded, Shows
  <2> QED BY <2>1, <2>2 DEF RecordMaintain, Op
<1> HIDE DEF p, phase
<1>4. TypeOK'
  BY <1>1, <1>2, <1>3 DEF SessionInv, TypeOK, OnlyMoves, pac
<1>5. TaskInv(t)'
  BY <1>1, <1>2, RestedTask
<1>6. SupervisorPauses' /\ Budget' /\ Sealed' /\ Recorded'
  BY <1>1, <1>2, <1>3, TasksApart
  DEF SessionInv, OnlyMoves, SupervisorPauses, Budget, Sealed, Recorded, pac
<1> QED BY <1>1, <1>2, <1>4, <1>5, <1>6, OneTask

LEMMA RecordNetworkStep ==
    ASSUME SessionInv, At(Network, "record"), RecordNetwork, UNCHANGED <<running, closing, pac>>
    PROVE  SessionInv'
<1>1. transition = Network /\ UNCHANGED <<suspended, intent, closed>>
  BY TasksApart DEF RecordNetwork, At, SessionInv, TaskInv, Held
<1>2. life' \in Life /\ life'.attempts = life.attempts /\ life'.stop = life.stop
  BY DEF RecordNetwork, SetPhase, SessionInv, TypeOK, Life, Phases
<1>3. /\ OnlyMoves(Network) /\ Fits(Network, task'[Network].op)
      /\ task'[Network].prior = NoPrior
      /\ \/ task'[Network].pc = "requeue" /\ transition' = Nobody
         \/ task'[Network].pc = "unlock" /\ transition' = Network
  <2>1. CASE Afresh(Network, "unlock") /\ UNCHANGED transition
    BY <1>1, <2>1, AfreshMoves, TasksApart DEF SessionInv, TypeOK, Pcs
  <2>2. CASE task' = [task EXCEPT ![Network] = Does("resume", "requeue")] /\ transition' = Nobody
    <3>1. Does("resume", "requeue") \in Task
      BY DoesTyped DEF Ops, Pcs
    <3> QED BY <2>2, <3>1, TasksApart DEF SessionInv, TypeOK, OnlyMoves, Does, Fits
  <2> QED BY <2>1, <2>2 DEF RecordNetwork
<1>4. TypeOK'
  BY <1>1, <1>2, <1>3, TasksApart DEF SessionInv, TypeOK, OnlyMoves, pac
<1>5. TaskInv(Network)'
  BY <1>3, PriorTyped DEF TaskInv, Held, Working, Starting
<1>6. SupervisorPauses' /\ Budget' /\ Sealed' /\ Recorded'
  BY <1>1, <1>2, <1>3, TasksApart
  DEF SessionInv, OnlyMoves, SupervisorPauses, Budget, Sealed, Recorded, pac
<1> QED BY <1>1, <1>3, <1>4, <1>5, <1>6, OneTask, TasksApart

LEMMA RecordRecoveryStep ==
    ASSUME SessionInv, At(Supervisor, "record"), RecordRecovery,
           UNCHANGED <<running, closing, pac>>
    PROVE  SessionInv'
<1>1. transition = Supervisor /\ UNCHANGED <<suspended, intent, transition, closed>>
  BY TasksApart DEF RecordRecovery, At, SessionInv, TaskInv, Held
<1>2. life' \in Life /\ life'.attempts = life.attempts /\ life'.stop = life.stop
  BY DEF RecordRecovery, SetPhase, SessionInv, TypeOK, Life, Phases
<1>3. /\ OnlyMoves(Supervisor) /\ Fits(Supervisor, task'[Supervisor].op)
      /\ task'[Supervisor].prior = NoPrior /\ task'[Supervisor].pc = "look"
      /\ ~task'[Supervisor].ok
  BY AfreshMoves, TasksApart DEF RecordRecovery, SessionInv, TypeOK, Pcs
<1>4. TypeOK'
  BY <1>1, <1>2, <1>3 DEF SessionInv, TypeOK, OnlyMoves, pac
<1>5. TaskInv(Supervisor)'
  BY <1>3, PriorTyped DEF TaskInv, Held, Working, Starting
<1>6. SupervisorPauses' /\ Budget' /\ Sealed' /\ Recorded'
  BY <1>1, <1>2, <1>3, TasksApart
  DEF SessionInv, OnlyMoves, SupervisorPauses, Budget, Sealed, Recorded, pac
<1> QED BY <1>1, <1>3, <1>4, <1>5, <1>6, OneTask, TasksApart

LEMMA RecordShutdownStep ==
    ASSUME SessionInv, At(Closer, "record"), RecordShutdown, UNCHANGED <<running, closing, pac>>
    PROVE  SessionInv'
<1>1. /\ transition = Closer /\ UNCHANGED <<suspended, intent, transition>>
      /\ closing /\ (task[Closer].ok => ~running)
      /\ closed' = task[Closer].ok /\ task[Closer].ok \in BOOLEAN
  BY TasksApart
  DEF RecordShutdown, At, SessionInv, TypeOK, TaskInv, Held, Sealed, Task
<1>2. life' \in Life /\ life'.attempts = life.attempts /\ life'.stop = life.stop
  BY DEF RecordShutdown, SetPhase, SessionInv, TypeOK, Life, Phases
<1>3. /\ OnlyMoves(Closer) /\ Fits(Closer, task'[Closer].op)
      /\ task'[Closer].prior = NoPrior /\ task'[Closer].pc = "unlock"
  BY AfreshMoves, TasksApart DEF RecordShutdown, SessionInv, TypeOK, Pcs
<1>4. TypeOK'
  BY <1>1, <1>2, <1>3 DEF SessionInv, TypeOK, OnlyMoves, pac
<1>5. TaskInv(Closer)'
  BY <1>1, <1>3, TasksApart, RestedTask
<1>6. SupervisorPauses' /\ Budget' /\ Sealed' /\ Recorded'
  BY <1>1, <1>2, <1>3, TasksApart
  DEF SessionInv, OnlyMoves, SupervisorPauses, Budget, Sealed, Recorded, pac
<1> QED BY <1>1, <1>3, <1>4, <1>5, <1>6, OneTask, TasksApart

LEMMA RecordStep ==
    ASSUME SessionInv, NEW t \in Tasks, Record(t)
    PROVE  SessionInv'
<1>1. At(t, "record") /\ UNCHANGED <<running, closing, pac>>
  BY DEF Record
<1>2. CASE t = Supervisor
  BY <1>1, <1>2, TasksApart, RecordRecoveryStep DEF Record
<1>3. CASE t = Network
  BY <1>1, <1>3, TasksApart, RecordNetworkStep DEF Record
<1>4. CASE t = Closer
  BY <1>1, <1>4, TasksApart, RecordShutdownStep DEF Record
<1>5. CASE t \in Callers
  <2>1. RecordMaintain(t)
    BY <1>5, TasksApart DEF Record
  <2> QED BY <1>1, <1>5, <2>1, RecordMaintainStep
<1> QED BY <1>2, <1>3, <1>4, <1>5 DEF Tasks

LEMMA UnlockStep ==
    ASSUME SessionInv, NEW t \in Tasks, Unlock(t)
    PROVE  SessionInv'
<1>1. /\ task[t].pc = "unlock" /\ transition = t /\ transition' = Nobody
      /\ UNCHANGED <<core, flags, pac>>
      /\ t = Supervisor => Supervisor \notin pausing
  BY TasksApart DEF Unlock, At, SessionInv, TaskInv, Held, SupervisorPauses
<1>2. /\ OnlyMoves(t) /\ Fits(t, task'[t].op) /\ task'[t].prior = NoPrior
      /\ task'[t].pc = IF t = Supervisor THEN "idle" ELSE "look"
  BY AfreshMoves DEF Unlock, SessionInv, TypeOK, Pcs
<1>3. TaskInv(t)'
  BY <1>2, PriorTyped DEF TaskInv, Held, Working, Starting
<1> QED BY <1>1, <1>2, <1>3, QuietStep, TasksApart DEF pac, SessionInv, TypeOK

-----------------------------------------------------------------------------
(* The reconciliation *)

\* On the way through a reconciliation a task keeps what it does.
LEMMA ReconcileStep ==
    ASSUME SessionInv, NEW t \in Tasks, task[t].pc \in {"look", "probe", "publish"},
           OnlyMoves(t), task'[t].pc \in {"probe", "publish", "enter"},
           task'[t].op = task[t].op, task'[t].ok = task[t].ok, task'[t].prior = task[t].prior,
           UNCHANGED <<core, flags, pausing, transition>>,
           mode' \in BOOLEAN, available' \in BOOLEAN, modeUpdate' \in Tasks \cup {Nobody}
    PROVE  SessionInv'
<1>1. TaskInv(t)'
  BY DEF SessionInv, TaskInv, Held, Working, Starting
<1>2. t = Supervisor /\ task'[t].ok => life.attempts < MaxAttempts
  BY DEF SessionInv, Budget
<1> QED BY <1>1, <1>2, QuietStep

LEMMA LookStep ==
    ASSUME SessionInv, NEW t \in Tasks, Look(t)
    PROVE  SessionInv'
<1>1. /\ task[t].pc = "look" /\ modeUpdate' = t
      /\ task' = [task EXCEPT ![t].pc = "probe", ![t].saw = Active]
      /\ UNCHANGED <<core, flags, mode, available, pausing, transition>>
  BY DEF Look, At
<1>2. Active \in BOOLEAN
  BY DEF Active, SessionInv, TypeOK, Life
<1>3. /\ OnlyMoves(t) /\ task'[t].pc = "probe" /\ task'[t].op = task[t].op
      /\ task'[t].ok = task[t].ok /\ task'[t].prior = task[t].prior
  BY <1>1, <1>2 DEF SessionInv, TypeOK, OnlyMoves, Task, Pcs
<1> QED BY <1>1, <1>3, ReconcileStep DEF SessionInv, TypeOK

LEMMA ProbeStep ==
    ASSUME SessionInv, NEW t \in Tasks, Probe(t)
    PROVE  SessionInv'
<1> DEFINE saw == task[t].saw /\ running
<1>1. /\ task[t].pc = "probe" /\ UNCHANGED <<core, flags, pac, transition>>
      /\ task' = [task EXCEPT ![t].pc = "publish", ![t].saw = saw]
  BY DEF Probe, At
<1>2. saw \in BOOLEAN
  OBVIOUS
<1> HIDE DEF saw
<1>3. /\ OnlyMoves(t) /\ task'[t].pc = "publish" /\ task'[t].op = task[t].op
      /\ task'[t].ok = task[t].ok /\ task'[t].prior = task[t].prior
  BY <1>1, <1>2 DEF SessionInv, TypeOK, OnlyMoves, Task, Pcs
<1> QED BY <1>1, <1>3, ReconcileStep DEF SessionInv, TypeOK, pac

\* Its end: the supervisor acts on its decision, and a guard goes on to settle.
LEMMA ReconciledStep ==
    ASSUME SessionInv, NEW t \in Tasks, task[t].pc \in {"publish", "enter"}, Reconciled(t),
           UNCHANGED <<core, flags, pausing, transition>>,
           mode' \in BOOLEAN, available' \in BOOLEAN
    PROVE  SessionInv'
<1>1. /\ modeUpdate' = Nobody
      /\ OnlyMoves(t) /\ Fits(t, task'[t].op) /\ ~task'[t].ok
      /\ Shows(task'[t].prior.intent, task'[t].prior.stop, task'[t].prior.suspended)
      /\ \/ task'[t].pc = "settle" /\ t \in pausing
         \/ task'[t].pc = "recover" /\ task[t].ok
         \/ task'[t].pc = "idle"
  <2>1. CASE t \in pausing
    BY <2>1, AfreshMoves, PriorTyped DEF Reconciled, SessionInv, TypeOK, Pcs
  <2>2. CASE t \notin pausing /\ task[t].ok
    BY <2>2, AfreshMoves, PriorTyped DEF Reconciled, SessionInv, TypeOK, Pcs
  <2>3. CASE t \notin pausing /\ ~task[t].ok
    BY <2>3, AfreshMoves, PriorTyped DEF Reconciled, SessionInv, TypeOK, Pcs
  <2> QED BY <2>1, <2>2, <2>3
<1>2. TaskInv(t)'
  BY <1>1 DEF TaskInv, Held, Working, Starting
<1>3. t = Supervisor /\ task'[t].pc = "recover" => life.attempts < MaxAttempts
  BY <1>1 DEF SessionInv, Budget
<1> QED BY <1>1, <1>2, <1>3, QuietStep

LEMMA PublishStep ==
    ASSUME SessionInv, NEW t \in Tasks, Publish(t)
    PROVE  SessionInv'
<1>1. /\ task[t].pc = "publish" /\ UNCHANGED <<core, flags, pausing, transition>>
      /\ mode \in BOOLEAN /\ available \in BOOLEAN /\ task[t].saw \in BOOLEAN
      /\ modeUpdate \in Tasks \cup {Nobody}
  BY DEF Publish, At, SessionInv, TypeOK, Task
<1>2. CASE available' = mode /\ Reconciled(t) /\ UNCHANGED mode
  BY <1>1, <1>2, ReconciledStep
<1>3. CASE /\ mode' \in BOOLEAN /\ available' \in BOOLEAN /\ UNCHANGED modeUpdate
           /\ Goto(t, "enter")
  <2>1. /\ OnlyMoves(t) /\ task'[t].pc = "enter" /\ task'[t].op = task[t].op
        /\ task'[t].ok = task[t].ok /\ task'[t].prior = task[t].prior
    BY <1>3, GotoMoves DEF SessionInv, TypeOK, Pcs
  <2> QED BY <1>1, <1>3, <2>1, ReconcileStep
<1>4. \/ available' = mode /\ Reconciled(t) /\ UNCHANGED mode
      \/ mode' = TRUE /\ Goto(t, "enter") /\ UNCHANGED <<available, modeUpdate>>
      \/ available' = FALSE /\ Goto(t, "enter") /\ UNCHANGED <<mode, modeUpdate>>
  BY Zenon DEF Publish
<1> QED BY <1>1, <1>2, <1>3, <1>4

LEMMA EnterStep ==
    ASSUME SessionInv, NEW t \in Tasks, Enter(t)
    PROVE  SessionInv'
<1>1. /\ task[t].pc = "enter" /\ UNCHANGED <<core, flags, pausing, transition>>
      /\ Reconciled(t)
  BY DEF Enter, At
<1>2. mode' \in BOOLEAN /\ available' \in BOOLEAN
  BY DEF Enter, SessionInv, TypeOK
<1> QED BY <1>1, <1>2, ReconciledStep

LEMMA SettleStep ==
    ASSUME SessionInv, NEW t \in Tasks, Settle(t)
    PROVE  SessionInv'
<1>1. /\ task[t].pc = "settle" /\ UNCHANGED <<core, flags, pac, transition>>
      /\ task' = [task EXCEPT ![t].pc = "settled", ![t].saw = mode]
  BY DEF Settle, At
<1>2. /\ OnlyMoves(t) /\ task'[t].pc = "settled" /\ task'[t].op = task[t].op
      /\ task'[t].ok = task[t].ok /\ task'[t].prior = task[t].prior
  BY <1>1 DEF SessionInv, TypeOK, OnlyMoves, Task, Pcs
<1>3. TaskInv(t)'
  BY <1>1, <1>2 DEF SessionInv, TaskInv, Held, Working, Starting
<1>4. t = Supervisor => Supervisor \in pausing
  BY <1>1 DEF SessionInv, SupervisorPauses
<1> QED BY <1>1, <1>2, <1>3, <1>4, QuietStep DEF pac, SessionInv, TypeOK

\* A guard lifts its own pause; the supervisor, which holds the lock, then gives it back.
LEMMA SettledStep ==
    ASSUME SessionInv, NEW t \in Tasks, Settled(t)
    PROVE  SessionInv'
<1>1. /\ task[t].pc = "settled" /\ available' \in BOOLEAN /\ pausing' = pausing \ {t}
      /\ UNCHANGED <<core, flags, mode, modeUpdate, transition>>
  BY DEF Settled, At, SessionInv, TypeOK, Task
<1>2. /\ OnlyMoves(t) /\ Fits(t, task'[t].op) /\ task'[t].prior = NoPrior /\ ~task'[t].ok
      /\ task'[t].pc = IF t = Supervisor THEN "unlock" ELSE "idle"
  <2>1. Afresh(t, IF t = Supervisor THEN "unlock" ELSE "idle")
    BY DEF Settled
  <2> QED BY <2>1, AfreshMoves DEF SessionInv, TypeOK, Pcs
<1>3. t = Supervisor => transition = t
  BY <1>1 DEF SessionInv, SupervisorPauses
<1>4. TypeOK'
  BY <1>1, <1>2 DEF SessionInv, TypeOK, OnlyMoves, core, flags
<1>5. TaskInv(t)'
  BY <1>1, <1>2, <1>3, PriorTyped DEF TaskInv, Held, Working, Starting
<1>6. SupervisorPauses' /\ Budget' /\ Sealed' /\ Recorded'
  BY <1>1, <1>2, TasksApart
  DEF SessionInv, OnlyMoves, SupervisorPauses, Budget, Sealed, Recorded, core, flags
<1> QED BY <1>1, <1>2, <1>4, <1>5, <1>6, OneTask DEF core

\* An exit of the core changes nothing that a task relies on.
LEMMA ExitStep ==
    ASSUME SessionInv, Exit
    PROVE  SessionInv'
<1>1. running' = FALSE /\ UNCHANGED <<intent, closed, flags, pac, transition, task>>
  BY DEF Exit
<1>2. TypeOK'
  BY <1>1 DEF SessionInv, TypeOK, flags, pac
<1>3. \A t \in Tasks : TaskInv(t)'
  BY <1>1 DEF SessionInv, TaskInv, flags
<1>4. SupervisorPauses' /\ Budget' /\ Sealed' /\ Recorded'
  BY <1>1 DEF SessionInv, SupervisorPauses, Budget, Sealed, Recorded, flags, pac
<1> QED BY <1>2, <1>3, <1>4 DEF SessionInv

LEMMA StutterStep ==
    ASSUME SessionInv, UNCHANGED vars
    PROVE  SessionInv'
<1>1. TypeOK'
  BY DEF SessionInv, TypeOK, vars
<1>2. \A t \in Tasks : TaskInv(t)'
  BY DEF SessionInv, TaskInv, vars
<1>3. SupervisorPauses' /\ Budget' /\ Sealed' /\ Recorded'
  BY DEF SessionInv, SupervisorPauses, Budget, Sealed, Recorded, vars
<1> QED BY <1>1, <1>2, <1>3 DEF SessionInv

-----------------------------------------------------------------------------
THEOREM StepHolds == SessionInv /\ [Next]_vars => SessionInv'
<1> SUFFICES ASSUME SessionInv, [Next]_vars PROVE SessionInv'
  OBVIOUS
<1>1. CASE Begin
  BY <1>1, MaintainStep, MonitorStep, CloseStep, TasksApart DEF Begin
<1>2. ASSUME NEW t \in Tasks, Step(t) PROVE SessionInv'
  <2>1. CASE Acquire(t) \/ AdmitMaintain(t) \/ Unlock(t)
    BY <2>1, AcquireStep, AdmitMaintainStep, UnlockStep
  <2>2. CASE Stop(t) \/ Proceed(t) \/ Spawn(t) \/ Ready(t) \/ Record(t)
    BY <2>2, StopStep, ProceedStep, SpawnStep, ReadyStep, RecordStep
  <2>3. CASE Look(t) \/ Probe(t) \/ Publish(t) \/ Enter(t) \/ Settle(t) \/ Settled(t)
    BY <2>3, LookStep, ProbeStep, PublishStep, EnterStep, SettleStep, SettledStep
  <2>4. CASE Observe \/ Decide \/ Recover \/ Inspect
    BY <2>4, ObserveStep, DecideStep, RecoverStep, InspectStep
  <2>5. CASE AdmitSuspension \/ Reacquire \/ Resumed
    BY <2>5, AdmitSuspensionStep, ReacquireStep, ResumedStep
  <2> QED BY <1>2, <2>1, <2>2, <2>3, <2>4, <2>5 DEF Step
<1>3. CASE RecoverRefused \/ CaptureFails \/ Exit
  BY <1>3, RecoverRefusedStep, CaptureFailsStep, ExitStep
<1>4. CASE ObservationFails
  BY <1>4, SuperviseStep DEF ObservationFails, SessionInv, TypeOK, Life, Phases
<1>5. CASE Over \/ UNCHANGED vars
  BY <1>5, StutterStep DEF Over
<1> QED BY <1>1, <1>2, <1>3, <1>4, <1>5 DEF Next

THEOREM SessionInvHolds == Spec => []SessionInv
BY InitHolds, StepHolds, PTL DEF Spec

\* The lifecycle is well formed whatever the tasks interleave; in particular the
\* supervisor never spends more attempts than its policy allows (supervision.rs).
THEOREM TypeCorrect == Spec => []TypeOK
<1>1. SessionInv => TypeOK
  BY DEF SessionInv
<1> QED BY <1>1, SessionInvHolds, PTL

\* A shutdown that has confirmed the stop is final, for any number of callers.
THEOREM ShutdownIsFinal == Spec => []ShutdownFinal
<1>1. SessionInv => ShutdownFinal
  BY DEF SessionInv, Sealed, ShutdownFinal
<1> QED BY <1>1, SessionInvHolds, PTL

LEMMA SpawnsOnly ==
    ASSUME SessionInv, Next, ~running, running'
    PROVE  \E t \in Tasks : Spawn(t)
<1>1. ~Begin /\ ~Over
  BY DEF Begin, Maintain, Monitor, Close, Over, core, vars
<1>2. ~RecoverRefused /\ ~CaptureFails /\ ~Exit /\ ~ObservationFails
  BY DEF RecoverRefused, CaptureFails, Exit, ObservationFails, Supervise, core
<1>3. PICK t \in Tasks : Step(t)
  BY <1>1, <1>2 DEF Next
<1>4. ~Acquire(t) /\ ~AdmitMaintain(t) /\ ~Proceed(t) /\ ~Unlock(t)
  BY DEF Acquire, AdmitMaintain, Proceed, Unlock, core
<1>5. ~Stop(t) /\ ~Ready(t)
  BY DEF Stop, Ready
<1>6. ~Record(t)
  BY DEF Record
<1>7. ~Look(t) /\ ~Probe(t) /\ ~Publish(t) /\ ~Enter(t) /\ ~Settle(t) /\ ~Settled(t)
  BY DEF Look, Probe, Publish, Enter, Settle, Settled, core
<1>8. ~Observe /\ ~Decide /\ ~Recover /\ ~Inspect
  BY DEF Observe, Decide, Supervise, Recover, Inspect, core
<1>9. ~AdmitSuspension /\ ~Reacquire /\ ~Resumed
  BY DEF AdmitSuspension, Reacquire, Resumed, core
<1> QED BY <1>3, <1>4, <1>5, <1>6, <1>7, <1>8, <1>9 DEF Step

\* No core is started against the last intent that was admitted.
THEOREM IntentIsRespected == Spec => IntentRespected
<1>1. SessionInv /\ [Next]_vars =>
        [~running /\ running' =>
           /\ intent # "stop"
           /\ intent = "suspend" => Op(transition) = "resume"]_vars
  <2> SUFFICES ASSUME SessionInv, Next, ~running, running'
               PROVE  /\ intent # "stop"
                      /\ intent = "suspend" => Op(transition) = "resume"
    OBVIOUS
  <2>1. PICK t \in Tasks : Spawn(t)
    BY SpawnsOnly
  <2>2. task[t].pc = "launch" /\ TaskInv(t) /\ task[t].op \in Ops
    BY <2>1 DEF Spawn, At, SessionInv, TypeOK, Task
  <2>3. transition = t /\ task[t].op \in {"restart", "supervise", "resume"}
    BY <2>2 DEF TaskInv, Held, Ops
  <2> QED BY <2>2, <2>3 DEF TaskInv, Working, Op
<1> QED BY <1>1, SessionInvHolds, PTL DEF Spec, IntentRespected
=============================================================================
