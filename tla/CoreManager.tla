---------------------------- MODULE CoreManager ----------------------------
(***************************************************************************)
(* The privileged daemon's core manager: `CoreManager` in                  *)
(* crates/zenclash-service/src/core/manager.rs, the startup reconciliation *)
(* of core/reconcile.rs, the resolver worker of core/tun_dns.rs and the    *)
(* execution reservation of execution.rs, which the daemon shares with the *)
(* desktop's Sidecar.                                                      *)
(*                                                                         *)
(* Four actors interleave between the awaits of the code: the command that *)
(* holds CORE_MANAGER's mutex (a takeover, a stop, a restore, a resolver   *)
(* update), the watchdog task, the resolver's worker thread and the world  *)
(* (the core exits, the daemon crashes, a Sidecar reserves execution).     *)
(*                                                                         *)
(* A core process is one element of Cores.  What a runtime record or a     *)
(* child handle names is the process's verified identity (pid, executable, *)
(* start time), so an element is reused only when nothing refers to it.    *)
(***************************************************************************)
EXTENDS Naturals, Sequences, FiniteSets

CONSTANTS
    Cores,        \* process identities of spawned cores
    NoCore,       \* running_pid = 0, no record, no child
    Configs,      \* ClashConfig values
    TunConfigs,   \* the ones whose TUN section asks for the resolver
    NoConfig,     \* running_config = None
    MaxRestarts,  \* WatchdogConfig::max_restarts
    DnsCanFail    \* whether the native resolver call may be refused

ASSUME CoresAssumption ==
    /\ NoCore \notin Cores
    /\ NoConfig \notin Configs
    /\ TunConfigs \subseteq Configs
    /\ MaxRestarts \in Nat
    /\ DnsCanFail \in BOOLEAN

VARIABLES
    core,          \* what each process is to the world (see CoreStates)
    record,        \* the core runtime record on disk
    runningPid,    \* CoreManager::running_pid
    runningConfig, \* CoreManager::running_config
    execution,     \* CoreManager::execution is Some
    failedChild,   \* CoreManager::failed_child
    lifecycle,     \* the core lifecycle state of core/state.rs
    boot,          \* how far this daemon's startup got
    cmd,           \* the operation that holds CORE_MANAGER
    wd,            \* the watchdog task whose handle the manager keeps
    dns,           \* the temporary resolver is installed
    dnsQueue,      \* requests the resolver worker has not served yet
    dnsReply,      \* its answers to the two awaiting tasks
    sidecar        \* the desktop's local core

vars == <<core, record, runningPid, runningConfig, execution, failedChild,
          lifecycle, boot, cmd, wd, dns, dnsQueue, dnsReply, sidecar>>
dnsVars == <<dns, dnsQueue, dnsReply>>
memory == <<runningPid, runningConfig, execution, failedChild>>

\* "owned": spawned by the living daemon, or recorded for the next one.
\* "reaping": its guard was dropped and a detached task is killing it.
\* "lost": alive across a crash that no runtime record names.
\* "unreconciled": named by the record, but startup could not terminate it.
CoreStates == {"dead", "owned", "reaping", "lost", "unreconciled"}

Alive == {c \in Cores : core[c] # "dead"}
Owned == {c \in Cores : core[c] = "owned"}

LifecycleStates == {"Starting", "Running", "RecoveringCore", "Fatal"}
BootStates == {"down", "restore", "up", "blocked"}
CmdStates == {"idle", "stopDns", "stopJoin", "stopForget", "stopRelease",
              "prepare", "spawn", "awaitIpc", "record", "publish", "startDns", "setDns"}
WdStates == {"none", "wait", "exitDns", "forget", "budget", "backoff", "spawn",
             "awaitIpc", "record", "restartDns", "epilogue", "doneOk", "doneErr"}

Idle == [pc |-> "idle", after |-> "done", origin |-> "none",
         config |-> NoConfig, child |-> NoCore]

NoWatchdog == [pc |-> "none", child |-> NoCore, config |-> NoConfig,
               shutdown |-> FALSE, old |-> 0, recent |-> 0,
               retried |-> FALSE, exhausted |-> FALSE]

Commands == [pc : CmdStates, after : {"done", "start", "fail"},
             origin : {"none", "stop", "takeover", "restore"},
             config : Configs \cup {NoConfig}, child : Cores \cup {NoCore}]
Watchdogs == [pc : WdStates, child : Cores \cup {NoCore},
              config : Configs \cup {NoConfig}, shutdown : BOOLEAN,
              old : 0 .. MaxRestarts, recent : 0 .. MaxRestarts + 1,
              retried : BOOLEAN, exhausted : BOOLEAN]
Requests == [on : BOOLEAN, from : {"cmd", "wd", "retirement"}]

TypeOK ==
    /\ core \in [Cores -> CoreStates]
    /\ record \in Cores \cup {NoCore}
    /\ runningPid \in Cores \cup {NoCore}
    /\ runningConfig \in Configs \cup {NoConfig}
    /\ execution \in BOOLEAN
    /\ failedChild \in Cores \cup {NoCore}
    /\ lifecycle \in LifecycleStates
    /\ boot \in BootStates
    /\ cmd \in Commands
    /\ wd \in Watchdogs
    /\ dns \in BOOLEAN
    /\ dnsQueue \in Seq(Requests)
    /\ dnsReply \in [{"cmd", "wd"} -> {"none", "ok", "err"}]
    /\ sidecar \in {"none", "inspected", "running"}

Init ==
    /\ core = [c \in Cores |-> "dead"]
    /\ record = NoCore
    /\ runningPid = NoCore
    /\ runningConfig = NoConfig
    /\ execution = FALSE
    /\ failedChild = NoCore
    /\ lifecycle = "Running"
    /\ boot = "down"
    /\ cmd = Idle
    /\ wd = NoWatchdog
    /\ dns = FALSE
    /\ dnsQueue = <<>>
    /\ dnsReply = [t \in {"cmd", "wd"} |-> "none"]
    /\ sidecar = "none"

-----------------------------------------------------------------------------
(* Processes, the runtime record and the execution reservation             *)

Fresh(c) == core[c] = "dead" /\ c \notin {record, runningPid, failedChild, wd.child, cmd.child}
Spawned(c) == [core EXCEPT ![c] = "owned"]
Gone(c) == [core EXCEPT ![c] = "dead"]

\* Whether ChildGuard::terminate confirms: a child that already exited always does.
KillOutcomes(c) == IF core[c] = "dead" THEN {TRUE} ELSE BOOLEAN
AfterKill(c, confirmed) == IF confirmed THEN Gone(c) ELSE core

\* A record write needs the process's identity; it may fail before the rename
\* or, in the directory's fsync, after it.
RecordSkipped(c) == core[c] # "dead" /\ UNCHANGED record
RecordWritten(c) == core[c] # "dead" /\ record' = c
RecordNotWritten(c) == record' \in (IF core[c] = "dead" THEN {record} ELSE {record, c})
RecordRemoved == record' \in {NoCore, record}

WatchdogRunsUnlessRecovering == wd.pc \in {"wait", "exitDns", "epilogue"}
WatchdogRuns == wd.pc \notin {"none", "doneOk", "doneErr"}

\* Somebody in the daemon holds a clone of the CoreExecutionGuard: the manager,
\* the command inside start_core, or the watchdog task.
ReservedByTasks == WatchdogRuns \/ cmd.pc \in {"spawn", "awaitIpc", "record", "publish"}
ServiceReserves ==
    \/ execution
    \/ cmd.pc \in {"spawn", "awaitIpc", "record", "publish"}
    \/ WatchdogRuns

-----------------------------------------------------------------------------
(* The resolver worker: one thread, requests served in the order queued    *)

Asked(on, from) == Append(dnsQueue, [on |-> on, from |-> from])

\* apply_for_config enqueues what the configuration wants.
WantsDns(config) == config \in TunConfigs

Consumed(task) == dnsReply' = [dnsReply EXCEPT ![task] = "none"]

ServeDns ==
    /\ dnsQueue # <<>>
    /\ LET request == Head(dnsQueue) IN
       \E answer \in (IF DnsCanFail THEN {"ok", "err"} ELSE {"ok"}) :
         /\ dns' = IF answer = "ok" THEN request.on ELSE dns
         /\ dnsReply' = IF request.from = "retirement" THEN dnsReply
                        ELSE [dnsReply EXCEPT ![request.from] = answer]
    /\ dnsQueue' = Tail(dnsQueue)
    /\ UNCHANGED <<core, record, memory, lifecycle, boot, cmd, wd, sidecar>>

-----------------------------------------------------------------------------
(* Commands.  Every IPC handler that reaches the manager holds             *)
(* OWNER_LIFECYCLE_LOCK and then CORE_MANAGER, so one runs at a time.      *)

Serving == boot \in {"up", "blocked"}

\* stop_core_by begins by asking for the resolver to be restored.
BeginStop(origin, after, config) ==
    /\ cmd' = [Idle EXCEPT !.pc = "stopDns", !.after = after, !.origin = origin, !.config = config]
    /\ dnsQueue' = Asked(FALSE, "cmd")

\* StartClash: stop the previous owner's core, then start this one.
Takeover(config) ==
    /\ Serving /\ cmd = Idle
    /\ BeginStop("takeover", "start", config)
    /\ UNCHANGED <<core, record, memory, lifecycle, boot, wd, dns, dnsReply, sidecar>>

\* StopClash, a retired owner, a rollback or an orderly shutdown.
Stop ==
    /\ Serving /\ cmd = Idle
    /\ BeginStop("stop", "done", NoConfig)
    /\ UNCHANGED <<core, record, memory, lifecycle, boot, wd, dns, dnsReply, sidecar>>

\* SetTunDns: enabling needs a running core; the pid is read and the request is
\* queued with no await in between.
SetTunDns(on) ==
    /\ Serving /\ cmd = Idle
    /\ on => runningPid # NoCore /\ runningConfig # NoConfig
    /\ cmd' = [Idle EXCEPT !.pc = "setDns"]
    /\ dnsQueue' = Asked(on, "cmd")
    /\ UNCHANGED <<core, record, memory, lifecycle, boot, wd, dns, dnsReply, sidecar>>

TunDnsSet ==
    /\ cmd.pc = "setDns"
    /\ dnsReply["cmd"] # "none"
    /\ Consumed("cmd")
    /\ cmd' = Idle
    /\ UNCHANGED <<core, record, memory, lifecycle, boot, wd, dns, dnsQueue, sidecar>>

-----------------------------------------------------------------------------
(* start_core                                                              *)

\* start_core returned an error.  The takeover confirms the core is gone with a
\* second stop; a restore only reports Fatal.
StartRejected(life) ==
    IF cmd.origin = "restore"
    THEN cmd' = Idle /\ lifecycle' = "Fatal" /\ UNCHANGED dnsQueue
    ELSE BeginStop("stop", "done", NoConfig) /\ lifecycle' = life

\* Between the stop and start_core the takeover persists the previous owner's
\* stopped state and materializes the generation; either may fail.
Prepare ==
    /\ cmd.pc = "prepare"
    /\ \/ /\ cmd.origin = "takeover"
          /\ cmd' = Idle
          /\ UNCHANGED <<lifecycle, dnsQueue>>
       \/ /\ boot = "blocked"                  \* ensure_startup_reconciled
          /\ StartRejected(lifecycle)
       \/ /\ boot # "blocked"
          /\ sidecar = "running"               \* CoreExecutionGuard::acquire
          /\ StartRejected("Starting")
       \/ /\ boot # "blocked"
          /\ sidecar # "running"
          /\ cmd' = [cmd EXCEPT !.pc = "spawn"]
          /\ lifecycle' = "Starting"
          /\ UNCHANGED dnsQueue
    /\ UNCHANGED <<core, record, memory, boot, wd, dns, dnsReply, sidecar>>

\* prepare_core_ipc_socket and run_with_logging.
StartSpawn ==
    /\ cmd.pc = "spawn"
    /\ \/ \E c \in Cores :
            /\ Fresh(c)
            /\ core' = Spawned(c)
            /\ cmd' = [cmd EXCEPT !.pc = "awaitIpc", !.child = c]
            /\ UNCHANGED <<lifecycle, dnsQueue>>
       \/ StartRejected(lifecycle) /\ UNCHANGED core
       \/ /\ cmd.origin = "restore"            \* core_path_is_unusable
          /\ cmd' = Idle
          /\ lifecycle' = "Running"
          /\ UNCHANGED <<core, dnsQueue>>
    /\ UNCHANGED <<record, memory, boot, wd, dns, dnsReply, sidecar>>

\* The start failed after the spawn.  An unconfirmed kill keeps the child, its
\* pid and the reservation, so that a later stop can retry.
StartAbandoned(c, confirmed) ==
    /\ core' = AfterKill(c, confirmed)
    /\ IF confirmed
       THEN StartRejected(lifecycle) /\ UNCHANGED memory
       ELSE /\ runningPid' = c
            /\ runningConfig' = cmd.config
            /\ failedChild' = c
            /\ execution' = TRUE
            /\ StartRejected("Fatal")

\* ChildGuard::await_ipc: ready, or the child exited, or the readiness timeout.
StartAwaitIpc ==
    /\ cmd.pc = "awaitIpc"
    /\ \/ /\ core[cmd.child] # "dead"
          /\ cmd' = [cmd EXCEPT !.pc = "record"]
          /\ UNCHANGED <<core, record, memory, lifecycle, dnsQueue>>
       \/ \E confirmed \in KillOutcomes(cmd.child) :
            /\ StartAbandoned(cmd.child, confirmed)
            /\ IF confirmed THEN UNCHANGED record
               ELSE RecordWritten(cmd.child) \/ RecordNotWritten(cmd.child)
    /\ UNCHANGED <<boot, wd, dns, dnsReply, sidecar>>

\* The record makes the core recoverable; only then are the pid and the
\* configuration published and the watchdog spawned.
StartRecord ==
    /\ cmd.pc = "record"
    /\ \/ /\ RecordWritten(cmd.child)
          /\ runningPid' = cmd.child
          /\ runningConfig' = cmd.config
          /\ wd' = [NoWatchdog EXCEPT !.pc = "wait", !.child = cmd.child, !.config = cmd.config]
          /\ cmd' = [cmd EXCEPT !.pc = "publish", !.child = NoCore]
          /\ UNCHANGED <<core, execution, failedChild, lifecycle, dnsQueue>>
       \/ /\ RecordNotWritten(cmd.child)
          /\ \E confirmed \in KillOutcomes(cmd.child) : StartAbandoned(cmd.child, confirmed)
          /\ UNCHANGED wd
    /\ UNCHANGED <<boot, dns, dnsReply, sidecar>>

\* The watchdog already runs when start_core announces the core and asks for
\* the resolver; an unreadable configuration fails before the request.
StartPublish ==
    /\ cmd.pc = "publish"
    /\ execution' = TRUE
    /\ lifecycle' = "Running"
    /\ \/ /\ cmd' = [cmd EXCEPT !.pc = "startDns"]
          /\ dnsQueue' = Asked(WantsDns(cmd.config), "cmd")
       \/ BeginStop(cmd.origin, "fail", NoConfig)
    /\ UNCHANGED <<core, record, runningPid, runningConfig, failedChild, boot, wd, dns, dnsReply, sidecar>>

StartDns ==
    /\ cmd.pc = "startDns"
    /\ \/ dnsReply["cmd"] = "ok" /\ cmd' = Idle /\ UNCHANGED dnsQueue
       \/ dnsReply["cmd"] = "err" /\ BeginStop(cmd.origin, "fail", NoConfig)
    /\ Consumed("cmd")
    /\ UNCHANGED <<core, record, memory, lifecycle, boot, wd, dns, sidecar>>

-----------------------------------------------------------------------------
(* stop_core_by                                                            *)

\* stop_core_by returned an error: the first stop of a takeover gives up, a
\* rejected start's stop gives up, the retirement inside start_core rejects it.
StopErrorIgnored == cmd' = [cmd EXCEPT !.pc = "stopForget"] /\ UNCHANGED <<lifecycle, dnsQueue>>
StopFailed ==
    IF cmd.after = "fail"
    THEN StartRejected(lifecycle)
    ELSE cmd' = Idle /\ UNCHANGED <<lifecycle, dnsQueue>>

\* The shutdown channel exists as long as the manager keeps a watchdog.
NeverNotified == wd
Notified == [wd EXCEPT !.shutdown = (wd.pc # "none")]

\* The resolver answered.  A refusal leaves everything as it was; otherwise the
\* watchdog is told to shut down.
StopDns ==
    /\ cmd.pc = "stopDns"
    /\ \/ /\ dnsReply["cmd"] = "err"
          /\ StopFailed
          /\ UNCHANGED wd
       \/ /\ dnsReply["cmd"] = "ok"
          /\ wd' = Notified
          /\ cmd' = [cmd EXCEPT !.pc = "stopJoin"]
          /\ UNCHANGED <<lifecycle, dnsQueue>>
    /\ Consumed("cmd")
    /\ UNCHANGED <<core, record, memory, boot, dns, sidecar>>

\* The watchdog has finished (or there is none).  A child whose termination was
\* not confirmed is retried here, and put back when the retry fails.
StopJoin ==
    /\ cmd.pc = "stopJoin"
    /\ ~WatchdogRuns
    /\ wd' = NoWatchdog
    /\ \/ /\ failedChild = NoCore
          /\ wd.pc # "doneErr"
          /\ cmd' = [cmd EXCEPT !.pc = "stopForget"]
          /\ UNCHANGED <<core, failedChild, lifecycle, dnsQueue>>
       \/ /\ failedChild # NoCore
          /\ \E confirmed \in KillOutcomes(failedChild) :
               /\ core' = AfterKill(failedChild, confirmed)
               /\ IF confirmed
                  THEN /\ failedChild' = NoCore
                       /\ cmd' = [cmd EXCEPT !.pc = "stopForget"]
                       /\ UNCHANGED <<lifecycle, dnsQueue>>
                  ELSE StopFailed /\ UNCHANGED failedChild
    /\ UNCHANGED <<record, runningPid, runningConfig, execution, boot, dns, dnsReply, sidecar>>

StopForget ==
    /\ cmd.pc = "stopForget"
    /\ runningPid' = NoCore
    /\ runningConfig' = NoConfig
    /\ RecordRemoved
    /\ cmd' = [cmd EXCEPT !.pc = "stopRelease"]
    /\ UNCHANGED <<core, execution, failedChild, lifecycle, boot, wd, dnsVars, sidecar>>

\* after_stop drops the reservation; stop_core_by then returns Ok.  StopClash
\* still reports Fatal when it cannot persist the stop.
StopRelease ==
    /\ cmd.pc = "stopRelease"
    /\ execution' = FALSE
    /\ \/ /\ cmd.after = "done"
          /\ cmd' = Idle
          /\ lifecycle' \in {"Running", "Fatal"}
          /\ UNCHANGED dnsQueue
       \/ /\ cmd.after = "start"
          /\ cmd' = [cmd EXCEPT !.pc = "prepare"]
          /\ lifecycle' = "Running"
          /\ UNCHANGED dnsQueue
       \/ /\ cmd.after = "fail"
          /\ StartRejected("Running")
    /\ UNCHANGED <<core, record, runningPid, runningConfig, failedChild, boot, wd, dns, dnsReply, sidecar>>

-----------------------------------------------------------------------------
(* The watchdog task                                                       *)

\* Every way out of the task drops the RetirementGuard, which queues a release
\* of the resolver, and the task's clone of the reservation.
WatchdogEndsUnguarded(pc) == wd' = [wd EXCEPT !.pc = pc, !.child = NoCore] /\ UNCHANGED dnsQueue
WatchdogEnds(pc) ==
    /\ wd' = [wd EXCEPT !.pc = pc, !.child = NoCore]
    /\ dnsQueue' = Asked(FALSE, "retirement")

\* A core whose termination is unconfirmed is left in failed_child.
WatchdogForgetsChild(c) == UNCHANGED failedChild /\ lifecycle' = "Fatal" /\ WatchdogEnds("doneErr")
WatchdogAbandons(c) ==
    /\ failedChild' = c
    /\ lifecycle' = "Fatal"
    /\ WatchdogEnds("doneErr")

\* select!: the shutdown signal.
WdShutdown ==
    /\ wd.pc = "wait" /\ wd.shutdown
    /\ \E confirmed \in KillOutcomes(wd.child) :
         /\ core' = AfterKill(wd.child, confirmed)
         /\ IF confirmed
            THEN /\ wd' = [wd EXCEPT !.pc = "epilogue", !.child = NoCore]
                 /\ UNCHANGED <<failedChild, lifecycle, dnsQueue>>
            ELSE WatchdogAbandons(wd.child)
    /\ UNCHANGED <<record, runningPid, runningConfig, execution, boot, cmd, dns, dnsReply, sidecar>>

\* select!: child.wait() saw the exit; the resolver is released first.
WdExit ==
    /\ wd.pc = "wait" /\ core[wd.child] = "dead"
    /\ wd' = [wd EXCEPT !.pc = "exitDns"]
    /\ dnsQueue' = Asked(FALSE, "wd")
    /\ UNCHANGED <<core, record, memory, lifecycle, boot, cmd, dns, dnsReply, sidecar>>

\* select!: child.wait() itself failed.  The guard is dropped with the child,
\* which a detached task kills later.
WdWaitError ==
    /\ wd.pc = "wait"
    /\ core' = IF core[wd.child] = "dead" THEN core ELSE [core EXCEPT ![wd.child] = "reaping"]
    /\ wd' = [wd EXCEPT !.pc = "epilogue", !.child = NoCore, !.exhausted = TRUE]
    /\ UNCHANGED <<record, memory, lifecycle, boot, cmd, dnsVars, sidecar>>

\* A refused release is only logged.
WdExitDns ==
    /\ wd.pc = "exitDns"
    /\ dnsReply["wd"] # "none"
    /\ Consumed("wd")
    /\ lifecycle' = "RecoveringCore"
    /\ wd' = [wd EXCEPT !.pc = "forget"]
    /\ UNCHANGED <<core, record, memory, boot, cmd, dns, dnsQueue, sidecar>>

\* The pid and the record are cleared and this exit joins the restart window.
\* Restarts of earlier recoveries may have left the window; with none left the
\* backoff starts over.
WdForget ==
    /\ wd.pc = "forget"
    /\ runningPid' = NoCore
    /\ RecordRemoved
    /\ \E kept \in 0 .. wd.old + wd.recent :
         wd' = [wd EXCEPT !.pc = "budget", !.child = NoCore, !.old = kept, !.recent = 1,
                          !.retried = IF kept = 0 THEN FALSE ELSE @]
    /\ UNCHANGED <<core, runningConfig, execution, failedChild, lifecycle, boot, cmd, dnsVars, sidecar>>

\* Too many restarts in the window.
BudgetSpentLate == wd.old + wd.recent > MaxRestarts + 1
BudgetSpent == wd.old + wd.recent > MaxRestarts

\* A spent budget gives up.  The first attempt has no backoff
\* and therefore no look at the shutdown signal.
WdBudget ==
    /\ wd.pc = "budget"
    /\ wd' = IF BudgetSpent
             THEN [wd EXCEPT !.pc = "epilogue", !.exhausted = TRUE]
             ELSE [wd EXCEPT !.pc = IF wd.retried THEN "backoff" ELSE "spawn"]
    /\ UNCHANGED <<core, record, memory, lifecycle, boot, cmd, dnsVars, sidecar>>

\* select!: a shutdown during the backoff ends the recovery; sleep has to win.
WdBackoff ==
    /\ wd.pc = "backoff"
    /\ wd' = [wd EXCEPT !.pc = IF wd.shutdown THEN "epilogue" ELSE "spawn"]
    /\ UNCHANGED <<core, record, memory, lifecycle, boot, cmd, dnsVars, sidecar>>

\* A failed attempt is counted.  The attempts of one recovery all fit in the
\* window (ten backoffs of at most 30 s and ten readiness waits of 15 s are
\* less than 600 s), so only earlier restarts can leave it.
AttemptFailed ==
    \E kept \in 0 .. wd.old :
      wd' = [wd EXCEPT !.pc = "budget", !.child = NoCore, !.old = kept,
                       !.recent = @ + 1, !.retried = TRUE]

WdSpawn ==
    /\ wd.pc = "spawn"
    /\ \/ \E c \in Cores :
            /\ Fresh(c)
            /\ core' = Spawned(c)
            /\ wd' = [wd EXCEPT !.pc = "awaitIpc", !.child = c]
       \/ AttemptFailed /\ UNCHANGED core
    /\ UNCHANGED <<record, memory, lifecycle, boot, cmd, dnsVars, sidecar>>

WdAwaitIpc ==
    /\ wd.pc = "awaitIpc"
    /\ \/ /\ core[wd.child] # "dead"
          /\ wd' = [wd EXCEPT !.pc = "record"]
          /\ UNCHANGED <<core, record, runningPid, failedChild, lifecycle, dnsQueue>>
       \/ \E confirmed \in KillOutcomes(wd.child) :
            /\ core' = AfterKill(wd.child, confirmed)
            /\ IF confirmed
               THEN AttemptFailed /\ UNCHANGED <<record, runningPid, failedChild, lifecycle, dnsQueue>>
               ELSE /\ runningPid' = wd.child
                    /\ RecordWritten(wd.child) \/ RecordNotWritten(wd.child)
                    /\ WatchdogAbandons(wd.child)
    /\ UNCHANGED <<runningConfig, execution, boot, cmd, dns, dnsReply, sidecar>>

\* A restarted core that cannot be committed is retired for good.
RestartRetired ==
    \E confirmed \in KillOutcomes(wd.child) :
      /\ core' = AfterKill(wd.child, confirmed)
      /\ IF confirmed
         THEN /\ wd' = [wd EXCEPT !.pc = "epilogue", !.child = NoCore, !.exhausted = TRUE]
              /\ UNCHANGED <<runningPid, failedChild, lifecycle, dnsQueue>>
         ELSE /\ runningPid' = wd.child
              /\ WatchdogAbandons(wd.child)

WdRecord ==
    /\ wd.pc = "record"
    /\ \/ /\ RecordWritten(wd.child)
          /\ \/ /\ wd' = [wd EXCEPT !.pc = "restartDns"]
                /\ dnsQueue' = Asked(WantsDns(wd.config), "wd")
                /\ UNCHANGED <<core, runningPid, failedChild, lifecycle>>
             \/ RestartRetired                 \* unreadable configuration
       \/ RecordNotWritten(wd.child) /\ RestartRetired
    /\ UNCHANGED <<runningConfig, execution, boot, cmd, dns, dnsReply, sidecar>>

WdRestartDns ==
    /\ wd.pc = "restartDns"
    /\ \/ /\ dnsReply["wd"] = "ok"
          /\ runningPid' = wd.child
          /\ lifecycle' = "Running"
          /\ wd' = [wd EXCEPT !.pc = "wait", !.retried = TRUE]
          /\ UNCHANGED <<core, failedChild, dnsQueue>>
       \/ dnsReply["wd"] = "err" /\ RestartRetired
    /\ Consumed("wd")
    /\ UNCHANGED <<record, runningConfig, execution, boot, cmd, dns, sidecar>>

\* What the task leaves as lifecycle state when it ends.
NoLastWord == lifecycle
LastWord == IF wd.exhausted THEN "Fatal" ELSE lifecycle

WdEpilogue ==
    /\ wd.pc = "epilogue"
    /\ runningPid' = NoCore
    /\ RecordRemoved
    /\ lifecycle' = LastWord
    /\ WatchdogEnds("doneOk")
    /\ UNCHANGED <<core, runningConfig, execution, failedChild, boot, cmd, dns, dnsReply, sidecar>>

-----------------------------------------------------------------------------
(* The world                                                               *)

\* A core exits on its own, is killed from outside, or a detached kill lands.
CoreExits(c) ==
    /\ core[c] # "dead"
    /\ core' = Gone(c)
    /\ UNCHANGED <<record, memory, lifecycle, boot, cmd, wd, dnsVars, sidecar>>

\* The daemon dies.  Its cores live on, the lock file is released, the
\* temporary resolver key disappears with the session that added it.
Crash ==
    /\ boot # "down"
    /\ core' = [c \in Cores |->
                 IF core[c] \in {"owned", "reaping"} /\ c # record THEN "lost"
                 ELSE IF core[c] = "reaping" THEN "owned" ELSE core[c]]
    /\ runningPid' = NoCore /\ runningConfig' = NoConfig
    /\ execution' = FALSE /\ failedChild' = NoCore
    /\ lifecycle' = "Running"
    /\ boot' = "down"
    /\ cmd' = Idle
    /\ wd' = NoWatchdog
    /\ dns' = FALSE /\ dnsQueue' = <<>>
    /\ dnsReply' = [t \in {"cmd", "wd"} |-> "none"]
    /\ UNCHANGED <<record, sidecar>>

\* reconcile_service_startup: terminate the recorded process if it is still the
\* same one, then forget it.  A failure leaves core starts refused.
Reconcile ==
    /\ boot = "down"
    /\ \/ /\ record = NoCore
          /\ boot' = "restore"
          /\ UNCHANGED <<core, record>>
       \/ /\ record # NoCore
          /\ \E confirmed \in KillOutcomes(record) :
               IF confirmed
               THEN core' = Gone(record) /\ RecordRemoved /\ boot' = "restore"
               ELSE /\ core' = [core EXCEPT ![record] = "unreconciled"]
                    /\ boot' = "blocked"
                    /\ UNCHANGED record
    /\ UNCHANGED <<memory, lifecycle, cmd, wd, dnsVars, sidecar>>

\* restore_desired_state starts the persisted configuration, or there is none.
Restore ==
    /\ boot = "restore"
    /\ boot' = "up"
    /\ \/ cmd' = cmd
       \/ \E config \in Configs :
            cmd' = [Idle EXCEPT !.pc = "prepare", !.origin = "restore", !.config = config]
    /\ UNCHANGED <<core, record, memory, lifecycle, wd, dnsVars, sidecar>>

\* reserve_sidecar: inspect the processes, then take the shared reservation.
SidecarInspect ==
    /\ sidecar = "none"
    /\ Alive = {}
    /\ sidecar' = "inspected"
    /\ UNCHANGED <<core, record, memory, lifecycle, boot, cmd, wd, dnsVars>>

SidecarReserve ==
    /\ sidecar = "inspected"
    /\ sidecar' = IF ServiceReserves THEN "none" ELSE "running"
    /\ UNCHANGED <<core, record, memory, lifecycle, boot, cmd, wd, dnsVars>>

\* release_after_exit keeps the reservation until the process is gone.
SidecarExits ==
    /\ sidecar = "running"
    /\ sidecar' = "none"
    /\ UNCHANGED <<core, record, memory, lifecycle, boot, cmd, wd, dnsVars>>

-----------------------------------------------------------------------------
CommandStep == \/ TunDnsSet \/ Prepare \/ StartSpawn \/ StartAwaitIpc \/ StartRecord
               \/ StartPublish \/ StartDns \/ StopDns \/ StopJoin \/ StopForget \/ StopRelease

WatchdogStep == \/ WdShutdown \/ WdExit \/ WdWaitError \/ WdExitDns \/ WdForget \/ WdBudget
                \/ WdBackoff \/ WdSpawn \/ WdAwaitIpc \/ WdRecord \/ WdRestartDns \/ WdEpilogue

Startup == Reconcile \/ Restore

Next ==
    \/ \E config \in Configs : Takeover(config)
    \/ Stop
    \/ \E on \in BOOLEAN : SetTunDns(on)
    \/ CommandStep
    \/ WatchdogStep
    \/ ServeDns
    \/ \E c \in Cores : CoreExits(c)
    \/ Crash
    \/ Startup
    \/ SidecarInspect \/ SidecarReserve \/ SidecarExits

Spec == Init /\ [][Next]_vars

\* The runtime keeps polling the command's task, the watchdog's task and the
\* worker's thread.  select! picks at random among the branches that are ready,
\* so a shutdown that stays ready is not passed over for ever.
FairSpec ==
    /\ Spec
    /\ WF_vars(CommandStep)
    /\ WF_vars(WatchdogStep)
    /\ SF_vars(WdShutdown)
    /\ WF_vars(ServeDns)

-----------------------------------------------------------------------------
(* What the manager guarantees                                             *)

\* One core: however a takeover, a stop, an exit, a restart by the watchdog and
\* a crash of the daemon interleave, no second core is ever spawned next to one
\* the daemon is responsible for (start_core, stop_core_by, start_watchdog).
OneCore == Cardinality(Owned) <= 1

\* While the desktop's Sidecar runs, a living daemon has no core: the clones of
\* the execution reservation outlive every path by which a core survives its
\* command or its watchdog (CoreExecutionGuard, execution.rs).
SidecarExclusive == sidecar = "running" /\ boot # "down" => Owned = {}

\* The manager implements the reservation: it spawns at most one core under it
\* and releases it only when that core is gone (start_core, after_stop,
\* start_watchdog, execution.rs).
Reservation == INSTANCE ExecutionReservation WITH
    holder <- IF sidecar = "running" THEN "sidecar"
              ELSE IF ServiceReserves THEN "service" ELSE "nobody",
    cores <- IF boot = "down" THEN {} ELSE Owned

ImplementsReservation == Reservation!Spec

\* Nobody is orphaned: some task or failed_child still holds the handle of each
\* core, also of the one whose termination could not be confirmed.
EveryCoreTracked ==
    boot # "down" => \A c \in Owned : c \in {cmd.child, wd.child, failedChild}

\* A core can be left behind by a crash without a runtime record only between
\* its spawn and the write of the record, or when its start already failed.
CoreRecorded ==
    boot # "down" =>
        \A c \in Owned :
            \/ record = c
            \/ c = failedChild
            \/ c = cmd.child /\ cmd.pc \in {"awaitIpc", "record"}
            \/ c = wd.child /\ wd.pc \in {"awaitIpc", "record"}

\* When stop_core_by clears the pid and the record and gives the reservation
\* back, no core is left and no watchdog that could start another.
StopConfirmed == cmd.pc \in {"stopForget", "stopRelease"} => Owned = {} /\ ~WatchdogRuns

\* start_core's own stop of an existing instance has nothing to do: whoever
\* starts a core has stopped the previous one, joined its watchdog and given
\* the reservation back.
StartsClean ==
    cmd.pc \in {"prepare", "spawn", "awaitIpc", "record"} =>
        /\ runningPid = NoCore /\ failedChild = NoCore /\ ~execution
        /\ wd = NoWatchdog
        /\ Owned \subseteq {cmd.child}

\* With a resolver that obeys: after a stop the temporary resolver is gone once
\* the queue is served, although the watchdog's restart or a SetTunDns may have
\* queued an enable behind the stop's own release (RetirementGuard, tun_dns.rs).
StopReleasesDns ==
    /\ boot = "up" /\ cmd = Idle /\ dnsQueue = <<>>
    /\ wd = NoWatchdog /\ runningPid = NoCore
    => ~dns

\* Every command returns: a stop is not kept waiting by a watchdog that recovers
\* over and over, nor by the resolver's queue.
CommandReturns == cmd # Idle ~> cmd = Idle

\* RecoveringCore is a transient state: the core runs again, or Fatal is reported.
RecoverySettles == lifecycle = "RecoveringCore" ~> lifecycle # "RecoveringCore"

-----------------------------------------------------------------------------
(* What the documentation says and the code does not do                    *)

\* manager.rs:480 "Restore the system resolver while the TUN routes still exist. The
\* watchdog also releases it on an unexpected exit before any restart.": the watchdog
\* spawns the next core, and a stop kills a living one, only after the release.
RestartSpawns == wd.pc = "spawn" /\ wd'.pc = "awaitIpc"
StopKills == /\ wd.pc = "wait" /\ wd.shutdown /\ core[wd.child] = "owned"
             /\ wd'.pc = "epilogue" /\ ~wd'.exhausted
ResolverReleasedInTime == [][RestartSpawns \/ StopKills => ~dns]_vars

\* tun-service-native-validation.md:95: after the service was killed the old core
\* is reclaimed, and (line 90) there are never two cores.  No core is started
\* beside one that startup failed to terminate.
NoCoreBesideUnreconciled ==
    [][\A c \in Cores : core[c] = "unreconciled" /\ core'[c] = "unreconciled" => Owned' \subseteq Owned]_vars
=============================================================================
