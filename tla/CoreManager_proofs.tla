------------------------ MODULE CoreManager_proofs ------------------------
(***************************************************************************)
(* The core manager runs at most one core and never one beside the         *)
(* Sidecar, for any set of process identities and configurations and any   *)
(* restart budget.                                                         *)
(***************************************************************************)
EXTENDS CoreManager, FiniteSetTheorems, SequenceTheorems, TLAPS

\* States in which a start has cleared the way and not yet handed its core over.
Starting == {"prepare", "spawn", "awaitIpc", "record"}

\* The restart budget is checked before every attempt, so a watchdog that is not
\* about to check it has not exceeded it.
WithinBudget ==
    wd.pc \in {"wait", "exitDns", "forget", "backoff", "spawn", "awaitIpc", "record", "restartDns"}
        => wd.old + wd.recent <= MaxRestarts

\* Who holds a child handle, and when the manager's own memory is clear.
Control ==
    /\ cmd.child \in Cores <=> cmd.pc \in {"awaitIpc", "record"}
    /\ wd.child \in Cores <=>
          wd.pc \in {"wait", "exitDns", "forget", "awaitIpc", "record", "restartDns"}
    /\ cmd.pc \in Starting =>
          runningPid = NoCore /\ failedChild = NoCore /\ ~execution /\ wd = NoWatchdog
    /\ cmd.pc \in {"stopForget", "stopRelease"} => failedChild = NoCore /\ wd = NoWatchdog
    /\ cmd.pc = "stopRelease" => runningPid = NoCore
    /\ WatchdogRuns => failedChild = NoCore /\ (execution \/ cmd.pc = "publish")
    /\ failedChild # NoCore => execution \/ cmd.pc = "publish"
    /\ boot \in {"down", "restore"} =>
          cmd = Idle /\ runningPid = NoCore /\ failedChild = NoCore /\ ~execution /\ wd = NoWatchdog
    /\ sidecar = "running" => ~ServiceReserves

\* Every owned core has a handle; an exit the watchdog has seen is final; what a
\* dead daemon leaves behind as owned is what its record names.
Tracked ==
    /\ EveryCoreTracked
    /\ wd.pc \in {"exitDns", "forget"} => core[wd.child] = "dead"
    /\ boot = "down" => Owned \subseteq {record}

IInv == TypeOK /\ WithinBudget /\ Control /\ Tracked

-----------------------------------------------------------------------------
\* Queueing a request keeps the queue a sequence of requests.
LEMMA AskedType ==
    ASSUME dnsQueue \in Seq(Requests), NEW on \in BOOLEAN, NEW from \in {"cmd", "wd", "retirement"}
    PROVE  Asked(on, from) \in Seq(Requests)
  BY DEF Asked, Requests

\* A stop begins with an idle-shaped command that holds no child.
LEMMA BeginStopEffect ==
    ASSUME dnsQueue \in Seq(Requests),
           NEW origin \in {"none", "stop", "takeover", "restore"},
           NEW after \in {"done", "start", "fail"},
           NEW config \in Configs \cup {NoConfig},
           BeginStop(origin, after, config)
    PROVE  /\ cmd' \in Commands
           /\ cmd'.pc = "stopDns" /\ cmd'.child = NoCore
           /\ dnsQueue' \in Seq(Requests)
  BY AskedType DEF BeginStop, Idle, Commands, CmdStates

\* A rejected start leaves no start in progress and no child with the command.
LEMMA StartRejectedEffect ==
    ASSUME dnsQueue \in Seq(Requests), lifecycle \in LifecycleStates,
           NEW life \in LifecycleStates, StartRejected(life)
    PROVE  /\ cmd' \in Commands
           /\ cmd'.pc \in {"idle", "stopDns"} /\ cmd'.child = NoCore
           /\ cmd'.pc = "idle" => cmd' = Idle
           /\ dnsQueue' \in Seq(Requests)
           /\ lifecycle' \in LifecycleStates
  <1>1. CASE cmd.origin = "restore"
    BY <1>1 DEF StartRejected, Idle, Commands, CmdStates, LifecycleStates
  <1>2. CASE cmd.origin # "restore"
    <2>1. BeginStop("stop", "done", NoConfig) /\ lifecycle' = life
      BY <1>2 DEF StartRejected
    <2> QED BY <2>1, BeginStopEffect
  <1> QED BY <1>1, <1>2

\* So does a failed stop.
LEMMA StopFailedEffect ==
    ASSUME dnsQueue \in Seq(Requests), lifecycle \in LifecycleStates, StopFailed
    PROVE  /\ cmd' \in Commands
           /\ cmd'.pc \in {"idle", "stopDns"} /\ cmd'.child = NoCore
           /\ dnsQueue' \in Seq(Requests)
           /\ lifecycle' \in LifecycleStates
  <1>1. CASE cmd.after = "fail"
    BY <1>1, StartRejectedEffect DEF StopFailed
  <1>2. CASE cmd.after # "fail"
    BY <1>2 DEF StopFailed, Idle, Commands, CmdStates
  <1> QED BY <1>1, <1>2

\* A watchdog that ends has no child, whatever it was doing.
LEMMA WatchdogEndsEffect ==
    ASSUME wd \in Watchdogs, dnsQueue \in Seq(Requests),
           NEW pc \in {"doneOk", "doneErr"}, WatchdogEnds(pc)
    PROVE  /\ wd' \in Watchdogs
           /\ wd'.pc = pc /\ wd'.child = NoCore
           /\ dnsQueue' \in Seq(Requests)
  BY AskedType DEF WatchdogEnds, Watchdogs, WdStates

LEMMA WatchdogAbandonsEffect ==
    ASSUME wd \in Watchdogs, dnsQueue \in Seq(Requests), NEW c, WatchdogAbandons(c)
    PROVE  /\ wd' \in Watchdogs
           /\ wd'.pc = "doneErr" /\ wd'.child = NoCore
           /\ dnsQueue' \in Seq(Requests)
           /\ failedChild' = c /\ lifecycle' = "Fatal"
  BY WatchdogEndsEffect DEF WatchdogAbandons

\* A failed attempt is counted and goes back to the check of the budget.
LEMMA AttemptFailedEffect ==
    ASSUME wd \in Watchdogs, wd.old + wd.recent <= MaxRestarts, AttemptFailed
    PROVE  /\ wd' \in Watchdogs
           /\ wd'.pc = "budget" /\ wd'.child = NoCore
  <1>1. PICK kept \in 0 .. wd.old :
          wd' = [wd EXCEPT !.pc = "budget", !.child = NoCore, !.old = kept,
                           !.recent = @ + 1, !.retried = TRUE]
    BY DEF AttemptFailed
  <1>2. kept \in 0 .. MaxRestarts /\ wd.recent + 1 \in 0 .. MaxRestarts + 1
    BY CoresAssumption DEF Watchdogs
  <1>3. "budget" \in WdStates
    BY DEF WdStates
  <1> QED BY <1>1, <1>2, <1>3 DEF Watchdogs

\* A restarted core that is retired for good ends the recovery one way or the other.
LEMMA RestartRetiredEffect ==
    ASSUME wd \in Watchdogs, wd.child \in Cores, dnsQueue \in Seq(Requests),
           lifecycle \in LifecycleStates, core \in [Cores -> CoreStates], RestartRetired
    PROVE  /\ wd' \in Watchdogs /\ wd'.child = NoCore
           /\ core' \in [Cores -> CoreStates]
           /\ dnsQueue' \in Seq(Requests)
           /\ lifecycle' \in LifecycleStates
           /\ \/ /\ wd'.pc = "epilogue"
                 /\ core' = Gone(wd.child)
                 /\ UNCHANGED <<runningPid, failedChild>>
              \/ /\ wd'.pc = "doneErr"
                 /\ core' = core
                 /\ runningPid' = wd.child /\ failedChild' = wd.child
  <1>1. PICK confirmed \in KillOutcomes(wd.child) :
          /\ core' = AfterKill(wd.child, confirmed)
          /\ IF confirmed
             THEN /\ wd' = [wd EXCEPT !.pc = "epilogue", !.child = NoCore, !.exhausted = TRUE]
                  /\ UNCHANGED <<runningPid, failedChild, lifecycle, dnsQueue>>
             ELSE /\ runningPid' = wd.child
                  /\ WatchdogAbandons(wd.child)
    BY DEF RestartRetired
  <1>2. CASE confirmed
    <2>1. core' = Gone(wd.child) /\ UNCHANGED <<runningPid, failedChild, lifecycle, dnsQueue>>
      BY <1>1, <1>2 DEF AfterKill
    <2>2. wd' = [wd EXCEPT !.pc = "epilogue", !.child = NoCore, !.exhausted = TRUE]
      BY <1>1, <1>2
    <2>3. wd' \in Watchdogs /\ wd'.child = NoCore /\ wd'.pc = "epilogue"
      BY <2>2 DEF Watchdogs, WdStates
    <2>4. core' \in [Cores -> CoreStates]
      BY <2>1 DEF Gone, CoreStates
    <2> QED BY <2>1, <2>3, <2>4
  <1>3. CASE ~confirmed
    BY <1>1, <1>3, WatchdogAbandonsEffect DEF AfterKill, LifecycleStates
  <1> QED BY <1>2, <1>3

\* Moving to another step changes nothing else of the command, or of the watchdog.
LEMMA CommandMoves ==
    ASSUME cmd \in Commands, NEW pc \in CmdStates, cmd' = [cmd EXCEPT !.pc = pc]
    PROVE  cmd' \in Commands /\ cmd'.pc = pc /\ cmd'.child = cmd.child
  BY DEF Commands

LEMMA WatchdogMoves ==
    ASSUME wd \in Watchdogs, NEW pc \in WdStates, wd' = [wd EXCEPT !.pc = pc]
    PROVE  /\ wd' \in Watchdogs /\ wd'.pc = pc /\ wd'.child = wd.child
           /\ wd'.old = wd.old /\ wd'.recent = wd.recent
  BY DEF Watchdogs

\* A start given up after its spawn either killed the core or keeps everything
\* needed to retry.
LEMMA StartAbandonedEffect ==
    ASSUME TypeOK, NEW c \in Cores, NEW confirmed \in BOOLEAN, StartAbandoned(c, confirmed)
    PROVE  /\ cmd' \in Commands
           /\ cmd'.pc \in {"idle", "stopDns"} /\ cmd'.child = NoCore
           /\ dnsQueue' \in Seq(Requests)
           /\ lifecycle' \in LifecycleStates
           /\ core' \in [Cores -> CoreStates]
           /\ execution' \in BOOLEAN
           /\ runningPid' \in Cores \cup {NoCore} /\ runningConfig' \in Configs \cup {NoConfig}
           /\ failedChild' \in Cores \cup {NoCore}
           /\ \/ core' = Gone(c) /\ UNCHANGED memory
              \/ core' = core /\ failedChild' = c /\ execution'
  <1>1. CASE confirmed
    <2>1. core' = Gone(c) /\ StartRejected(lifecycle) /\ UNCHANGED memory
      BY <1>1 DEF StartAbandoned, AfterKill
    <2>2. core' \in [Cores -> CoreStates]
      BY <2>1 DEF Gone, TypeOK, CoreStates
    <2> QED BY <2>1, <2>2, StartRejectedEffect DEF TypeOK, memory
  <1>2. CASE ~confirmed
    <2>1. /\ core' = core /\ runningPid' = c /\ runningConfig' = cmd.config
          /\ failedChild' = c /\ execution' = TRUE /\ StartRejected("Fatal")
      BY <1>2 DEF StartAbandoned, AfterKill
    <2>2. "Fatal" \in LifecycleStates /\ cmd.config \in Configs \cup {NoConfig}
      BY DEF TypeOK, Commands, LifecycleStates
    <2> QED BY <2>1, <2>2, StartRejectedEffect DEF TypeOK
  <1> QED BY <1>1, <1>2

-----------------------------------------------------------------------------
(* Commands *)

\* A stop that begins while nothing else holds the manager.
LEMMA BeginStopStep ==
    ASSUME IInv, cmd = Idle, Serving,
           NEW origin \in {"none", "stop", "takeover", "restore"},
           NEW after \in {"done", "start", "fail"},
           NEW config \in Configs \cup {NoConfig},
           BeginStop(origin, after, config),
           UNCHANGED <<core, record, memory, lifecycle, boot, wd, dns, dnsReply, sidecar>>
    PROVE  IInv'
  <1>1. /\ cmd' \in Commands
        /\ cmd'.pc = "stopDns" /\ cmd'.child = NoCore
        /\ dnsQueue' \in Seq(Requests)
    BY BeginStopEffect DEF IInv, TypeOK
  <1>2. TypeOK'
    BY <1>1 DEF IInv, TypeOK, memory
  <1>3. WithinBudget'
    BY DEF IInv, WithinBudget
  <1>4. Control'
    BY <1>1, CoresAssumption DEF IInv, Control, Starting, ServiceReserves, WatchdogRuns, Idle, Serving, memory
  <1>5. Tracked'
    BY <1>1 DEF IInv, Tracked, EveryCoreTracked, Owned, Idle, memory
  <1> QED BY <1>2, <1>3, <1>4, <1>5 DEF IInv

LEMMA TakeoverStep ==
    ASSUME IInv, NEW config \in Configs, Takeover(config)
    PROVE  IInv'
  BY BeginStopStep DEF Takeover

LEMMA StopStep ==
    ASSUME IInv, Stop
    PROVE  IInv'
  BY BeginStopStep DEF Stop

LEMMA SetTunDnsStep ==
    ASSUME IInv, NEW on \in BOOLEAN, SetTunDns(on)
    PROVE  IInv'
  <1>1. /\ cmd' \in Commands
        /\ cmd'.pc = "setDns" /\ cmd'.child = NoCore
    BY DEF SetTunDns, Idle, Commands, CmdStates
  <1>2. dnsQueue' \in Seq(Requests)
    BY AskedType DEF SetTunDns, IInv, TypeOK
  <1>3. TypeOK'
    BY <1>1, <1>2 DEF SetTunDns, IInv, TypeOK, memory
  <1>4. WithinBudget'
    BY DEF SetTunDns, IInv, WithinBudget
  <1>5. Control'
    BY <1>1, CoresAssumption
    DEF SetTunDns, IInv, Control, Starting, ServiceReserves, WatchdogRuns, Idle, Serving, memory
  <1>6. Tracked'
    BY <1>1 DEF SetTunDns, IInv, Tracked, EveryCoreTracked, Owned, Idle, memory
  <1> QED BY <1>3, <1>4, <1>5, <1>6 DEF IInv

\* A command that ends, or that starts over with a stop, while it holds no child
\* and leaves the rest of the manager alone.
LEMMA CommandLeaves ==
    ASSUME IInv, cmd' \in Commands, cmd'.child = NoCore,
           cmd.child \notin Cores, boot \notin {"down", "restore"},
           cmd'.pc \in {"idle", "stopDns"} ,
           cmd.pc # "publish",
           dnsQueue' \in Seq(Requests), lifecycle' \in LifecycleStates,
           dnsReply' \in [{"cmd", "wd"} -> {"none", "ok", "err"}],
           UNCHANGED <<core, record, memory, boot, wd, dns, sidecar>>
    PROVE  IInv'
  <1>1. TypeOK'
    BY DEF IInv, TypeOK, memory
  <1>2. WithinBudget'
    BY DEF IInv, WithinBudget
  <1>3. Control'
    BY CoresAssumption DEF IInv, Control, Starting, ServiceReserves, WatchdogRuns, memory
  <1>4. Tracked'
    BY DEF IInv, Tracked, EveryCoreTracked, Owned, memory
  <1> QED BY <1>1, <1>2, <1>3, <1>4 DEF IInv

\* An answer that is consumed leaves the table of answers well-typed.
LEMMA ConsumedType ==
    ASSUME TypeOK, NEW task \in {"cmd", "wd"}, Consumed(task)
    PROVE  dnsReply' \in [{"cmd", "wd"} -> {"none", "ok", "err"}]
  BY DEF TypeOK, Consumed

LEMMA IdleType == Idle \in Commands /\ Idle.pc = "idle" /\ Idle.child = NoCore
  BY DEF Idle, Commands, CmdStates

LEMMA TunDnsSetStep ==
    ASSUME IInv, TunDnsSet
    PROVE  IInv'
  <1>1. dnsReply' \in [{"cmd", "wd"} -> {"none", "ok", "err"}]
    BY ConsumedType DEF IInv, TunDnsSet
  <1>2. cmd.child \notin Cores /\ boot \notin {"down", "restore"}
    BY DEF TunDnsSet, IInv, Control, Idle
  <1> QED BY <1>1, <1>2, IdleType, CommandLeaves DEF TunDnsSet, IInv, TypeOK

\* A start may go ahead only without a Sidecar.
LEMMA PrepareStep ==
    ASSUME IInv, Prepare
    PROVE  IInv'
  <1>1. /\ cmd.child \notin Cores /\ boot \notin {"down", "restore"}
        /\ "Starting" \in LifecycleStates
    BY DEF Prepare, IInv, Control, Idle, LifecycleStates
  <1>2. CASE cmd' = Idle /\ UNCHANGED <<lifecycle, dnsQueue>>
    BY <1>1, <1>2, IdleType, CommandLeaves DEF Prepare, IInv, TypeOK
  <1>3. CASE StartRejected(lifecycle) \/ StartRejected("Starting")
    <2>1. /\ cmd' \in Commands /\ cmd'.child = NoCore /\ cmd'.pc \in {"idle", "stopDns"}
          /\ dnsQueue' \in Seq(Requests) /\ lifecycle' \in LifecycleStates
      BY <1>1, <1>3, StartRejectedEffect DEF IInv, TypeOK
    <2> QED BY <1>1, <2>1, CommandLeaves DEF Prepare, IInv, TypeOK
  <1>4. CASE /\ sidecar # "running" /\ boot # "blocked"
             /\ cmd' = [cmd EXCEPT !.pc = "spawn"]
             /\ lifecycle' = "Starting"
             /\ UNCHANGED dnsQueue
    <2>1. cmd' \in Commands /\ cmd'.pc = "spawn" /\ cmd'.child = cmd.child
      BY <1>4, CommandMoves DEF IInv, TypeOK, CmdStates
    <2>2. TypeOK'
      BY <1>1, <1>4, <2>1 DEF Prepare, IInv, TypeOK, memory
    <2>3. WithinBudget'
      BY DEF Prepare, IInv, WithinBudget
    <2>4. Control'
      BY <1>1, <1>4, <2>1 DEF Prepare, IInv, Control, Starting, ServiceReserves, WatchdogRuns, memory
    <2>5. Tracked'
      BY <1>4, <2>1 DEF Prepare, IInv, Tracked, EveryCoreTracked, Owned, memory
    <2> QED BY <2>2, <2>3, <2>4, <2>5 DEF IInv
  <1> QED BY <1>2, <1>3, <1>4 DEF Prepare

LEMMA StartSpawnStep ==
    ASSUME IInv, StartSpawn
    PROVE  IInv'
  <1>1. /\ cmd.pc = "spawn" /\ cmd.child \notin Cores /\ wd.child \notin Cores
        /\ boot \notin {"down", "restore"} /\ wd = NoWatchdog /\ failedChild = NoCore
    <2>1. cmd.pc = "spawn" /\ wd = NoWatchdog /\ failedChild = NoCore
      BY DEF StartSpawn, IInv, Control, Starting
    <2>2. cmd.child \notin Cores /\ boot \notin {"down", "restore"}
      BY <2>1 DEF IInv, Control, Idle
    <2>3. NoWatchdog.child = NoCore
      BY DEF NoWatchdog
    <2> QED BY <2>1, <2>2, <2>3, CoresAssumption
  <1>2. CASE \E c \in Cores : /\ Fresh(c)
                              /\ core' = Spawned(c)
                              /\ cmd' = [cmd EXCEPT !.pc = "awaitIpc", !.child = c]
                              /\ UNCHANGED <<lifecycle, dnsQueue>>
    <2>1. PICK c \in Cores : /\ core' = Spawned(c)
                             /\ cmd' = [cmd EXCEPT !.pc = "awaitIpc", !.child = c]
                             /\ UNCHANGED <<lifecycle, dnsQueue>>
      BY <1>2
    <2>2. cmd' \in Commands /\ cmd'.pc = "awaitIpc" /\ cmd'.child = c
      BY <2>1 DEF IInv, TypeOK, Commands, CmdStates
    <2>3. /\ core' \in [Cores -> CoreStates]
          /\ \A d \in Cores : d # c => core'[d] = core[d]
      BY <2>1 DEF IInv, TypeOK, Spawned, CoreStates
    <2>4. TypeOK'
      BY <2>1, <2>2, <2>3 DEF StartSpawn, IInv, TypeOK, memory
    <2>5. WithinBudget'
      BY DEF StartSpawn, IInv, WithinBudget
    <2>6. Control'
      BY <1>1, <2>2 DEF StartSpawn, IInv, Control, Starting, ServiceReserves, WatchdogRuns, memory
    <2>7. Tracked'
      BY <1>1, <2>2, <2>3, CoresAssumption
      DEF StartSpawn, IInv, Tracked, EveryCoreTracked, Owned, NoWatchdog, memory
    <2> QED BY <2>4, <2>5, <2>6, <2>7 DEF IInv
  <1>3. CASE StartRejected(lifecycle) /\ UNCHANGED core
    <2>1. /\ cmd' \in Commands /\ cmd'.child = NoCore /\ cmd'.pc \in {"idle", "stopDns"}
          /\ dnsQueue' \in Seq(Requests) /\ lifecycle' \in LifecycleStates
      BY <1>3, StartRejectedEffect DEF IInv, TypeOK
    <2> QED BY <1>1, <1>3, <2>1, CommandLeaves DEF StartSpawn, IInv, TypeOK
  <1>4. CASE cmd' = Idle /\ lifecycle' = "Running" /\ UNCHANGED <<core, dnsQueue>>
    BY <1>1, <1>4, IdleType, CommandLeaves DEF StartSpawn, IInv, TypeOK, LifecycleStates
  <1> QED BY <1>2, <1>3, <1>4 DEF StartSpawn

\* A start that is given up takes its child, dead or to be retried, with it.
LEMMA AbandonedStart ==
    ASSUME IInv, cmd.pc \in {"awaitIpc", "record"},
           NEW confirmed \in KillOutcomes(cmd.child), StartAbandoned(cmd.child, confirmed),
           record' \in Cores \cup {NoCore},
           UNCHANGED <<boot, wd, dns, dnsReply, sidecar>>
    PROVE  IInv'
  <1>1. /\ cmd.child \in Cores /\ wd = NoWatchdog /\ boot \notin {"down", "restore"}
        /\ confirmed \in BOOLEAN
    <2>1. cmd.child \in Cores /\ wd = NoWatchdog /\ boot \notin {"down", "restore"}
      BY DEF IInv, Control, Starting, Idle
    <2>2. confirmed \in BOOLEAN
      BY Zenon DEF KillOutcomes
    <2> QED BY <2>1, <2>2
  <1>2. /\ cmd' \in Commands
        /\ cmd'.pc \in {"idle", "stopDns"} /\ cmd'.child = NoCore
        /\ dnsQueue' \in Seq(Requests)
        /\ lifecycle' \in LifecycleStates
        /\ core' \in [Cores -> CoreStates]
        /\ execution' \in BOOLEAN
        /\ runningPid' \in Cores \cup {NoCore} /\ runningConfig' \in Configs \cup {NoConfig}
        /\ failedChild' \in Cores \cup {NoCore}
        /\ \/ core' = Gone(cmd.child) /\ UNCHANGED memory
           \/ core' = core /\ failedChild' = cmd.child /\ execution'
    BY <1>1, StartAbandonedEffect DEF IInv
  <1>3. TypeOK'
    BY <1>2 DEF IInv, TypeOK
  <1>4. WithinBudget'
    BY DEF IInv, WithinBudget
  <1>5. Control'
    <2>1. failedChild' # NoCore => execution'
      BY <1>2, <1>1 DEF IInv, Control, Starting, memory
    <2>2. sidecar # "running"
      BY DEF IInv, Control, ServiceReserves
    <2> QED BY <1>1, <1>2, <2>1, <2>2, CoresAssumption
        DEF IInv, Control, Starting, ServiceReserves, WatchdogRuns, NoWatchdog
  <1>6. Tracked'
    <2>1. \A d \in Cores : core'[d] = "owned" => core[d] = "owned" /\ (d # cmd.child \/ d = failedChild')
      BY <1>1, <1>2 DEF Gone, IInv, TypeOK
    <2> QED BY <1>1, <2>1, CoresAssumption
        DEF IInv, Control, Starting, Tracked, EveryCoreTracked, Owned, NoWatchdog
  <1> QED BY <1>3, <1>4, <1>5, <1>6 DEF IInv

LEMMA StartAwaitIpcStep ==
    ASSUME IInv, StartAwaitIpc
    PROVE  IInv'
  <1>1. cmd.pc = "awaitIpc" /\ cmd.child \in Cores
    BY DEF StartAwaitIpc, IInv, Control
  <1>2. CASE /\ cmd' = [cmd EXCEPT !.pc = "record"]
             /\ UNCHANGED <<core, record, memory, lifecycle, dnsQueue>>
    <2>1. cmd' \in Commands /\ cmd'.pc = "record" /\ cmd'.child = cmd.child
      BY <1>2, CommandMoves DEF IInv, TypeOK, CmdStates
    <2>2. TypeOK'
      BY <1>2, <2>1 DEF StartAwaitIpc, IInv, TypeOK, memory
    <2>3. WithinBudget'
      BY DEF StartAwaitIpc, IInv, WithinBudget
    <2>4. Control'
      BY <1>1, <1>2, <2>1 DEF StartAwaitIpc, IInv, Control, Starting, ServiceReserves, WatchdogRuns, Idle, memory
    <2>5. Tracked'
      BY <1>2, <2>1 DEF StartAwaitIpc, IInv, Tracked, EveryCoreTracked, Owned, memory
    <2> QED BY <2>2, <2>3, <2>4, <2>5 DEF IInv
  <1>3. CASE \E confirmed \in KillOutcomes(cmd.child) :
               /\ StartAbandoned(cmd.child, confirmed)
               /\ IF confirmed THEN UNCHANGED record
                  ELSE RecordWritten(cmd.child) \/ RecordNotWritten(cmd.child)
    <2>1. PICK confirmed \in KillOutcomes(cmd.child) :
               /\ StartAbandoned(cmd.child, confirmed)
               /\ IF confirmed THEN UNCHANGED record
                  ELSE RecordWritten(cmd.child) \/ RecordNotWritten(cmd.child)
      BY <1>3
    <2>2. record' \in Cores \cup {NoCore}
      BY <1>1, <2>1 DEF RecordWritten, RecordNotWritten, IInv, TypeOK
    <2> QED BY <1>1, <2>1, <2>2, AbandonedStart DEF StartAwaitIpc
  <1> QED BY <1>2, <1>3 DEF StartAwaitIpc

\* The child passes from the command to the watchdog.
LEMMA StartRecordStep ==
    ASSUME IInv, StartRecord
    PROVE  IInv'
  <1>1. /\ cmd.pc = "record" /\ cmd.child \in Cores /\ wd = NoWatchdog
        /\ failedChild = NoCore /\ boot \notin {"down", "restore"} /\ sidecar # "running"
    BY DEF StartRecord, IInv, Control, Starting, Idle, ServiceReserves
  <1>2. CASE /\ RecordWritten(cmd.child)
             /\ runningPid' = cmd.child
             /\ runningConfig' = cmd.config
             /\ wd' = [NoWatchdog EXCEPT !.pc = "wait", !.child = cmd.child, !.config = cmd.config]
             /\ cmd' = [cmd EXCEPT !.pc = "publish", !.child = NoCore]
             /\ UNCHANGED <<core, execution, failedChild, lifecycle, dnsQueue>>
    <2>1. cmd' \in Commands /\ cmd'.pc = "publish" /\ cmd'.child = NoCore
          /\ cmd.config \in Configs \cup {NoConfig}
      BY <1>2 DEF IInv, TypeOK, Commands, CmdStates
    <2>2. /\ wd' = [pc |-> "wait", child |-> cmd.child, config |-> cmd.config,
                    shutdown |-> FALSE, old |-> 0, recent |-> 0,
                    retried |-> FALSE, exhausted |-> FALSE]
      BY <1>2 DEF NoWatchdog
    <2>3. wd' \in Watchdogs
      <3>1. 0 \in 0 .. MaxRestarts /\ 0 \in 0 .. MaxRestarts + 1
        BY CoresAssumption
      <3> QED BY <1>1, <2>1, <2>2, <3>1 DEF Watchdogs, WdStates
    <2>4. TypeOK'
      BY <1>1, <1>2, <2>1, <2>3 DEF StartRecord, IInv, TypeOK, RecordWritten
    <2>5. WithinBudget'
      BY <2>2, CoresAssumption DEF WithinBudget
    <2>6. Control'
      BY <1>1, <1>2, <2>1, <2>2, CoresAssumption
      DEF StartRecord, IInv, Control, Starting, ServiceReserves, WatchdogRuns
    <2>7. Tracked'
      BY <1>1, <1>2, <2>1, <2>2
      DEF StartRecord, IInv, Tracked, EveryCoreTracked, Owned, NoWatchdog
    <2> QED BY <2>4, <2>5, <2>6, <2>7 DEF IInv
  <1>3. CASE /\ RecordNotWritten(cmd.child)
             /\ \E confirmed \in KillOutcomes(cmd.child) : StartAbandoned(cmd.child, confirmed)
             /\ UNCHANGED wd
    <2>1. record' \in Cores \cup {NoCore}
      BY <1>1, <1>3 DEF RecordNotWritten, IInv, TypeOK
    <2> QED BY <1>1, <1>3, <2>1, AbandonedStart DEF StartRecord
  <1> QED BY <1>2, <1>3 DEF StartRecord

\* From here on the manager itself holds the reservation.
LEMMA StartPublishStep ==
    ASSUME IInv, StartPublish
    PROVE  IInv'
  <1>1. cmd.pc = "publish" /\ cmd.child \notin Cores /\ boot \notin {"down", "restore"} /\ sidecar # "running"
    BY DEF StartPublish, IInv, Control, Idle, ServiceReserves
  <1>2. /\ cmd' \in Commands /\ cmd'.pc \in {"startDns", "stopDns"}
        /\ cmd'.child = cmd.child \/ cmd'.child = NoCore
        /\ dnsQueue' \in Seq(Requests)
    <2>1. CASE cmd' = [cmd EXCEPT !.pc = "startDns"] /\ dnsQueue' = Asked(WantsDns(cmd.config), "cmd")
      <3>1. WantsDns(cmd.config) \in BOOLEAN
        BY DEF WantsDns
      <3> QED BY <2>1, <3>1, CommandMoves, AskedType DEF IInv, TypeOK, CmdStates
    <2>2. CASE BeginStop(cmd.origin, "fail", NoConfig)
      <3>1. cmd.origin \in {"none", "stop", "takeover", "restore"}
        BY DEF IInv, TypeOK, Commands
      <3> QED BY <2>2, <3>1, BeginStopEffect DEF IInv, TypeOK
    <2> QED BY <2>1, <2>2 DEF StartPublish
  <1>3. TypeOK'
    BY <1>2 DEF StartPublish, IInv, TypeOK, LifecycleStates
  <1>4. WithinBudget'
    BY DEF StartPublish, IInv, WithinBudget
  <1>5. Control'
    BY <1>1, <1>2, CoresAssumption
    DEF StartPublish, IInv, Control, Starting, ServiceReserves, WatchdogRuns
  <1>6. Tracked'
    BY <1>1, <1>2 DEF StartPublish, IInv, Tracked, EveryCoreTracked, Owned
  <1> QED BY <1>3, <1>4, <1>5, <1>6 DEF IInv

LEMMA StartDnsStep ==
    ASSUME IInv, StartDns
    PROVE  IInv'
  <1>1. /\ cmd.pc = "startDns" /\ cmd.child \notin Cores /\ boot \notin {"down", "restore"}
        /\ cmd.origin \in {"none", "stop", "takeover", "restore"}
    BY DEF StartDns, IInv, TypeOK, Commands, Control, Idle
  <1>2. dnsReply' \in [{"cmd", "wd"} -> {"none", "ok", "err"}]
    BY ConsumedType DEF IInv, StartDns
  <1>3. CASE cmd' = Idle /\ UNCHANGED dnsQueue
    BY <1>1, <1>2, <1>3, IdleType, CommandLeaves DEF StartDns, IInv, TypeOK
  <1>4. CASE BeginStop(cmd.origin, "fail", NoConfig)
    BY <1>1, <1>2, <1>4, BeginStopEffect, CommandLeaves DEF StartDns, IInv, TypeOK
  <1> QED BY <1>3, <1>4 DEF StartDns

LEMMA StopDnsStep ==
    ASSUME IInv, StopDns
    PROVE  IInv'
  <1>1. cmd.pc = "stopDns" /\ cmd.child \notin Cores /\ boot \notin {"down", "restore"}
    BY DEF StopDns, IInv, Control, Idle
  <1>2. dnsReply' \in [{"cmd", "wd"} -> {"none", "ok", "err"}]
    BY ConsumedType DEF IInv, StopDns
  <1>3. CASE StopFailed /\ UNCHANGED wd
    <2>1. /\ cmd' \in Commands /\ cmd'.child = NoCore /\ cmd'.pc \in {"idle", "stopDns"}
          /\ dnsQueue' \in Seq(Requests) /\ lifecycle' \in LifecycleStates
      BY <1>3, StopFailedEffect DEF IInv, TypeOK
    <2> QED BY <1>1, <1>2, <1>3, <2>1, CommandLeaves DEF StopDns
  <1>4. CASE /\ wd' = Notified
             /\ cmd' = [cmd EXCEPT !.pc = "stopJoin"]
             /\ UNCHANGED <<lifecycle, dnsQueue>>
    <2>1. cmd' \in Commands /\ cmd'.pc = "stopJoin" /\ cmd'.child = cmd.child
      BY <1>4, CommandMoves DEF IInv, TypeOK, CmdStates
    <2>2. wd' = [wd EXCEPT !.shutdown = (wd.pc # "none")] /\ wd \in Watchdogs
      BY <1>4 DEF Notified, IInv, TypeOK
    <2>3. /\ wd' \in Watchdogs
          /\ wd'.pc = wd.pc /\ wd'.child = wd.child /\ wd'.old = wd.old /\ wd'.recent = wd.recent
      BY <2>2 DEF Watchdogs
    <2>5. TypeOK'
      BY <1>2, <1>4, <2>1, <2>3 DEF StopDns, IInv, TypeOK, memory
    <2>6. WithinBudget'
      BY <2>3 DEF IInv, WithinBudget
    <2>7. Control'
      BY <1>1, <2>1, <2>3 DEF StopDns, IInv, Control, Starting, ServiceReserves, WatchdogRuns, memory
    <2>8. Tracked'
      BY <2>1, <2>3, <1>1 DEF StopDns, IInv, Tracked, EveryCoreTracked, Owned, memory
    <2> QED BY <2>5, <2>6, <2>7, <2>8 DEF IInv
  <1> QED BY <1>3, <1>4 DEF StopDns

\* The watchdog is gone; a child it left behind is gone too, or is kept.
LEMMA StopJoinStep ==
    ASSUME IInv, StopJoin
    PROVE  IInv'
  <1>1. /\ cmd.pc = "stopJoin" /\ cmd.child \notin Cores /\ boot \notin {"down", "restore"}
        /\ ~WatchdogRuns /\ wd.child \notin Cores
    BY DEF StopJoin, IInv, Control, Idle, WatchdogRuns
  <1>2. /\ wd' = NoWatchdog /\ wd'.pc = "none" /\ wd'.child = NoCore
        /\ wd' \in Watchdogs
    <2>1. wd' = NoWatchdog /\ NoWatchdog.pc = "none" /\ NoWatchdog.child = NoCore
      BY DEF StopJoin, NoWatchdog
    <2>2. 0 \in 0 .. MaxRestarts /\ 0 \in 0 .. MaxRestarts + 1
      BY CoresAssumption
    <2>3. NoWatchdog \in Watchdogs
      BY <2>2 DEF NoWatchdog, Watchdogs, WdStates
    <2> QED BY <2>1, <2>3
  <1>3. WithinBudget'
    BY <1>2 DEF WithinBudget
  <1>4. CASE /\ failedChild = NoCore
             /\ cmd' = [cmd EXCEPT !.pc = "stopForget"]
             /\ UNCHANGED <<core, failedChild, lifecycle, dnsQueue>>
    <2>1. cmd' \in Commands /\ cmd'.pc = "stopForget" /\ cmd'.child = cmd.child
      BY <1>4, CommandMoves DEF IInv, TypeOK, CmdStates
    <2>2. TypeOK'
      BY <1>2, <1>4, <2>1 DEF StopJoin, IInv, TypeOK
    <2>3. Control'
      BY <1>1, <1>2, <1>4, <2>1, CoresAssumption
      DEF StopJoin, IInv, Control, Starting, ServiceReserves, WatchdogRuns
    <2>4. Tracked'
      BY <1>1, <1>2, <1>4, <2>1 DEF StopJoin, IInv, Tracked, EveryCoreTracked, Owned
    <2> QED BY <1>3, <2>2, <2>3, <2>4 DEF IInv
  <1>5. CASE /\ failedChild # NoCore
             /\ \E confirmed \in KillOutcomes(failedChild) :
                  /\ core' = AfterKill(failedChild, confirmed)
                  /\ IF confirmed
                     THEN /\ failedChild' = NoCore
                          /\ cmd' = [cmd EXCEPT !.pc = "stopForget"]
                          /\ UNCHANGED <<lifecycle, dnsQueue>>
                     ELSE StopFailed /\ UNCHANGED failedChild
    <2>1. failedChild \in Cores
      BY <1>5 DEF IInv, TypeOK
    <2>2. CASE /\ core' = Gone(failedChild) /\ failedChild' = NoCore
               /\ cmd' = [cmd EXCEPT !.pc = "stopForget"]
               /\ UNCHANGED <<lifecycle, dnsQueue>>
      <3>1. cmd' \in Commands /\ cmd'.pc = "stopForget" /\ cmd'.child = cmd.child
        BY <2>2, CommandMoves DEF IInv, TypeOK, CmdStates
      <3>2. /\ core' \in [Cores -> CoreStates]
            /\ \A c \in Cores : core'[c] = "owned" => core[c] = "owned" /\ c # failedChild
        BY <2>1, <2>2 DEF Gone, IInv, TypeOK, CoreStates
      <3>3. TypeOK'
        BY <1>2, <2>2, <3>1, <3>2 DEF StopJoin, IInv, TypeOK
      <3>4. Control'
        BY <1>1, <1>2, <2>2, <3>1, CoresAssumption
        DEF StopJoin, IInv, Control, Starting, ServiceReserves, WatchdogRuns
      <3>5. Tracked'
        BY <1>1, <1>2, <3>1, <3>2 DEF StopJoin, IInv, Tracked, EveryCoreTracked, Owned
      <3> QED BY <1>3, <3>3, <3>4, <3>5 DEF IInv
    <2>3. CASE core' = core /\ StopFailed /\ UNCHANGED failedChild
      <3>1. /\ cmd' \in Commands /\ cmd'.child = NoCore /\ cmd'.pc \in {"idle", "stopDns"}
            /\ dnsQueue' \in Seq(Requests) /\ lifecycle' \in LifecycleStates
        BY <2>3, StopFailedEffect DEF IInv, TypeOK
      <3>2. TypeOK'
        BY <1>2, <2>3, <3>1 DEF StopJoin, IInv, TypeOK
      <3>3. Control'
        BY <1>1, <1>2, <2>3, <3>1, CoresAssumption
        DEF StopJoin, IInv, Control, Starting, ServiceReserves, WatchdogRuns
      <3>4. Tracked'
        BY <1>1, <1>2, <2>3, <3>1 DEF StopJoin, IInv, Tracked, EveryCoreTracked, Owned
      <3> QED BY <1>3, <3>2, <3>3, <3>4 DEF IInv
    <2>4. PICK confirmed \in KillOutcomes(failedChild) :
            /\ core' = AfterKill(failedChild, confirmed)
            /\ IF confirmed
               THEN /\ failedChild' = NoCore
                    /\ cmd' = [cmd EXCEPT !.pc = "stopForget"]
                    /\ UNCHANGED <<lifecycle, dnsQueue>>
               ELSE StopFailed /\ UNCHANGED failedChild
      BY <1>5
    <2>5. CASE confirmed
      BY <2>2, <2>4, <2>5 DEF AfterKill
    <2>6. CASE ~confirmed
      BY <2>3, <2>4, <2>6 DEF AfterKill
    <2> QED BY <2>5, <2>6
  <1> QED BY <1>4, <1>5 DEF StopJoin

LEMMA StopForgetStep ==
    ASSUME IInv, StopForget
    PROVE  IInv'
  <1>1. cmd' \in Commands /\ cmd'.pc = "stopRelease" /\ cmd'.child = cmd.child
    BY CommandMoves DEF StopForget, IInv, TypeOK, CmdStates
  <1>2. TypeOK'
    BY <1>1 DEF StopForget, RecordRemoved, IInv, TypeOK, dnsVars
  <1>3. WithinBudget'
    BY DEF StopForget, IInv, WithinBudget
  <1>4. Control'
    BY <1>1 DEF StopForget, IInv, Control, Starting, ServiceReserves, WatchdogRuns, Idle
  <1>5. Tracked'
    BY <1>1 DEF StopForget, IInv, Control, Idle, Tracked, EveryCoreTracked, Owned
  <1> QED BY <1>2, <1>3, <1>4, <1>5 DEF IInv

\* What the next start relies on.
LEMMA StopReleaseStep ==
    ASSUME IInv, StopRelease
    PROVE  IInv'
  <1>1. /\ cmd.pc = "stopRelease" /\ cmd.child \notin Cores /\ boot \notin {"down", "restore"}
        /\ wd = NoWatchdog /\ failedChild = NoCore /\ runningPid = NoCore
        /\ "Running" \in LifecycleStates
    BY DEF StopRelease, IInv, Control, Idle, LifecycleStates
  <1>2. /\ cmd' \in Commands /\ cmd'.pc \in {"idle", "prepare", "stopDns"}
        /\ cmd'.child \notin Cores
        /\ dnsQueue' \in Seq(Requests) /\ lifecycle' \in LifecycleStates
    <2>1. CASE cmd' = Idle /\ lifecycle' \in {"Running", "Fatal"} /\ UNCHANGED dnsQueue
      BY <1>1, <2>1, IdleType, CoresAssumption DEF IInv, TypeOK, LifecycleStates
    <2>2. CASE cmd' = [cmd EXCEPT !.pc = "prepare"] /\ lifecycle' = "Running" /\ UNCHANGED dnsQueue
      BY <1>1, <2>2, CommandMoves DEF IInv, TypeOK, CmdStates
    <2>3. CASE StartRejected("Running")
      BY <1>1, <2>3, StartRejectedEffect, CoresAssumption DEF IInv, TypeOK
    <2> QED BY <2>1, <2>2, <2>3 DEF StopRelease
  <1>3. execution' = FALSE
    BY DEF StopRelease
  <1>4. TypeOK'
    <2>1. execution' \in BOOLEAN
      BY <1>3
    <2> QED BY <1>2, <2>1 DEF StopRelease, IInv, TypeOK
  <1>5. WithinBudget'
    BY DEF StopRelease, IInv, WithinBudget
  <1>6. Control'
    <2>1. ~execution'
      BY <1>3
    <2>2. ~ServiceReserves' /\ ~WatchdogRuns'
      BY <1>1, <1>2, <2>1 DEF StopRelease, ServiceReserves, WatchdogRuns, NoWatchdog
    <2> QED BY <1>1, <1>2, <2>1, <2>2 DEF StopRelease, IInv, Control, Starting
  <1>7. Tracked'
    BY <1>1, <1>2 DEF StopRelease, IInv, Tracked, EveryCoreTracked, Owned
  <1> QED BY <1>4, <1>5, <1>6, <1>7 DEF IInv

-----------------------------------------------------------------------------
(* The watchdog *)

Handling == {"wait", "exitDns", "forget", "awaitIpc", "record", "restartDns"}

\* While the watchdog runs, no start or end of a stop is under way, and the only
\* core is the one the watchdog holds.
LEMMA WatchdogContext ==
    ASSUME IInv, WatchdogRuns
    PROVE  /\ cmd.pc \notin Starting \cup {"stopForget", "stopRelease"} /\ cmd.child \notin Cores
           /\ boot \notin {"down", "restore"}
           /\ failedChild = NoCore /\ sidecar # "running"
           /\ \A c \in Cores : core[c] = "owned" => c = wd.child
           /\ wd.pc \in Handling <=> wd.child \in Cores
  <1>1. wd # NoWatchdog
    BY DEF WatchdogRuns, NoWatchdog
  <1>2. cmd.pc \notin Starting \cup {"stopForget", "stopRelease"} /\ boot \notin {"down", "restore"}
    BY <1>1 DEF IInv, Control
  <1>3. cmd.child \notin Cores /\ failedChild = NoCore /\ sidecar # "running"
    BY <1>2 DEF IInv, Control, Starting, ServiceReserves
  <1>4. \A c \in Cores : core[c] = "owned" => c = wd.child
    BY <1>2, <1>3, CoresAssumption DEF IInv, Tracked, EveryCoreTracked, Owned
  <1>5. wd.pc \in Handling <=> wd.child \in Cores
    BY DEF IInv, Control, Handling
  <1> QED BY <1>2, <1>3, <1>4, <1>5

\* So a step of the watchdog keeps the invariant if it accounts for its child.
LEMMA WatchdogAdvances ==
    ASSUME IInv, WatchdogRuns, TypeOK', WithinBudget',
           wd'.pc \in Handling <=> wd'.child \in Cores,
           WatchdogRuns' => failedChild' = NoCore,
           \A c \in Cores : core'[c] = "owned" => c = wd'.child \/ c = failedChild',
           wd'.pc \in {"exitDns", "forget"} => core'[wd'.child] = "dead",
           UNCHANGED <<execution, boot, cmd, sidecar>>
    PROVE  IInv'
  <1>1. Control'
    BY WatchdogContext
    DEF IInv, Control, Starting, Handling, ServiceReserves
  <1>2. Tracked'
    BY WatchdogContext DEF Tracked, EveryCoreTracked, Owned
  <1> QED BY <1>1, <1>2 DEF IInv

\* A kill by the watchdog either leaves nothing owned or leaves everything as it was.
LEMMA KillEffect ==
    ASSUME IInv, WatchdogRuns, wd.child \in Cores
    PROVE  /\ Gone(wd.child) \in [Cores -> CoreStates]
           /\ \A c \in Cores : Gone(wd.child)[c] # "owned"
  BY WatchdogContext DEF Gone, IInv, TypeOK, CoreStates

LEMMA WdShutdownStep ==
    ASSUME IInv, WdShutdown
    PROVE  IInv'
  <1>1. wd.pc = "wait" /\ WatchdogRuns
    BY DEF WdShutdown, WatchdogRuns
  <1>2. wd.child \in Cores /\ failedChild = NoCore
    BY <1>1, WatchdogContext DEF Handling
  <1>3. PICK confirmed \in KillOutcomes(wd.child) :
         /\ core' = AfterKill(wd.child, confirmed)
         /\ IF confirmed
            THEN /\ wd' = [wd EXCEPT !.pc = "epilogue", !.child = NoCore]
                 /\ UNCHANGED <<failedChild, lifecycle, dnsQueue>>
            ELSE WatchdogAbandons(wd.child)
    BY DEF WdShutdown
  <1>4. CASE confirmed
    <2>1. core' = Gone(wd.child) /\ UNCHANGED <<failedChild, lifecycle, dnsQueue>>
      BY <1>3, <1>4 DEF AfterKill
    <2>2. wd' \in Watchdogs /\ wd'.pc = "epilogue" /\ wd'.child = NoCore
      <3>1. wd' = [wd EXCEPT !.pc = "epilogue", !.child = NoCore]
        BY <1>3, <1>4
      <3> QED BY <3>1 DEF IInv, TypeOK, Watchdogs, WdStates
    <2>3. TypeOK'
      BY <1>1, <1>2, <2>1, <2>2, KillEffect DEF WdShutdown, IInv, TypeOK
    <2>4. WithinBudget'
      BY <2>2 DEF WithinBudget
    <2> QED BY <1>1, <1>2, <2>1, <2>2, <2>3, <2>4, KillEffect, WatchdogAdvances, CoresAssumption
        DEF WdShutdown, Handling
  <1>5. CASE ~confirmed
    <2>1. core' = core /\ WatchdogAbandons(wd.child)
      BY <1>3, <1>5 DEF AfterKill
    <2>2. /\ wd' \in Watchdogs /\ wd'.pc = "doneErr" /\ wd'.child = NoCore
          /\ dnsQueue' \in Seq(Requests) /\ failedChild' = wd.child /\ lifecycle' = "Fatal"
      BY <2>1, WatchdogAbandonsEffect DEF IInv, TypeOK
    <2>3. TypeOK'
      BY <1>2, <2>1, <2>2 DEF WdShutdown, IInv, TypeOK, LifecycleStates
    <2>4. WithinBudget' /\ ~WatchdogRuns'
      BY <2>2 DEF WithinBudget, WatchdogRuns
    <2> QED BY <1>1, <2>1, <2>2, <2>3, <2>4, WatchdogContext, WatchdogAdvances, CoresAssumption
        DEF WdShutdown, Handling
  <1> QED BY <1>4, <1>5

LEMMA WdExitStep ==
    ASSUME IInv, WdExit
    PROVE  IInv'
  <1>1. wd.pc = "wait" /\ WatchdogRuns
    BY DEF WdExit, WatchdogRuns
  <1>2. /\ wd' \in Watchdogs /\ wd'.pc = "exitDns" /\ wd'.child = wd.child
        /\ wd'.old = wd.old /\ wd'.recent = wd.recent
    BY WatchdogMoves DEF WdExit, IInv, TypeOK, WdStates
  <1>3. dnsQueue' \in Seq(Requests)
    BY AskedType DEF WdExit, IInv, TypeOK
  <1>4. TypeOK'
    BY <1>2, <1>3 DEF WdExit, IInv, TypeOK, memory
  <1>5. WithinBudget'
    BY <1>1, <1>2 DEF IInv, WithinBudget
  <1> QED BY <1>1, <1>2, <1>4, <1>5, WatchdogContext, WatchdogAdvances DEF WdExit, Handling, memory

LEMMA WdWaitErrorStep ==
    ASSUME IInv, WdWaitError
    PROVE  IInv'
  <1>1. wd.pc = "wait" /\ WatchdogRuns
    BY DEF WdWaitError, WatchdogRuns
  <1>2. wd' \in Watchdogs /\ wd'.pc = "epilogue" /\ wd'.child = NoCore
    <2>1. wd' = [wd EXCEPT !.pc = "epilogue", !.child = NoCore, !.exhausted = TRUE]
      BY DEF WdWaitError
    <2> QED BY <2>1 DEF IInv, TypeOK, Watchdogs, WdStates
  <1>3. /\ core' \in [Cores -> CoreStates]
        /\ \A c \in Cores : core'[c] # "owned"
    <2>1. wd.child \in Cores /\ \A c \in Cores : core[c] = "owned" => c = wd.child
      BY <1>1, WatchdogContext DEF Handling
    <2> QED BY <2>1 DEF WdWaitError, IInv, TypeOK, CoreStates
  <1>4. TypeOK'
    BY <1>2, <1>3 DEF WdWaitError, IInv, TypeOK, memory, dnsVars
  <1>5. WithinBudget'
    BY <1>2 DEF WithinBudget
  <1> QED BY <1>1, <1>2, <1>3, <1>4, <1>5, WatchdogContext, WatchdogAdvances, CoresAssumption
      DEF WdWaitError, Handling, memory

LEMMA WdExitDnsStep ==
    ASSUME IInv, WdExitDns
    PROVE  IInv'
  <1>1. wd.pc = "exitDns" /\ WatchdogRuns
    BY DEF WdExitDns, WatchdogRuns
  <1>2. /\ wd' \in Watchdogs /\ wd'.pc = "forget" /\ wd'.child = wd.child
        /\ wd'.old = wd.old /\ wd'.recent = wd.recent
    BY WatchdogMoves DEF WdExitDns, IInv, TypeOK, WdStates
  <1>3. dnsReply' \in [{"cmd", "wd"} -> {"none", "ok", "err"}]
    BY ConsumedType DEF WdExitDns, IInv
  <1>4. TypeOK'
    BY <1>2, <1>3 DEF WdExitDns, IInv, TypeOK, memory, LifecycleStates
  <1>5. WithinBudget'
    BY <1>1, <1>2 DEF IInv, WithinBudget
  <1>6. core[wd.child] = "dead"
    BY <1>1 DEF IInv, Tracked
  <1> QED BY <1>1, <1>2, <1>4, <1>5, <1>6, WatchdogContext, WatchdogAdvances
      DEF WdExitDns, Handling, memory

LEMMA WdForgetStep ==
    ASSUME IInv, WdForget
    PROVE  IInv'
  <1>1. wd.pc = "forget" /\ WatchdogRuns /\ core[wd.child] = "dead"
    BY DEF WdForget, WatchdogRuns, IInv, Tracked
  <1>2. wd' \in Watchdogs /\ wd'.pc = "budget" /\ wd'.child = NoCore
    <2>1. PICK kept \in 0 .. wd.old + wd.recent :
            wd' = [wd EXCEPT !.pc = "budget", !.child = NoCore, !.old = kept, !.recent = 1,
                             !.retried = IF kept = 0 THEN FALSE ELSE @]
      BY DEF WdForget
    <2>2. wd.old + wd.recent <= MaxRestarts /\ wd \in Watchdogs
      BY <1>1 DEF IInv, WithinBudget, TypeOK
    <2>3. kept \in 0 .. MaxRestarts /\ 1 \in 0 .. MaxRestarts + 1
      BY <2>2, CoresAssumption DEF Watchdogs
    <2>4. (IF kept = 0 THEN FALSE ELSE wd.retried) \in BOOLEAN
      <3>1. wd.retried \in BOOLEAN
        BY <2>2 DEF Watchdogs
      <3> QED BY <3>1, Zenon
    <2> DEFINE retried == IF kept = 0 THEN FALSE ELSE wd.retried
    <2>5. wd' = [wd EXCEPT !.pc = "budget", !.child = NoCore, !.old = kept, !.recent = 1,
                           !.retried = retried]
      BY <2>1
    <2>6. retried \in BOOLEAN
      BY <2>4
    <2> HIDE DEF retried
    <2>7. "budget" \in WdStates
      BY DEF WdStates
    <2> QED BY <2>2, <2>3, <2>5, <2>6, <2>7 DEF Watchdogs
  <1>3. TypeOK'
    BY <1>2 DEF WdForget, RecordRemoved, IInv, TypeOK, dnsVars
  <1>4. WithinBudget'
    BY <1>2 DEF WithinBudget
  <1> QED BY <1>1, <1>2, <1>3, <1>4, WatchdogContext, WatchdogAdvances, CoresAssumption
      DEF WdForget, Handling

\* The check of the budget is what bounds the restarts that follow it.
LEMMA WdBudgetStep ==
    ASSUME IInv, WdBudget
    PROVE  IInv'
  <1>1. wd.pc = "budget" /\ WatchdogRuns /\ wd \in Watchdogs
    BY DEF WdBudget, WatchdogRuns, IInv, TypeOK
  <1>2. /\ wd' \in Watchdogs /\ wd'.child = wd.child
        /\ wd'.pc \in {"epilogue", "backoff", "spawn"}
        /\ WithinBudget'
    <2>1. CASE wd.old + wd.recent > MaxRestarts
      <3>1. wd' = [wd EXCEPT !.pc = "epilogue", !.exhausted = TRUE]
        BY <2>1 DEF WdBudget, BudgetSpent
      <3>2. wd' \in Watchdogs /\ wd'.child = wd.child /\ wd'.pc = "epilogue"
        BY <1>1, <3>1 DEF Watchdogs, WdStates
      <3> QED BY <3>2 DEF WithinBudget
    <2>2. CASE ~(wd.old + wd.recent > MaxRestarts)
      <3>1. PICK pc \in {"backoff", "spawn"} : wd' = [wd EXCEPT !.pc = pc]
        BY <2>2 DEF WdBudget, BudgetSpent
      <3>2. /\ wd' \in Watchdogs /\ wd'.pc = pc /\ wd'.child = wd.child
            /\ wd'.old = wd.old /\ wd'.recent = wd.recent
        BY <1>1, <3>1, WatchdogMoves DEF WdStates
      <3>3. wd.old + wd.recent <= MaxRestarts
        BY <1>1, <2>2, CoresAssumption DEF Watchdogs
      <3> QED BY <3>1, <3>2, <3>3 DEF WithinBudget
    <2> QED BY <2>1, <2>2
  <1>3. TypeOK'
    BY <1>2 DEF WdBudget, IInv, TypeOK, memory, dnsVars
  <1> QED BY <1>1, <1>2, <1>3, WatchdogContext, WatchdogAdvances DEF WdBudget, Handling, memory

LEMMA WdBackoffStep ==
    ASSUME IInv, WdBackoff
    PROVE  IInv'
  <1>1. wd.pc = "backoff" /\ WatchdogRuns
    BY DEF WdBackoff, WatchdogRuns
  <1>2. /\ wd' \in Watchdogs /\ wd'.pc \in {"epilogue", "spawn"} /\ wd'.child = wd.child
        /\ wd'.old = wd.old /\ wd'.recent = wd.recent
    <2>1. PICK pc \in {"epilogue", "spawn"} : wd' = [wd EXCEPT !.pc = pc]
      BY DEF WdBackoff
    <2> QED BY <2>1, WatchdogMoves DEF IInv, TypeOK, WdStates
  <1>3. TypeOK'
    BY <1>2 DEF WdBackoff, IInv, TypeOK, memory, dnsVars
  <1>4. WithinBudget'
    BY <1>1, <1>2 DEF IInv, WithinBudget
  <1> QED BY <1>1, <1>2, <1>3, <1>4, WatchdogContext, WatchdogAdvances DEF WdBackoff, Handling, memory

LEMMA WdSpawnStep ==
    ASSUME IInv, WdSpawn
    PROVE  IInv'
  <1>1. /\ wd.pc = "spawn" /\ WatchdogRuns /\ wd \in Watchdogs
        /\ wd.old + wd.recent <= MaxRestarts
    BY DEF WdSpawn, WatchdogRuns, IInv, TypeOK, WithinBudget
  <1>2. \A c \in Cores : core[c] # "owned"
    BY <1>1, WatchdogContext DEF Handling
  <1>3. CASE \E c \in Cores : /\ Fresh(c)
                              /\ core' = Spawned(c)
                              /\ wd' = [wd EXCEPT !.pc = "awaitIpc", !.child = c]
    <2>1. PICK c \in Cores : core' = Spawned(c) /\ wd' = [wd EXCEPT !.pc = "awaitIpc", !.child = c]
      BY <1>3
    <2>2. /\ wd' \in Watchdogs /\ wd'.pc = "awaitIpc" /\ wd'.child = c
          /\ wd'.old = wd.old /\ wd'.recent = wd.recent
      BY <1>1, <2>1 DEF Watchdogs, WdStates
    <2>3. /\ core' \in [Cores -> CoreStates]
          /\ \A d \in Cores : core'[d] = "owned" => d = c
      BY <1>2, <2>1 DEF Spawned, IInv, TypeOK, CoreStates
    <2>4. TypeOK'
      BY <2>2, <2>3 DEF WdSpawn, IInv, TypeOK, memory, dnsVars
    <2>5. WithinBudget'
      BY <1>1, <2>2 DEF WithinBudget
    <2> QED BY <1>1, <2>2, <2>3, <2>4, <2>5, WatchdogContext, WatchdogAdvances
        DEF WdSpawn, Handling, memory
  <1>4. CASE AttemptFailed /\ UNCHANGED core
    <2>1. wd' \in Watchdogs /\ wd'.pc = "budget" /\ wd'.child = NoCore
      BY <1>1, <1>4, AttemptFailedEffect
    <2>2. TypeOK'
      BY <1>4, <2>1 DEF WdSpawn, IInv, TypeOK, memory, dnsVars
    <2>3. WithinBudget'
      BY <2>1 DEF WithinBudget
    <2> QED BY <1>1, <1>2, <1>4, <2>1, <2>2, <2>3, WatchdogContext, WatchdogAdvances, CoresAssumption
        DEF WdSpawn, Handling, memory
  <1> QED BY <1>3, <1>4 DEF WdSpawn

LEMMA WdAwaitIpcStep ==
    ASSUME IInv, WdAwaitIpc
    PROVE  IInv'
  <1>1. /\ wd.pc = "awaitIpc" /\ WatchdogRuns /\ wd \in Watchdogs
        /\ wd.old + wd.recent <= MaxRestarts
    BY DEF WdAwaitIpc, WatchdogRuns, IInv, TypeOK, WithinBudget
  <1>2. wd.child \in Cores
    BY <1>1, WatchdogContext DEF Handling
  <1>3. CASE /\ wd' = [wd EXCEPT !.pc = "record"]
             /\ UNCHANGED <<core, record, runningPid, failedChild, lifecycle, dnsQueue>>
    <2>1. /\ wd' \in Watchdogs /\ wd'.pc = "record" /\ wd'.child = wd.child
          /\ wd'.old = wd.old /\ wd'.recent = wd.recent
      BY <1>3, <1>1, WatchdogMoves DEF WdStates
    <2>2. TypeOK'
      BY <1>3, <2>1 DEF WdAwaitIpc, IInv, TypeOK
    <2>3. WithinBudget'
      BY <1>1, <2>1 DEF WithinBudget
    <2> QED BY <1>1, <1>2, <1>3, <2>1, <2>2, <2>3, WatchdogContext, WatchdogAdvances
        DEF WdAwaitIpc, Handling
  <1>4. ASSUME NEW confirmed \in KillOutcomes(wd.child),
               core' = AfterKill(wd.child, confirmed),
               IF confirmed
               THEN AttemptFailed /\ UNCHANGED <<record, runningPid, failedChild, lifecycle, dnsQueue>>
               ELSE /\ runningPid' = wd.child
                    /\ RecordWritten(wd.child) \/ RecordNotWritten(wd.child)
                    /\ WatchdogAbandons(wd.child)
        PROVE  IInv'
    <2>1. CASE confirmed
      <3>1. /\ core' = Gone(wd.child)
            /\ AttemptFailed /\ UNCHANGED <<record, runningPid, failedChild, lifecycle, dnsQueue>>
        BY <1>4, <2>1 DEF AfterKill
      <3>2. wd' \in Watchdogs /\ wd'.pc = "budget" /\ wd'.child = NoCore
        BY <1>1, <3>1, AttemptFailedEffect
      <3>3. TypeOK'
        BY <1>1, <1>2, <3>1, <3>2, KillEffect DEF WdAwaitIpc, IInv, TypeOK
      <3>4. WithinBudget'
        BY <3>2 DEF WithinBudget
      <3> QED BY <1>1, <1>2, <3>1, <3>2, <3>3, <3>4, KillEffect, WatchdogContext, WatchdogAdvances, CoresAssumption
          DEF WdAwaitIpc, Handling
    <2>2. CASE ~confirmed
      <3>1. /\ core' = core /\ runningPid' = wd.child /\ WatchdogAbandons(wd.child)
            /\ RecordWritten(wd.child) \/ RecordNotWritten(wd.child)
        BY <1>4, <2>2 DEF AfterKill
      <3>2. record' \in Cores \cup {NoCore}
        BY <1>2, <3>1 DEF RecordWritten, RecordNotWritten, IInv, TypeOK
      <3>3. /\ wd' \in Watchdogs /\ wd'.pc = "doneErr" /\ wd'.child = NoCore
            /\ dnsQueue' \in Seq(Requests) /\ failedChild' = wd.child /\ lifecycle' = "Fatal"
        BY <1>1, <3>1, WatchdogAbandonsEffect DEF IInv, TypeOK
      <3>4. TypeOK'
        BY <1>2, <3>1, <3>2, <3>3 DEF WdAwaitIpc, IInv, TypeOK, LifecycleStates
      <3>5. WithinBudget' /\ ~WatchdogRuns'
        BY <3>3 DEF WithinBudget, WatchdogRuns
      <3> QED BY <1>1, <3>1, <3>3, <3>4, <3>5, WatchdogContext, WatchdogAdvances, CoresAssumption
          DEF WdAwaitIpc, Handling
    <2> QED BY <2>1, <2>2
  <1> QED BY <1>3, <1>4 DEF WdAwaitIpc

\* Retiring a restarted core is the end of the watchdog's work.
LEMMA RestartRetiredStep ==
    ASSUME IInv, wd.pc \in {"record", "restartDns"}, RestartRetired,
           record' \in Cores \cup {NoCore},
           dnsReply' \in [{"cmd", "wd"} -> {"none", "ok", "err"}],
           UNCHANGED <<runningConfig, execution, boot, cmd, dns, sidecar>>
    PROVE  IInv'
  <1>1. WatchdogRuns /\ wd.child \in Cores
    BY DEF WatchdogRuns, IInv, Control
  <1>2. /\ wd' \in Watchdogs /\ wd'.child = NoCore
        /\ core' \in [Cores -> CoreStates]
        /\ dnsQueue' \in Seq(Requests)
        /\ lifecycle' \in LifecycleStates
        /\ \/ /\ wd'.pc = "epilogue"
              /\ core' = Gone(wd.child)
              /\ UNCHANGED <<runningPid, failedChild>>
           \/ /\ wd'.pc = "doneErr"
              /\ core' = core
              /\ runningPid' = wd.child /\ failedChild' = wd.child
    BY <1>1, RestartRetiredEffect DEF IInv, TypeOK
  <1>3. TypeOK'
    BY <1>1, <1>2 DEF IInv, TypeOK
  <1>4. WithinBudget'
    BY <1>2 DEF WithinBudget
  <1>5. WatchdogRuns' => failedChild' = NoCore
    BY <1>1, <1>2, WatchdogContext DEF WatchdogRuns
  <1>6. \A c \in Cores : core'[c] = "owned" => c = failedChild'
    BY <1>1, <1>2, KillEffect, WatchdogContext
  <1> QED BY <1>1, <1>2, <1>3, <1>4, <1>5, <1>6, WatchdogAdvances, CoresAssumption DEF Handling

LEMMA WdRecordStep ==
    ASSUME IInv, WdRecord
    PROVE  IInv'
  <1>1. wd.pc = "record" /\ WatchdogRuns /\ wd.child \in Cores
    BY DEF WdRecord, WatchdogRuns, IInv, Control
  <1>2. record' \in Cores \cup {NoCore}
    BY <1>1 DEF WdRecord, RecordWritten, RecordNotWritten, IInv, TypeOK
  <1>3. CASE /\ wd' = [wd EXCEPT !.pc = "restartDns"]
             /\ dnsQueue' = Asked(WantsDns(wd.config), "wd")
             /\ UNCHANGED <<core, runningPid, failedChild, lifecycle>>
    <2>1. /\ wd' \in Watchdogs /\ wd'.pc = "restartDns" /\ wd'.child = wd.child
          /\ wd'.old = wd.old /\ wd'.recent = wd.recent
      BY <1>3, WatchdogMoves DEF IInv, TypeOK, WdStates
    <2>2. dnsQueue' \in Seq(Requests)
      <3>1. WantsDns(wd.config) \in BOOLEAN
        BY DEF WantsDns
      <3> QED BY <1>3, <3>1, AskedType DEF IInv, TypeOK
    <2>3. TypeOK'
      BY <1>2, <1>3, <2>1, <2>2 DEF WdRecord, IInv, TypeOK
    <2>4. WithinBudget'
      BY <1>1, <2>1 DEF IInv, WithinBudget
    <2> QED BY <1>1, <1>3, <2>1, <2>3, <2>4, WatchdogContext, WatchdogAdvances DEF WdRecord, Handling
  <1>4. CASE RestartRetired
    BY <1>1, <1>2, <1>4, RestartRetiredStep DEF WdRecord, IInv, TypeOK
  <1> QED BY <1>3, <1>4 DEF WdRecord

LEMMA WdRestartDnsStep ==
    ASSUME IInv, WdRestartDns
    PROVE  IInv'
  <1>1. wd.pc = "restartDns" /\ WatchdogRuns /\ wd.child \in Cores
    BY DEF WdRestartDns, WatchdogRuns, IInv, Control
  <1>2. dnsReply' \in [{"cmd", "wd"} -> {"none", "ok", "err"}]
    BY ConsumedType DEF WdRestartDns, IInv
  <1>3. CASE /\ runningPid' = wd.child
             /\ lifecycle' = "Running"
             /\ wd' = [wd EXCEPT !.pc = "wait", !.retried = TRUE]
             /\ UNCHANGED <<core, failedChild, dnsQueue>>
    <2>1. /\ wd' \in Watchdogs /\ wd'.pc = "wait" /\ wd'.child = wd.child
          /\ wd'.old = wd.old /\ wd'.recent = wd.recent
      BY <1>3 DEF IInv, TypeOK, Watchdogs, WdStates
    <2>2. TypeOK'
      BY <1>1, <1>2, <1>3, <2>1 DEF WdRestartDns, IInv, TypeOK, LifecycleStates
    <2>3. WithinBudget'
      BY <1>1, <2>1 DEF IInv, WithinBudget
    <2> QED BY <1>1, <1>3, <2>1, <2>2, <2>3, WatchdogContext, WatchdogAdvances DEF WdRestartDns, Handling
  <1>4. CASE RestartRetired
    BY <1>1, <1>2, <1>4, RestartRetiredStep DEF WdRestartDns, IInv, TypeOK
  <1> QED BY <1>3, <1>4 DEF WdRestartDns

LEMMA WdEpilogueStep ==
    ASSUME IInv, WdEpilogue
    PROVE  IInv'
  <1>1. wd.pc = "epilogue" /\ WatchdogRuns
    BY DEF WdEpilogue, WatchdogRuns
  <1>2. /\ wd' \in Watchdogs /\ wd'.pc = "doneOk" /\ wd'.child = NoCore
        /\ dnsQueue' \in Seq(Requests)
    BY WatchdogEndsEffect DEF WdEpilogue, IInv, TypeOK
  <1>3. TypeOK'
    BY <1>2 DEF WdEpilogue, RecordRemoved, LastWord, IInv, TypeOK, LifecycleStates
  <1>4. WithinBudget' /\ ~WatchdogRuns'
    BY <1>2 DEF WithinBudget, WatchdogRuns
  <1> QED BY <1>1, <1>2, <1>3, <1>4, WatchdogContext, WatchdogAdvances, CoresAssumption
      DEF WdEpilogue, Handling

-----------------------------------------------------------------------------
(* The resolver worker, the world and the daemon's startup *)

\* The manager's invariant is not about the resolver or its queue.
LEMMA ResolverFrame ==
    ASSUME IInv, TypeOK',
           UNCHANGED <<core, record, memory, lifecycle, boot, cmd, wd, sidecar>>
    PROVE  IInv'
  <1>1. WithinBudget'
    BY DEF IInv, WithinBudget
  <1>2. Control'
    BY DEF IInv, Control, Starting, ServiceReserves, WatchdogRuns, memory
  <1>3. Tracked'
    BY DEF IInv, Tracked, EveryCoreTracked, Owned, memory
  <1> QED BY <1>1, <1>2, <1>3 DEF IInv

LEMMA ServeDnsStep ==
    ASSUME IInv, ServeDns
    PROVE  IInv'
  <1> DEFINE request == Head(dnsQueue)
  <1>1. /\ request \in Requests
        /\ dnsQueue' \in Seq(Requests)
    BY DEF ServeDns, IInv, TypeOK
  <1>2. request.on \in BOOLEAN /\ request.from \in {"cmd", "wd", "retirement"}
    BY <1>1 DEF Requests
  <1>3. PICK answer \in {"ok", "err"} :
          /\ dns' = IF answer = "ok" THEN request.on ELSE dns
          /\ dnsReply' = IF request.from = "retirement" THEN dnsReply
                         ELSE [dnsReply EXCEPT ![request.from] = answer]
    BY DEF ServeDns
  <1> HIDE DEF request
  <1>4. dns' \in BOOLEAN
    <2>1. dns \in BOOLEAN
      BY DEF IInv, TypeOK
    <2>2. dns' = request.on \/ dns' = dns
      BY <1>3
    <2> QED BY <1>2, <2>1, <2>2, Zenon
  <1>5. dnsReply' \in [{"cmd", "wd"} -> {"none", "ok", "err"}]
    BY <1>2, <1>3 DEF IInv, TypeOK
  <1>6. TypeOK'
    BY <1>1, <1>4, <1>5 DEF ServeDns, IInv, TypeOK, memory
  <1> QED BY <1>6, ResolverFrame DEF ServeDns

LEMMA CoreExitsStep ==
    ASSUME IInv, NEW c \in Cores, CoreExits(c)
    PROVE  IInv'
  <1>1. /\ core' \in [Cores -> CoreStates]
        /\ \A d \in Cores : core'[d] = core[d] \/ core'[d] = "dead"
    BY DEF CoreExits, Gone, IInv, TypeOK, CoreStates
  <1>2. TypeOK'
    BY <1>1 DEF CoreExits, IInv, TypeOK, memory, dnsVars
  <1>3. WithinBudget'
    BY DEF CoreExits, IInv, WithinBudget
  <1>4. Control'
    BY DEF CoreExits, IInv, Control, Starting, ServiceReserves, WatchdogRuns, memory
  <1>5. Tracked'
    <2>1. wd.pc \in {"exitDns", "forget"} => wd.child \in Cores
      BY DEF IInv, Control
    <2>2. Owned' \subseteq Owned
      BY <1>1 DEF Owned
    <2> QED BY <1>1, <2>1, <2>2 DEF CoreExits, IInv, Tracked, EveryCoreTracked, memory
  <1> QED BY <1>2, <1>3, <1>4, <1>5 DEF IInv

\* The memory of a daemon that is not running yet.
LEMMA EmptyMemory ==
    ASSUME NEW S, S = NoWatchdog
    PROVE  S \in Watchdogs /\ S.pc = "none" /\ S.child = NoCore
  <1>1. 0 \in 0 .. MaxRestarts /\ 0 \in 0 .. MaxRestarts + 1
    BY CoresAssumption
  <1> QED BY <1>1 DEF NoWatchdog, Watchdogs, WdStates

LEMMA CrashStep ==
    ASSUME IInv, Crash
    PROVE  IInv'
  <1>1. /\ cmd' = Idle /\ cmd' \in Commands /\ cmd'.pc = "idle" /\ cmd'.child = NoCore
        /\ wd' = NoWatchdog /\ wd' \in Watchdogs /\ wd'.pc = "none" /\ wd'.child = NoCore
        /\ runningPid' = NoCore /\ failedChild' = NoCore /\ ~execution' /\ boot' = "down"
    BY IdleType, EmptyMemory DEF Crash
  <1>2. execution' \in BOOLEAN /\ dns' \in BOOLEAN
    <2>1. execution' = FALSE /\ dns' = FALSE
      BY DEF Crash
    <2> QED BY <2>1
  <1>3. dnsQueue' \in Seq(Requests) /\ dnsReply' \in [{"cmd", "wd"} -> {"none", "ok", "err"}]
    BY DEF Crash
  <1>4. core' \in [Cores -> CoreStates] /\ Owned' \subseteq {record}
    BY DEF Crash, Owned, IInv, TypeOK, CoreStates
  <1>5. TypeOK'
    BY <1>1, <1>2, <1>3, <1>4 DEF Crash, IInv, TypeOK, LifecycleStates, BootStates
  <1>6. WithinBudget'
    BY <1>1 DEF WithinBudget
  <1>7. Control'
    BY <1>1, CoresAssumption DEF Control, Starting, ServiceReserves, WatchdogRuns
  <1>8. Tracked'
    BY <1>1, <1>4 DEF Crash, Tracked, EveryCoreTracked
  <1> QED BY <1>5, <1>6, <1>7, <1>8 DEF IInv

\* What the dead daemon left is terminated, or it keeps every start refused.
LEMMA ReconcileStep ==
    ASSUME IInv, Reconcile
    PROVE  IInv'
  <1>1. /\ boot = "down" /\ cmd = Idle /\ wd = NoWatchdog /\ wd.pc = "none"
        /\ runningPid = NoCore /\ failedChild = NoCore /\ ~execution
    BY DEF Reconcile, IInv, Control, NoWatchdog
  <1>2. /\ core' \in [Cores -> CoreStates] /\ record' \in Cores \cup {NoCore}
        /\ boot' \in {"restore", "blocked"} /\ Owned' = {}
    <2>1. Owned \subseteq {record} /\ Owned \subseteq Cores
      BY <1>1 DEF IInv, Tracked, Owned
    <2>2. CASE record = NoCore /\ boot' = "restore" /\ UNCHANGED <<core, record>>
      BY <2>1, <2>2, CoresAssumption DEF IInv, TypeOK, Owned
    <2>3. CASE record # NoCore /\ core' = Gone(record) /\ RecordRemoved /\ boot' = "restore"
      BY <2>1, <2>3 DEF IInv, TypeOK, Owned, Gone, RecordRemoved, CoreStates
    <2>4. CASE /\ record # NoCore /\ core' = [core EXCEPT ![record] = "unreconciled"]
               /\ boot' = "blocked" /\ UNCHANGED record
      BY <2>1, <2>4 DEF IInv, TypeOK, Owned, CoreStates
    <2> QED BY <2>2, <2>3, <2>4 DEF Reconcile
  <1>3. TypeOK'
    BY <1>2 DEF Reconcile, IInv, TypeOK, BootStates, memory, dnsVars
  <1>4. WithinBudget'
    BY DEF Reconcile, IInv, WithinBudget
  <1>5. Control'
    BY <1>1, <1>2 DEF Reconcile, IInv, Control, Starting, ServiceReserves, WatchdogRuns, memory
  <1>6. Tracked'
    BY <1>1, <1>2 DEF Reconcile, IInv, Tracked, EveryCoreTracked, memory
  <1> QED BY <1>3, <1>4, <1>5, <1>6 DEF IInv

\* Nothing is owned when the desired configuration is restored, so its start is
\* as clean as one that follows a stop.
LEMMA RestoreStep ==
    ASSUME IInv, Restore
    PROVE  IInv'
  <1>1. /\ cmd = Idle /\ wd = NoWatchdog /\ wd.pc = "none" /\ wd.child = NoCore
        /\ runningPid = NoCore /\ failedChild = NoCore /\ ~execution /\ boot' = "up"
        /\ cmd.pc = "idle" /\ cmd.child = NoCore
    BY IdleType, EmptyMemory DEF Restore, IInv, Control
  <1>2. /\ cmd' \in Commands /\ cmd'.child = NoCore
        /\ cmd'.pc \in {"idle", "prepare"}
    <2>1. CASE cmd' = cmd
      BY <1>1, <2>1 DEF IInv, TypeOK
    <2>2. ASSUME NEW config \in Configs,
                 cmd' = [Idle EXCEPT !.pc = "prepare", !.origin = "restore", !.config = config]
          PROVE  /\ cmd' \in Commands /\ cmd'.child = NoCore
                 /\ cmd'.pc \in {"idle", "prepare"}
      BY <2>2 DEF Idle, Commands, CmdStates
    <2> QED BY <2>1, <2>2 DEF Restore
  <1>3. TypeOK'
    BY <1>1, <1>2 DEF Restore, IInv, TypeOK, BootStates, memory, dnsVars
  <1>4. WithinBudget'
    BY DEF Restore, IInv, WithinBudget
  <1>5. Control'
    BY <1>1, <1>2, CoresAssumption
    DEF Restore, IInv, Control, Starting, ServiceReserves, WatchdogRuns, memory
  <1>6. Tracked'
    BY <1>1, <1>2 DEF Restore, IInv, Tracked, EveryCoreTracked, Owned, memory
  <1> QED BY <1>3, <1>4, <1>5, <1>6 DEF IInv

\* The Sidecar gets the reservation only when nobody in the daemon holds it.
LEMMA SidecarStep ==
    ASSUME IInv, SidecarInspect \/ SidecarReserve \/ SidecarExits
    PROVE  IInv'
  <1>1. /\ UNCHANGED <<core, record, memory, lifecycle, boot, cmd, wd, dnsVars>>
        /\ sidecar' \in {"none", "inspected", "running"}
        /\ sidecar' = "running" => ~ServiceReserves
    BY DEF SidecarInspect, SidecarReserve, SidecarExits
  <1>2. TypeOK'
    BY <1>1 DEF IInv, TypeOK, memory, dnsVars
  <1>3. WithinBudget'
    BY <1>1 DEF IInv, WithinBudget
  <1>4. Control'
    BY <1>1 DEF IInv, Control, Starting, ServiceReserves, WatchdogRuns, memory
  <1>5. Tracked'
    BY <1>1 DEF IInv, Tracked, EveryCoreTracked, Owned, memory
  <1> QED BY <1>2, <1>3, <1>4, <1>5 DEF IInv

-----------------------------------------------------------------------------
(* The theorems *)

LEMMA InitIInv == Init => IInv
  <1> SUFFICES ASSUME Init PROVE IInv
    OBVIOUS
  <1>1. /\ cmd = Idle /\ cmd \in Commands /\ cmd.pc = "idle" /\ cmd.child = NoCore
        /\ wd = NoWatchdog /\ wd \in Watchdogs /\ wd.pc = "none" /\ wd.child = NoCore
        /\ runningPid = NoCore /\ failedChild = NoCore /\ ~execution /\ boot = "down"
    BY IdleType, EmptyMemory DEF Init
  <1>2. execution \in BOOLEAN /\ dns \in BOOLEAN
    <2>1. execution = FALSE /\ dns = FALSE
      BY DEF Init
    <2> QED BY <2>1
  <1>3. dnsQueue \in Seq(Requests) /\ dnsReply \in [{"cmd", "wd"} -> {"none", "ok", "err"}]
    BY DEF Init
  <1>4. core \in [Cores -> CoreStates] /\ Owned = {}
    BY DEF Init, Owned, CoreStates
  <1>5. TypeOK
    BY <1>1, <1>2, <1>3, <1>4 DEF Init, TypeOK, LifecycleStates, BootStates
  <1>6. WithinBudget
    BY <1>1 DEF WithinBudget
  <1>7. Control
    BY <1>1, CoresAssumption DEF Init, Control, Starting, ServiceReserves, WatchdogRuns
  <1>8. Tracked
    BY <1>1, <1>4 DEF Tracked, EveryCoreTracked
  <1> QED BY <1>5, <1>6, <1>7, <1>8 DEF IInv

LEMMA NextIInv == IInv /\ [Next]_vars => IInv'
  <1> SUFFICES ASSUME IInv, [Next]_vars PROVE IInv'
    OBVIOUS
  <1>1. CASE CommandStep
    BY <1>1, TunDnsSetStep, PrepareStep, StartSpawnStep, StartAwaitIpcStep, StartRecordStep,
       StartPublishStep, StartDnsStep, StopDnsStep, StopJoinStep, StopForgetStep, StopReleaseStep
    DEF CommandStep
  <1>2. CASE WatchdogStep
    BY <1>2, WdShutdownStep, WdExitStep, WdWaitErrorStep, WdExitDnsStep, WdForgetStep, WdBudgetStep,
       WdBackoffStep, WdSpawnStep, WdAwaitIpcStep, WdRecordStep, WdRestartDnsStep, WdEpilogueStep
    DEF WatchdogStep
  <1>3. CASE Startup
    BY <1>3, ReconcileStep, RestoreStep DEF Startup
  <1>4. CASE UNCHANGED vars
    <2>1. TypeOK'
      BY <1>4 DEF vars, IInv, TypeOK
    <2> QED BY <1>4, <2>1, ResolverFrame DEF vars, memory
  <1> QED BY <1>1, <1>2, <1>3, <1>4, TakeoverStep, StopStep, SetTunDnsStep, ServeDnsStep,
             CoreExitsStep, CrashStep, SidecarStep DEF Next

\* The strengthening holds in every state of every behaviour.
THEOREM Invariance == Spec => []IInv
  BY InitIInv, NextIInv, PTL DEF Spec

\* Every variable keeps its type; with it, the watchdog's counters their bounds.
THEOREM TypeCorrect == Spec => []TypeOK
  <1>1. IInv => TypeOK
    BY DEF IInv
  <1> QED BY <1>1, Invariance, PTL

\* Some task or failed_child holds the handle of every core of a living daemon.
THEOREM CoresAreTracked == Spec => []EveryCoreTracked
  <1>1. IInv => EveryCoreTracked
    BY DEF IInv, Tracked
  <1> QED BY <1>1, Invariance, PTL

\* At most one core, whatever interleaves and wherever the daemon crashes.
THEOREM AtMostOneCore == Spec => []OneCore
  <1>1. ASSUME IInv PROVE OneCore
    <2>1. PICK c : Owned \subseteq {c}
      <3>1. CASE boot = "down"
        BY <1>1, <3>1 DEF IInv, Tracked
      <3>2. CASE boot # "down" /\ cmd.pc \in Starting
        <4>1. wd.child \notin Cores /\ failedChild \notin Cores
          BY <1>1, <3>2, EmptyMemory, CoresAssumption DEF IInv, Control
        <4> QED BY <1>1, <3>2, <4>1 DEF IInv, Tracked, EveryCoreTracked, Owned
      <3>3. CASE boot # "down" /\ WatchdogRuns
        BY <1>1, <3>3, WatchdogContext DEF Owned
      <3>4. CASE boot # "down" /\ cmd.pc \notin Starting /\ ~WatchdogRuns
        <4>1. cmd.child \notin Cores /\ wd.child \notin Cores
          BY <1>1, <3>4 DEF IInv, Control, Starting, WatchdogRuns
        <4> QED BY <1>1, <3>4, <4>1 DEF IInv, Tracked, EveryCoreTracked, Owned
      <3> QED BY <3>1, <3>2, <3>3, <3>4
    <2>2. IsFiniteSet({c}) /\ Cardinality({c}) = 1
      BY FS_Singleton
    <2>3. Cardinality(Owned) <= Cardinality({c}) /\ IsFiniteSet(Owned)
      BY <2>1, <2>2, FS_Subset
    <2> QED BY <2>2, <2>3 DEF OneCore
  <1> QED BY <1>1, Invariance, PTL

\* A living daemon has no core while the Sidecar runs.
THEOREM SidecarIsExcluded == Spec => []SidecarExclusive
  <1>1. ASSUME IInv PROVE SidecarExclusive
    <2> SUFFICES ASSUME sidecar = "running", boot # "down" PROVE Owned = {}
      BY DEF SidecarExclusive
    <2>1. ~execution /\ ~WatchdogRuns /\ cmd.pc \notin {"spawn", "awaitIpc", "record", "publish"}
      BY <1>1 DEF IInv, Control, ServiceReserves
    <2>2. cmd.child \notin Cores /\ wd.child \notin Cores /\ failedChild \notin Cores
      BY <1>1, <2>1, CoresAssumption DEF IInv, Control, WatchdogRuns
    <2> QED BY <1>1, <2>2 DEF IInv, Tracked, EveryCoreTracked, Owned
  <1> QED BY <1>1, Invariance, PTL

\* A stop that clears the manager's memory left no core and no watchdog.
THEOREM StopIsConfirmed == Spec => []StopConfirmed
  <1>1. ASSUME IInv PROVE StopConfirmed
    <2> SUFFICES ASSUME cmd.pc \in {"stopForget", "stopRelease"} PROVE Owned = {} /\ ~WatchdogRuns
      BY DEF StopConfirmed
    <2>1. wd = NoWatchdog /\ failedChild = NoCore /\ cmd.child \notin Cores /\ boot # "down"
      BY <1>1 DEF IInv, Control, Idle
    <2>2. wd.pc = "none" /\ wd.child = NoCore
      BY <2>1, EmptyMemory
    <2> QED BY <1>1, <2>1, <2>2, CoresAssumption
        DEF IInv, Tracked, EveryCoreTracked, Owned, WatchdogRuns
  <1> QED BY <1>1, Invariance, PTL

\* A start finds nothing left to stop.
THEOREM StartIsClean == Spec => []StartsClean
  <1>1. ASSUME IInv PROVE StartsClean
    <2> SUFFICES ASSUME cmd.pc \in Starting
                 PROVE  /\ runningPid = NoCore /\ failedChild = NoCore /\ ~execution
                        /\ wd = NoWatchdog
                        /\ Owned \subseteq {cmd.child}
      BY DEF StartsClean, Starting
    <2>1. /\ runningPid = NoCore /\ failedChild = NoCore /\ ~execution /\ wd = NoWatchdog
          /\ boot # "down"
      BY <1>1 DEF IInv, Control, Idle, Starting
    <2>2. wd.child = NoCore
      BY <2>1, EmptyMemory
    <2> QED BY <1>1, <2>1, <2>2, CoresAssumption DEF IInv, Tracked, EveryCoreTracked, Owned
  <1> QED BY <1>1, Invariance, PTL

-----------------------------------------------------------------------------
(* The manager implements the execution reservation *)

Holder == IF sidecar = "running" THEN "sidecar"
          ELSE IF ServiceReserves THEN "service" ELSE "nobody"
Responsible == IF boot = "down" THEN {} ELSE Owned

ReservationStep == [Reservation!Next]_(Reservation!reservation)

\* What each step of the reservation needs of the manager.
LEMMA Stutters ==
    ASSUME Holder' = Holder, Responsible' = Responsible
    PROVE  ReservationStep
  BY DEF ReservationStep, Reservation!reservation, Holder, Responsible

LEMMA Acquires ==
    ASSUME NEW who \in {"service", "sidecar"},
           Holder = "nobody", Holder' = who, Responsible' = Responsible
    PROVE  ReservationStep
  BY DEF ReservationStep, Reservation!Next, Reservation!Acquire, Holder, Responsible

LEMMA Spawns ==
    ASSUME NEW c \in Cores, Holder = "service", Holder' = Holder,
           Responsible = {}, Responsible' = {c}
    PROVE  ReservationStep
  BY DEF ReservationStep, Reservation!Next, Reservation!Spawn, Holder, Responsible

LEMMA Retires ==
    ASSUME NEW c \in Cores, Holder' = Holder, Responsible' = Responsible \ {c}
    PROVE  ReservationStep
  <1>1. CASE c \in Responsible
    BY <1>1 DEF ReservationStep, Reservation!Next, Reservation!Retire, Holder, Responsible
  <1>2. CASE c \notin Responsible
    <2>1. Responsible' = Responsible
      BY <1>2
    <2> QED BY <2>1, Stutters
  <1> QED BY <1>1, <1>2

LEMMA Releases ==
    ASSUME Holder = "service", Holder' = "nobody", Responsible' = {}
    PROVE  ReservationStep
  BY DEF ReservationStep, Reservation!Next, Reservation!Release, Holder, Responsible

Reserving == {"spawn", "awaitIpc", "record", "publish"}

\* Most steps neither touch a core nor the reservation.
LEMMA QuietStep ==
    ASSUME UNCHANGED <<core, execution, boot, sidecar>>,
           cmd'.pc \in Reserving <=> cmd.pc \in Reserving,
           WatchdogRuns' <=> WatchdogRuns
    PROVE  ReservationStep
  <1>1. ServiceReserves' <=> ServiceReserves
    BY DEF ServiceReserves, Reserving
  <1>2. Holder' = Holder /\ Responsible' = Responsible
    BY <1>1 DEF Holder, Responsible, Owned
  <1> QED BY <1>2, Stutters

\* The watchdog's clone is never the last one: the manager's own, or that of the
\* start that spawned the watchdog, outlives it.
LEMMA WatchdogReserves ==
    ASSUME IInv, WatchdogRuns, UNCHANGED <<execution, boot, cmd, sidecar>>
    PROVE  /\ Holder = "service" /\ Holder' = "service"
           /\ Responsible = Owned /\ Responsible' = Owned'
  <1>1. /\ boot # "down" /\ sidecar # "running" /\ ServiceReserves /\ ServiceReserves'
    BY WatchdogContext DEF IInv, Control, ServiceReserves
  <1> QED BY <1>1 DEF Holder, Responsible

\* A kill retires the core, whether it was still owned or had exited.
LEMMA WatchdogKills ==
    ASSUME IInv, WatchdogRuns, UNCHANGED <<execution, boot, cmd, sidecar>>,
           NEW c \in Cores, core' = Gone(c) \/ core' = [core EXCEPT ![c] = "reaping"]
    PROVE  ReservationStep
  <1>1. Owned' = Owned \ {c}
    BY DEF Owned, Gone, IInv, TypeOK
  <1> QED BY <1>1, WatchdogReserves, Retires

LEMMA WatchdogKeepsCores ==
    ASSUME IInv, WatchdogRuns, UNCHANGED <<core, execution, boot, cmd, sidecar>>
    PROVE  ReservationStep
  <1>1. Owned' = Owned
    BY DEF Owned
  <1> QED BY <1>1, WatchdogReserves, Stutters

LEMMA AbandonedStartReserves ==
    ASSUME IInv, cmd.pc \in {"awaitIpc", "record"},
           NEW confirmed \in KillOutcomes(cmd.child), StartAbandoned(cmd.child, confirmed),
           UNCHANGED <<boot, wd, dns, dnsReply, sidecar>>
    PROVE  ReservationStep
  <1>1. /\ cmd.child \in Cores /\ wd = NoWatchdog /\ boot # "down" /\ sidecar # "running"
        /\ ServiceReserves /\ ~execution /\ confirmed \in BOOLEAN
    <2>1. cmd.child \in Cores /\ wd = NoWatchdog /\ boot # "down" /\ ServiceReserves /\ ~execution
      BY DEF IInv, Control, Starting, Idle, ServiceReserves
    <2>2. confirmed \in BOOLEAN
      BY Zenon DEF KillOutcomes
    <2> QED BY <2>1, <2>2 DEF IInv, Control
  <1>2. /\ cmd'.pc \in {"idle", "stopDns"}
        /\ \/ core' = Gone(cmd.child) /\ UNCHANGED memory
           \/ core' = core /\ failedChild' = cmd.child /\ execution'
    BY <1>1, StartAbandonedEffect DEF IInv
  <1>3. Holder = "service" /\ Responsible = Owned /\ Responsible' = Owned'
    BY <1>1 DEF Holder, Responsible
  <1>4. CASE core' = Gone(cmd.child) /\ UNCHANGED memory
    <2>1. wd.child \notin Cores /\ failedChild \notin Cores
      BY <1>1, EmptyMemory, CoresAssumption DEF IInv, Control, Starting
    <2>2. Owned' = {}
      BY <1>1, <1>4, <2>1 DEF IInv, TypeOK, Tracked, EveryCoreTracked, Owned, Gone
    <2>3. wd'.pc = "none" /\ ~execution'
      BY <1>1, <1>4, EmptyMemory DEF memory
    <2>4. Holder' = "nobody"
      BY <1>1, <1>2, <2>3 DEF Holder, ServiceReserves, WatchdogRuns
    <2> QED BY <1>3, <2>2, <2>4, Releases
  <1>5. CASE core' = core /\ failedChild' = cmd.child /\ execution'
    <2>1. Holder' = "service" /\ Owned' = Owned
      BY <1>1, <1>5 DEF Holder, ServiceReserves, Owned
    <2> QED BY <1>3, <2>1, Stutters
  <1> QED BY <1>2, <1>4, <1>5

\* The commands.
LEMMA CommandReserves ==
    ASSUME IInv, CommandStep
    PROVE  ReservationStep
  <1>1. CASE TunDnsSet
    <2>1. cmd.pc = "setDns" /\ cmd'.pc = "idle" /\ UNCHANGED <<core, memory, boot, wd, sidecar>>
      BY <1>1, IdleType DEF TunDnsSet
    <2> QED BY <2>1, QuietStep DEF Reserving, WatchdogRuns, memory
  <1>2. CASE Prepare
    <2>1. /\ cmd.pc = "prepare" /\ wd.pc = "none" /\ ~execution /\ boot # "down"
          /\ UNCHANGED <<core, execution, boot, wd, sidecar>>
      BY <1>2, EmptyMemory DEF Prepare, IInv, Control, Starting, Idle, memory
    <2>2. \/ cmd'.pc \in {"idle", "stopDns"}
          \/ cmd'.pc = "spawn" /\ sidecar # "running"
      <3>1. "Starting" \in LifecycleStates
        BY DEF LifecycleStates
      <3> QED BY <1>2, <3>1, IdleType, StartRejectedEffect, CommandMoves
          DEF Prepare, IInv, TypeOK, CmdStates
    <2>3. CASE cmd'.pc \in {"idle", "stopDns"}
      BY <2>1, <2>3, QuietStep DEF Reserving, WatchdogRuns
    <2>4. CASE cmd'.pc = "spawn" /\ sidecar # "running"
      <3>1. Holder = "nobody" /\ Holder' = "service" /\ Responsible' = Responsible
        BY <2>1, <2>4 DEF Holder, Responsible, Owned, ServiceReserves, WatchdogRuns
      <3> QED BY <3>1, Acquires
    <2> QED BY <2>2, <2>3, <2>4
  <1>3. CASE StartSpawn
    <2>1. /\ cmd.pc = "spawn" /\ wd = NoWatchdog /\ ~execution /\ boot # "down"
          /\ sidecar # "running" /\ UNCHANGED <<execution, boot, wd, sidecar>>
      <3>1. cmd.pc = "spawn" /\ UNCHANGED <<memory, boot, wd, sidecar>>
        BY <1>3 DEF StartSpawn
      <3>2. wd = NoWatchdog /\ ~execution /\ boot # "down" /\ sidecar # "running"
        BY <3>1 DEF IInv, Control, Starting, Idle, ServiceReserves
      <3> QED BY <3>1, <3>2 DEF memory
    <2>2. wd.pc = "none" /\ Owned = {}
      <3>1. wd.pc = "none" /\ wd.child = NoCore
        BY <2>1, EmptyMemory
      <3>2. failedChild \notin Cores /\ cmd.child \notin Cores
        BY <2>1, CoresAssumption DEF IInv, Control, Starting
      <3> QED BY <2>1, <3>1, <3>2, CoresAssumption DEF IInv, Tracked, EveryCoreTracked, Owned
    <2>3. Holder = "service" /\ Responsible = {}
      BY <2>1, <2>2 DEF Holder, Responsible, ServiceReserves
    <2>4. CASE \E c \in Cores : /\ Fresh(c)
                                /\ core' = Spawned(c)
                                /\ cmd' = [cmd EXCEPT !.pc = "awaitIpc", !.child = c]
                                /\ UNCHANGED <<lifecycle, dnsQueue>>
      <3>1. PICK c \in Cores : /\ core' = Spawned(c)
                               /\ cmd' = [cmd EXCEPT !.pc = "awaitIpc", !.child = c]
        BY <2>4
      <3>2. cmd'.pc = "awaitIpc"
        BY <3>1 DEF IInv, TypeOK, Commands
      <3>3. Owned' = {c}
        BY <2>2, <3>1 DEF Owned, Spawned, IInv, TypeOK
      <3>4. Holder' = "service" /\ Responsible' = {c}
        BY <2>1, <3>2, <3>3 DEF Holder, Responsible, ServiceReserves
      <3> QED BY <2>3, <3>4, Spawns
    <2>5. CASE UNCHANGED core /\ cmd'.pc \in {"idle", "stopDns"}
      <3>1. Holder' = "nobody" /\ Responsible' = {}
        BY <2>1, <2>2, <2>5 DEF Holder, Responsible, ServiceReserves, WatchdogRuns, Owned
      <3> QED BY <2>3, <3>1, Releases
    <2>6. CASE StartRejected(lifecycle) /\ UNCHANGED core
      BY <2>5, <2>6, StartRejectedEffect DEF IInv, TypeOK
    <2> QED BY <1>3, <2>4, <2>5, <2>6, IdleType DEF StartSpawn
  <1>4. CASE StartAwaitIpc
    <2>1. CASE /\ cmd' = [cmd EXCEPT !.pc = "record"]
               /\ UNCHANGED <<core, record, memory, lifecycle, dnsQueue>>
      <3>1. cmd'.pc = "record"
        BY <2>1, CommandMoves DEF IInv, TypeOK, CmdStates
      <3> QED BY <1>4, <2>1, <3>1, QuietStep DEF StartAwaitIpc, Reserving, WatchdogRuns, memory
    <2>2. CASE \E confirmed \in KillOutcomes(cmd.child) : StartAbandoned(cmd.child, confirmed)
      BY <1>4, <2>2, AbandonedStartReserves DEF StartAwaitIpc
    <2> QED BY <1>4, <2>1, <2>2 DEF StartAwaitIpc
  <1>5. CASE StartRecord
    <2>1. CASE /\ wd' = [NoWatchdog EXCEPT !.pc = "wait", !.child = cmd.child, !.config = cmd.config]
               /\ cmd' = [cmd EXCEPT !.pc = "publish", !.child = NoCore]
               /\ UNCHANGED <<core, execution>>
      <3>1. cmd'.pc = "publish" /\ cmd.pc = "record" /\ UNCHANGED <<boot, sidecar>>
        BY <1>5, <2>1 DEF StartRecord, IInv, TypeOK, Commands
      <3>2. ServiceReserves /\ ServiceReserves'
        BY <3>1 DEF ServiceReserves
      <3>3. Holder' = Holder /\ Responsible' = Responsible
        BY <2>1, <3>1, <3>2 DEF Holder, Responsible, Owned
      <3> QED BY <3>3, Stutters
    <2>2. CASE /\ \E confirmed \in KillOutcomes(cmd.child) : StartAbandoned(cmd.child, confirmed)
               /\ UNCHANGED wd
      BY <1>5, <2>2, AbandonedStartReserves DEF StartRecord
    <2> QED BY <1>5, <2>1, <2>2 DEF StartRecord
  <1>6. CASE StartPublish
    <2>1. cmd.pc = "publish" /\ execution' /\ UNCHANGED <<core, boot, sidecar>>
      BY <1>6 DEF StartPublish
    <2>2. ServiceReserves /\ ServiceReserves'
      BY <2>1 DEF ServiceReserves
    <2>3. Holder' = Holder /\ Responsible' = Responsible
      BY <2>1, <2>2 DEF Holder, Responsible, Owned
    <2> QED BY <2>3, Stutters
  <1>7. CASE StartDns
    <2>1. cmd.pc = "startDns" /\ UNCHANGED <<core, memory, boot, wd, sidecar>>
      BY <1>7 DEF StartDns
    <2>2. cmd'.pc \in {"idle", "stopDns"}
      <3>1. cmd.origin \in {"none", "stop", "takeover", "restore"}
        BY DEF IInv, TypeOK, Commands
      <3> QED BY <1>7, <3>1, IdleType, BeginStopEffect DEF StartDns, IInv, TypeOK
    <2> QED BY <2>1, <2>2, QuietStep DEF Reserving, WatchdogRuns, memory
  <1>8. CASE StopDns
    <2>1. cmd.pc = "stopDns" /\ UNCHANGED <<core, memory, boot, sidecar>>
      BY <1>8 DEF StopDns
    <2>2. cmd'.pc \in {"idle", "stopDns", "stopJoin"}
      BY <1>8, StopFailedEffect, CommandMoves DEF StopDns, IInv, TypeOK, CmdStates
    <2>3. wd'.pc = wd.pc
      BY <1>8 DEF StopDns, Notified, IInv, TypeOK, Watchdogs
    <2> QED BY <2>1, <2>2, <2>3, QuietStep DEF Reserving, WatchdogRuns, memory
  <1>9. CASE StopJoin
    <2>1. /\ cmd.pc = "stopJoin" /\ ~WatchdogRuns /\ wd' = NoWatchdog /\ wd'.pc = "none"
          /\ UNCHANGED <<execution, boot, sidecar>>
      BY <1>9, EmptyMemory DEF StopJoin
    <2>2. /\ cmd'.pc \in {"idle", "stopDns", "stopForget"}
          /\ core' = core \/ \E c \in Cores : core' = Gone(c)
      <3>1. CASE /\ failedChild = NoCore
                 /\ cmd' = [cmd EXCEPT !.pc = "stopForget"]
                 /\ UNCHANGED core
        BY <3>1, CommandMoves DEF IInv, TypeOK, CmdStates
      <3>2. ASSUME failedChild # NoCore, NEW confirmed \in KillOutcomes(failedChild),
                   core' = AfterKill(failedChild, confirmed),
                   IF confirmed
                   THEN /\ failedChild' = NoCore
                        /\ cmd' = [cmd EXCEPT !.pc = "stopForget"]
                        /\ UNCHANGED <<lifecycle, dnsQueue>>
                   ELSE StopFailed /\ UNCHANGED failedChild
            PROVE  /\ cmd'.pc \in {"idle", "stopDns", "stopForget"}
                   /\ core' = core \/ \E c \in Cores : core' = Gone(c)
        <4>1. failedChild \in Cores
          BY <3>2 DEF IInv, TypeOK
        <4>2. CASE confirmed
          BY <3>2, <4>1, <4>2, CommandMoves DEF AfterKill, IInv, TypeOK, CmdStates
        <4>3. CASE ~confirmed
          BY <3>2, <4>3, StopFailedEffect DEF AfterKill, IInv, TypeOK
        <4> QED BY <4>2, <4>3
      <3> QED BY <1>9, <3>1, <3>2 DEF StopJoin
    <2>3. ServiceReserves' <=> ServiceReserves
      BY <2>1, <2>2 DEF ServiceReserves, WatchdogRuns
    <2>4. Holder' = Holder
      BY <2>1, <2>3 DEF Holder
    <2>5. CASE core' = core
      BY <2>1, <2>4, <2>5, Stutters DEF Responsible, Owned
    <2>6. ASSUME NEW c \in Cores, core' = Gone(c) PROVE ReservationStep
      <3>1. Owned' = Owned \ {c}
        BY <2>6 DEF Owned, Gone, IInv, TypeOK
      <3>2. Responsible' = Responsible \ {c}
        BY <2>1, <3>1 DEF Responsible
      <3> QED BY <2>4, <3>2, Retires
    <2> QED BY <2>2, <2>5, <2>6
  <1>10. CASE StopForget
    <2>1. cmd.pc = "stopForget" /\ cmd'.pc = "stopRelease" /\ UNCHANGED <<core, execution, boot, wd, sidecar>>
      BY <1>10, CommandMoves DEF StopForget, IInv, TypeOK, CmdStates
    <2> QED BY <2>1, QuietStep DEF Reserving, WatchdogRuns
  <1>11. CASE StopRelease
    <2>1. /\ cmd.pc = "stopRelease" /\ execution' = FALSE /\ UNCHANGED <<core, boot, wd, sidecar>>
          /\ wd = NoWatchdog /\ failedChild = NoCore /\ cmd.child \notin Cores /\ boot # "down"
      BY <1>11 DEF StopRelease, IInv, Control, Idle
    <2>2. wd.pc = "none" /\ wd.child = NoCore /\ ~execution'
      BY <2>1, EmptyMemory
    <2>3. Owned = {}
      BY <2>1, <2>2, CoresAssumption DEF IInv, Tracked, EveryCoreTracked, Owned
    <2>4. cmd'.pc \in {"idle", "prepare", "stopDns"}
      <3>1. "Running" \in LifecycleStates
        BY DEF LifecycleStates
      <3> QED BY <1>11, <3>1, IdleType, CommandMoves, StartRejectedEffect
          DEF StopRelease, IInv, TypeOK, CmdStates
    <2>5. Responsible = {} /\ Responsible' = {}
      BY <2>1, <2>3 DEF Responsible, Owned
    <2>6. CASE execution
      <3>1. sidecar # "running"
        BY <2>6 DEF IInv, Control, ServiceReserves
      <3>2. Holder = "service" /\ Holder' = "nobody"
        BY <2>1, <2>2, <2>4, <2>6, <3>1 DEF Holder, ServiceReserves, WatchdogRuns
      <3> QED BY <2>5, <3>2, Releases
    <2>7. CASE ~execution
      <3>1. Holder' = Holder
        BY <2>1, <2>2, <2>4, <2>7 DEF Holder, ServiceReserves, WatchdogRuns
      <3> QED BY <2>5, <3>1, Stutters
    <2> QED BY <2>6, <2>7
  <1> QED BY <1>1, <1>2, <1>3, <1>4, <1>5, <1>6, <1>7, <1>8, <1>9, <1>10, <1>11 DEF CommandStep

\* The watchdog runs under the reservation from its first step to its last.
LEMMA WatchdogStepReserves ==
    ASSUME IInv, WatchdogStep
    PROVE  ReservationStep
  <1>1. WatchdogRuns
    BY DEF WatchdogStep, WatchdogRuns, WdShutdown, WdExit, WdWaitError, WdExitDns, WdForget, WdBudget,
           WdBackoff, WdSpawn, WdAwaitIpc, WdRecord, WdRestartDns, WdEpilogue
  <1>2. UNCHANGED <<execution, boot, cmd, sidecar>>
    BY DEF WatchdogStep, WdShutdown, WdExit, WdWaitError, WdExitDns, WdForget, WdBudget,
           WdBackoff, WdSpawn, WdAwaitIpc, WdRecord, WdRestartDns, WdEpilogue, memory
  <1>3. CASE WdSpawn /\ core' # core
    <2>1. PICK c \in Cores : core' = Spawned(c)
      BY <1>3 DEF WdSpawn
    <2>2. Owned = {} /\ Owned' = {c}
      <3>1. Owned = {}
        BY <1>1, <1>3, WatchdogContext DEF WdSpawn, Handling, Owned
      <3> QED BY <2>1, <3>1 DEF Spawned, Owned, IInv, TypeOK
    <2> QED BY <1>1, <1>2, <2>2, WatchdogReserves, Spawns
  <1>4. CASE core' = core
    BY <1>1, <1>2, <1>4, WatchdogKeepsCores
  <1>5. CASE wd.child \in Cores /\ (core' = Gone(wd.child) \/ core' = [core EXCEPT ![wd.child] = "reaping"])
    BY <1>1, <1>2, <1>5, WatchdogKills
  <1>6. CASE ~WdSpawn
    <2>1. \/ core' = core
          \/ /\ wd.pc \in Handling
             /\ core' = Gone(wd.child) \/ core' = [core EXCEPT ![wd.child] = "reaping"]
      <3>1. CASE WdShutdown
        BY <3>1 DEF WdShutdown, AfterKill, Handling
      <3>2. CASE WdWaitError
        BY <3>2 DEF WdWaitError, Handling
      <3>3. CASE WdAwaitIpc
        BY <3>3 DEF WdAwaitIpc, AfterKill, Handling
      <3>4. CASE WdRecord
        BY <3>4 DEF WdRecord, RestartRetired, AfterKill, Handling
      <3>5. CASE WdRestartDns
        BY <3>5 DEF WdRestartDns, RestartRetired, AfterKill, Handling
      <3>6. CASE WdExit \/ WdExitDns \/ WdForget \/ WdBudget \/ WdBackoff \/ WdEpilogue
        BY <3>6 DEF WdExit, WdExitDns, WdForget, WdBudget, WdBackoff, WdEpilogue
      <3> QED BY <1>6, <3>1, <3>2, <3>3, <3>4, <3>5, <3>6 DEF WatchdogStep
    <2> QED BY <1>1, <1>4, <1>5, <2>1, WatchdogContext
  <1> QED BY <1>3, <1>4, <1>6

\* The world and the startup.
LEMMA WorldReserves ==
    ASSUME IInv,
           \/ \E c \in Cores : CoreExits(c)
           \/ Crash \/ Startup \/ SidecarInspect \/ SidecarReserve \/ SidecarExits
    PROVE  ReservationStep
  <1>1. ASSUME NEW c \in Cores, CoreExits(c) PROVE ReservationStep
    <2>1. Owned' = Owned \ {c}
      BY <1>1 DEF CoreExits, Gone, Owned, IInv, TypeOK
    <2>2. UNCHANGED <<execution, boot, cmd, wd, sidecar>>
      BY <1>1 DEF CoreExits, memory
    <2>3. Holder' = Holder /\ Responsible' = Responsible \ {c}
      BY <2>1, <2>2 DEF Holder, ServiceReserves, WatchdogRuns, Responsible
    <2> QED BY <2>3, Retires
  <1>2. CASE Crash
    <2>1. /\ boot' = "down" /\ ~execution' /\ cmd'.pc = "idle" /\ wd'.pc = "none" /\ sidecar' = sidecar
      BY <1>2, IdleType, EmptyMemory DEF Crash
    <2>2. Holder' = IF Holder = "service" THEN "nobody" ELSE Holder
      BY <2>1 DEF Holder, ServiceReserves, WatchdogRuns
    <2>3. Responsible' = {}
      BY <2>1 DEF Responsible
    <2> QED BY <2>2, <2>3
        DEF ReservationStep, Reservation!Next, Reservation!DaemonDies, Holder, Responsible
  <1>3. CASE Reconcile
    <2>1. /\ boot = "down" /\ Owned \subseteq {record}
          /\ UNCHANGED <<execution, cmd, wd, sidecar>>
      BY <1>3 DEF Reconcile, IInv, Tracked, memory
    <2>2. Owned' = {}
      <3>1. CASE record = NoCore /\ UNCHANGED core
        BY <2>1, <3>1, CoresAssumption DEF Owned
      <3>2. CASE record # NoCore /\ (core' = Gone(record) \/ core' = [core EXCEPT ![record] = "unreconciled"])
        BY <2>1, <3>2 DEF Owned, Gone, IInv, TypeOK
      <3> QED BY <1>3, <3>1, <3>2 DEF Reconcile
    <2>3. Holder' = Holder /\ Responsible' = Responsible
      BY <2>1, <2>2 DEF Holder, ServiceReserves, WatchdogRuns, Responsible
    <2> QED BY <2>3, Stutters
  <1>4. CASE Restore
    <2>1. /\ boot = "restore" /\ boot' = "up" /\ UNCHANGED <<core, execution, wd, sidecar>>
          /\ cmd.pc = "idle"
      BY <1>4, IdleType DEF Restore, IInv, Control, memory
    <2>2. cmd'.pc \in {"idle", "prepare"}
      <3>1. ASSUME NEW config \in Configs,
                   cmd' = [Idle EXCEPT !.pc = "prepare", !.origin = "restore", !.config = config]
            PROVE  cmd'.pc = "prepare"
        BY <3>1 DEF Idle
      <3> QED BY <1>4, <2>1, <3>1 DEF Restore
    <2>3. Holder' = Holder /\ Responsible' = Responsible
      BY <2>1, <2>2 DEF Holder, ServiceReserves, WatchdogRuns, Responsible, Owned
    <2> QED BY <2>3, Stutters
  <1>5. CASE SidecarInspect \/ SidecarReserve \/ SidecarExits
    <2>1. UNCHANGED <<core, execution, boot, cmd, wd>>
      BY <1>5 DEF SidecarInspect, SidecarReserve, SidecarExits, memory
    <2>2. Responsible' = Responsible /\ (ServiceReserves' <=> ServiceReserves)
      BY <2>1 DEF Responsible, Owned, ServiceReserves, WatchdogRuns
    <2>3. CASE sidecar # "running" /\ sidecar' # "running"
      <3>1. Holder' = Holder
        BY <2>2, <2>3 DEF Holder
      <3> QED BY <2>2, <3>1, Stutters
    <2>4. CASE SidecarReserve /\ sidecar' = "running"
      <3>1. Holder = "nobody" /\ Holder' = "sidecar"
        BY <2>4 DEF Holder, SidecarReserve
      <3> QED BY <2>2, <3>1, Acquires
    <2>5. CASE SidecarExits
      <3>1. Holder = "sidecar" /\ Holder' = "nobody"
        BY <2>2, <2>5 DEF Holder, SidecarExits, IInv, Control
      <3> QED BY <2>2, <3>1
          DEF ReservationStep, Reservation!Next, Reservation!SidecarGone, Holder, Responsible
    <2> QED BY <1>5, <2>3, <2>4, <2>5 DEF SidecarInspect, SidecarReserve
  <1> QED BY <1>1, <1>2, <1>3, <1>4, <1>5 DEF Startup

\* The handlers only queue work.
LEMMA HandlerReserves ==
    ASSUME IInv,
           \/ \E config \in Configs : Takeover(config)
           \/ Stop
           \/ \E on \in BOOLEAN : SetTunDns(on)
    PROVE  ReservationStep
  <1>1. cmd.pc = "idle" /\ UNCHANGED <<core, execution, boot, wd, sidecar>>
    BY IdleType DEF Takeover, Stop, SetTunDns, memory
  <1>2. cmd'.pc \in {"stopDns", "setDns"}
    <2>1. ASSUME NEW on \in BOOLEAN, SetTunDns(on) PROVE cmd'.pc = "setDns"
      BY <2>1 DEF SetTunDns, Idle
    <2>2. CASE Stop \/ \E config \in Configs : Takeover(config)
      BY <2>2 DEF Takeover, Stop, BeginStop, Idle
    <2> QED BY <2>1, <2>2
  <1> QED BY <1>1, <1>2, QuietStep DEF Reserving, WatchdogRuns

\* The manager implements the reservation, for any number of cores.
THEOREM ManagerReserves == Spec => ImplementsReservation
  <1>1. Init => Reservation!Init
    <2> SUFFICES ASSUME Init PROVE Reservation!Init
      OBVIOUS
    <2>1. sidecar = "none" /\ boot = "down" /\ ~execution /\ cmd.pc = "idle" /\ wd.pc = "none"
      BY IdleType, EmptyMemory DEF Init
    <2> QED BY <2>1 DEF Reservation!Init, ServiceReserves, WatchdogRuns
  <1>2. ASSUME IInv, [Next]_vars PROVE [Reservation!Next]_(Reservation!reservation)
    <2>1. CASE ServeDns \/ UNCHANGED vars
      <3>1. UNCHANGED <<core, execution, boot, cmd, wd, sidecar>>
        BY <2>1 DEF ServeDns, vars, memory
      <3> QED BY <3>1, QuietStep DEF ReservationStep, WatchdogRuns
    <2> QED BY <1>2, <2>1, CommandReserves, WatchdogStepReserves, WorldReserves, HandlerReserves
        DEF Next, ReservationStep
  <1> QED BY <1>1, <1>2, Invariance, PTL DEF Spec, ImplementsReservation, Reservation!Spec

-----------------------------------------------------------------------------
(* The runtime record *)

\* A core the watchdog waits for, or is about to, is the one the record names.
Recorded == wd.pc \in {"wait", "restartDns"} => record = wd.child

\* A command changes the record only while there is no watchdog, except when it
\* hands the recorded core to a new one.
LEMMA CommandRecorded ==
    ASSUME IInv, Recorded, CommandStep
    PROVE  Recorded'
  <1>1. CASE StartRecord
    <2>1. CASE /\ RecordWritten(cmd.child)
               /\ wd' = [NoWatchdog EXCEPT !.pc = "wait", !.child = cmd.child, !.config = cmd.config]
      <3>1. record' = cmd.child /\ wd'.child = cmd.child
        BY <2>1 DEF RecordWritten, NoWatchdog
      <3> QED BY <3>1 DEF Recorded
    <2>2. CASE UNCHANGED wd
      <3>1. wd'.pc = "none"
        BY <1>1, <2>2, EmptyMemory DEF StartRecord, IInv, Control, Starting
      <3> QED BY <3>1 DEF Recorded
    <2> QED BY <1>1, <2>1, <2>2 DEF StartRecord
  <1>2. CASE StopForget \/ StartAwaitIpc \/ StopJoin
    <2>1. wd' = NoWatchdog
      BY <1>2 DEF StopForget, StartAwaitIpc, StopJoin, IInv, Control, Starting
    <2>2. wd'.pc = "none"
      BY <2>1, EmptyMemory
    <2> QED BY <2>2 DEF Recorded
  <1>3. CASE StopDns
    <2>1. wd'.pc = wd.pc /\ wd'.child = wd.child /\ record' = record
      BY <1>3 DEF StopDns, Notified, IInv, TypeOK, Watchdogs
    <2> QED BY <2>1 DEF Recorded
  <1>4. CASE TunDnsSet \/ Prepare \/ StartSpawn \/ StartPublish \/ StartDns \/ StopRelease
    <2>1. UNCHANGED <<record, wd>>
      BY <1>4 DEF TunDnsSet, Prepare, StartSpawn, StartPublish, StartDns, StopRelease
    <2> QED BY <2>1 DEF Recorded
  <1> QED BY <1>1, <1>2, <1>3, <1>4 DEF CommandStep

LEMMA WatchdogRecorded ==
    ASSUME IInv, Recorded, WatchdogStep
    PROVE  Recorded'
  <1> USE DEF IInv, TypeOK
  <1>1. CASE WdRecord
    <2>1. CASE RestartRetired
      <3>1. wd'.pc \in {"epilogue", "doneErr"}
        BY <1>1, <2>1, RestartRetiredEffect DEF WdRecord, Control
      <3> QED BY <3>1 DEF Recorded
    <2>2. CASE RecordWritten(wd.child) /\ wd' = [wd EXCEPT !.pc = "restartDns"]
      <3>1. record' = wd.child /\ wd'.child = wd.child
        BY <2>2, WatchdogMoves DEF RecordWritten, WdStates
      <3> QED BY <3>1 DEF Recorded
    <2> QED BY <1>1, <2>1, <2>2 DEF WdRecord
  <1>2. CASE WdRestartDns
    <2>1. wd.pc = "restartDns" /\ record' = record /\ wd.child \in Cores
      BY <1>2 DEF WdRestartDns, Control
    <2>2. CASE RestartRetired
      <3>1. wd'.pc \in {"epilogue", "doneErr"}
        BY <2>1, <2>2, RestartRetiredEffect
      <3> QED BY <3>1 DEF Recorded
    <2>3. CASE wd' = [wd EXCEPT !.pc = "wait", !.retried = TRUE]
      <3>1. wd'.child = wd.child
        BY <2>3 DEF Watchdogs
      <3> QED BY <2>1, <3>1 DEF Recorded
    <2> QED BY <1>2, <2>2, <2>3 DEF WdRestartDns
  <1>3. CASE WdShutdown \/ WdWaitError \/ WdEpilogue
    <2>1. wd'.pc \in {"epilogue", "doneErr", "doneOk"}
      BY <1>3 DEF WdShutdown, WdWaitError, WdEpilogue, WatchdogAbandons, WatchdogEnds, Watchdogs
    <2> QED BY <2>1 DEF Recorded
  <1>4. CASE WdExit \/ WdExitDns
    <2>1. wd'.pc \in {"exitDns", "forget"}
      BY <1>4, WatchdogMoves DEF WdExit, WdExitDns, WdStates
    <2> QED BY <2>1 DEF Recorded
  <1>5. CASE WdForget
    <2>1. wd'.pc = "budget"
      BY <1>5 DEF WdForget, Watchdogs
    <2> QED BY <2>1 DEF Recorded
  <1>6. CASE WdBudget
    <2>1. wd'.pc \in {"epilogue", "backoff", "spawn"}
      BY <1>6 DEF WdBudget, Watchdogs
    <2> QED BY <2>1 DEF Recorded
  <1>7. CASE WdBackoff
    <2>1. wd'.pc \in {"epilogue", "spawn"}
      BY <1>7 DEF WdBackoff, Watchdogs
    <2> QED BY <2>1 DEF Recorded
  <1>8. CASE WdSpawn \/ WdAwaitIpc
    <2>1. CASE AttemptFailed
      <3>1. wd'.pc = "budget"
        BY <2>1 DEF AttemptFailed, Watchdogs
      <3> QED BY <3>1 DEF Recorded
    <2>2. CASE \E c \in Cores : wd' = [wd EXCEPT !.pc = "awaitIpc", !.child = c]
      <3>1. wd'.pc = "awaitIpc"
        BY <2>2 DEF Watchdogs
      <3> QED BY <3>1 DEF Recorded
    <2>3. CASE wd' = [wd EXCEPT !.pc = "record"]
      <3>1. wd'.pc = "record"
        BY <2>3 DEF Watchdogs
      <3> QED BY <3>1 DEF Recorded
    <2>4. CASE WatchdogAbandons(wd.child)
      BY <2>4, WatchdogAbandonsEffect DEF Recorded
    <2> QED BY <1>8, <2>1, <2>2, <2>3, <2>4 DEF WdSpawn, WdAwaitIpc
  <1> QED BY <1>1, <1>2, <1>3, <1>4, <1>5, <1>6, <1>7, <1>8 DEF WatchdogStep

LEMMA NextRecorded == IInv /\ Recorded /\ [Next]_vars => Recorded'
  <1> SUFFICES ASSUME IInv, Recorded, [Next]_vars PROVE Recorded'
    OBVIOUS
  <1>1. CASE Crash
    <2>1. wd'.pc = "none"
      BY <1>1, EmptyMemory DEF Crash
    <2> QED BY <2>1 DEF Recorded
  <1>2. CASE Reconcile
    <2>1. wd'.pc = "none"
      BY <1>2, EmptyMemory DEF Reconcile, IInv, Control
    <2> QED BY <2>1 DEF Recorded
  <1>3. CASE UNCHANGED <<record, wd>>
    BY <1>3 DEF Recorded
  <1>4. ASSUME NEW config \in Configs, Takeover(config) PROVE UNCHANGED <<record, wd>>
    BY <1>4 DEF Takeover
  <1>5. ASSUME NEW on \in BOOLEAN, SetTunDns(on) PROVE UNCHANGED <<record, wd>>
    BY <1>5 DEF SetTunDns
  <1>6. ASSUME NEW c \in Cores, CoreExits(c) PROVE UNCHANGED <<record, wd>>
    BY <1>6 DEF CoreExits
  <1>7. Stop \/ ServeDns \/ Restore \/ SidecarInspect \/ SidecarReserve \/ SidecarExits
          \/ UNCHANGED vars => UNCHANGED <<record, wd>>
    BY DEF Stop, ServeDns, Restore, SidecarInspect, SidecarReserve, SidecarExits, vars
  <1> QED BY <1>1, <1>2, <1>3, <1>4, <1>5, <1>6, <1>7, CommandRecorded, WatchdogRecorded DEF Next, Startup

\* A crash can lose only a core that was being started or whose start had failed.
THEOREM CoresAreRecorded == Spec => []CoreRecorded
  <1>1. Init => Recorded
    BY EmptyMemory DEF Init, Recorded
  <1>2. ASSUME IInv, Recorded PROVE CoreRecorded
    <2> SUFFICES ASSUME boot # "down", NEW c \in Owned
                 PROVE  \/ record = c
                        \/ c = failedChild
                        \/ c = cmd.child /\ cmd.pc \in {"awaitIpc", "record"}
                        \/ c = wd.child /\ wd.pc \in {"awaitIpc", "record"}
      BY DEF CoreRecorded
    <2>1. c \in Cores /\ core[c] = "owned" /\ c \in {cmd.child, wd.child, failedChild}
      BY <1>2 DEF IInv, Tracked, EveryCoreTracked, Owned
    <2>2. CASE c = cmd.child
      BY <1>2, <2>1, <2>2 DEF IInv, Control
    <2>3. CASE c = wd.child
      <3>1. wd.pc \in {"wait", "awaitIpc", "record", "restartDns"}
        BY <1>2, <2>1, <2>3 DEF IInv, Control, Tracked
      <3> QED BY <1>2, <2>3, <3>1 DEF Recorded
    <2> QED BY <2>1, <2>2, <2>3
  <1> QED BY <1>1, <1>2, NextRecorded, Invariance, PTL DEF Spec

-----------------------------------------------------------------------------
(* The temporary resolver *)

Stopping == {"stopDns", "stopJoin", "stopForget", "stopRelease"}

\* What the resolver will be once the worker has served every request.
LastOn == IF dnsQueue = <<>> THEN dns ELSE dnsQueue[Len(dnsQueue)].on

\* An enable that nobody has undone yet has somebody who will: the watchdog, whose
\* RetirementGuard queues a release when the task ends, or the next stop, which
\* the published pid still calls for.  A stop that is under way has queued its own
\* release, so only a watchdog that still runs can have queued an enable behind it.
Released ==
    /\ LastOn => wd.pc # "none" \/ runningPid # NoCore
    /\ LastOn /\ cmd.pc \in Stopping => WatchdogRuns
    /\ cmd.pc \in {"publish", "startDns"} => wd.pc # "none"

\* The last request decides.
LEMMA AskedLast ==
    ASSUME dnsQueue \in Seq(Requests),
           NEW on \in BOOLEAN, NEW from \in {"cmd", "wd", "retirement"},
           dnsQueue' = Asked(on, from)
    PROVE  LastOn' <=> on
  <1> DEFINE request == [on |-> on, from |-> from]
  <1>1. request \in Requests /\ request.on = on
    BY DEF Requests
  <1>2. dnsQueue' = Append(dnsQueue, request)
    BY DEF Asked
  <1> HIDE DEF request
  <1>3. /\ dnsQueue' # <<>>
        /\ dnsQueue'[Len(dnsQueue')] = request
    BY <1>1, <1>2
  <1> QED BY <1>1, <1>3 DEF LastOn

\* Taking the first of several requests keeps the last one.
LEMMA TailKeepsLast ==
    ASSUME NEW S, NEW q \in Seq(S), q # <<>>
    PROVE  \/ Tail(q) = <<>> /\ Head(q) = q[Len(q)]
           \/ Tail(q) # <<>> /\ Tail(q)[Len(Tail(q))] = q[Len(q)]
  <1>1. Len(q) \in Nat \ {0}
    BY EmptySeq
  <1>2. /\ Tail(q) \in Seq(S) /\ Len(Tail(q)) = Len(q) - 1
        /\ \A i \in 1 .. Len(Tail(q)) : Tail(q)[i] = q[i + 1]
    BY HeadTailProperties
  <1>3. CASE Tail(q) = <<>>
    <2>1. Len(Tail(q)) = 0
      BY <1>3, EmptySeq, Zenon
    <2>2. PICK length, rest : length = Len(q) /\ rest = Len(Tail(q))
      OBVIOUS
    <2>3. length \in Nat /\ rest = length - 1 /\ rest = 0
      BY <1>1, <1>2, <2>1, <2>2, Zenon
    <2>4. length = 1
      BY <2>3
    <2>5. Len(q) = 1
      BY <2>2, <2>4, Zenon
    <2> QED BY <1>3, <2>5
  <1>4. CASE Tail(q) # <<>>
    <2>1. Len(Tail(q)) \in Nat \ {0}
      BY <1>2, <1>4, EmptySeq
    <2>2. Len(Tail(q)) \in 1 .. Len(Tail(q)) /\ Len(Tail(q)) + 1 = Len(q)
      BY <1>1, <1>2, <2>1
    <2> QED BY <1>2, <1>4, <2>2
  <1> QED BY <1>3, <1>4

\* With a resolver that obeys, serving a request changes nothing about the last one.
LEMMA ServedLast ==
    ASSUME ~DnsCanFail, TypeOK, ServeDns, LastOn'
    PROVE  LastOn
  <1>1. /\ dnsQueue \in Seq(Requests) /\ dnsQueue # <<>>
        /\ dnsQueue' = Tail(dnsQueue) /\ dns' = Head(dnsQueue).on
    BY DEF TypeOK, ServeDns
  <1>2. \/ dnsQueue' = <<>> /\ dns' = dnsQueue[Len(dnsQueue)].on
        \/ dnsQueue' # <<>> /\ dnsQueue'[Len(dnsQueue')] = dnsQueue[Len(dnsQueue)]
    BY <1>1, TailKeepsLast
  <1> QED BY <1>1, <1>2 DEF LastOn

\* A stop begins with a release behind everything queued so far.
LEMMA BeginStopReleases ==
    ASSUME dnsQueue \in Seq(Requests), NEW origin, NEW after, NEW config,
           BeginStop(origin, after, config)
    PROVE  ~LastOn' /\ cmd'.pc = "stopDns"
  BY AskedLast DEF BeginStop, Idle

LEMMA StartRejectedReleases ==
    ASSUME dnsQueue \in Seq(Requests), NEW life, StartRejected(life), dns' = dns
    PROVE  /\ cmd'.pc \in {"idle", "stopDns"}
           /\ LastOn' => LastOn /\ cmd'.pc = "idle"
  <1>1. CASE cmd.origin = "restore"
    BY <1>1 DEF StartRejected, Idle, LastOn
  <1>2. CASE cmd.origin # "restore"
    <2>1. BeginStop("stop", "done", NoConfig)
      BY <1>2 DEF StartRejected
    <2> QED BY <2>1, BeginStopReleases
  <1> QED BY <1>1, <1>2

LEMMA StopFailedReleases ==
    ASSUME dnsQueue \in Seq(Requests), StopFailed, dns' = dns
    PROVE  /\ cmd'.pc \in {"idle", "stopDns"}
           /\ LastOn' => LastOn /\ cmd'.pc = "idle"
  <1>1. CASE cmd.after = "fail"
    BY <1>1, StartRejectedReleases DEF StopFailed
  <1>2. CASE cmd.after # "fail"
    BY <1>2 DEF StopFailed, Idle, LastOn
  <1> QED BY <1>1, <1>2

\* Without a watchdog and a pid nobody has an enable to undo, and a start, which
\* has neither before it publishes its core, adds none.
LEMMA StartReleased ==
    ASSUME IInv, Released, Prepare \/ StartSpawn \/ StartAwaitIpc \/ StartRecord
    PROVE  Released'
  <1> USE DEF IInv, TypeOK
  <1>1. cmd.pc \in Starting /\ dns' = dns /\ cmd \in Commands
    BY DEF Prepare, StartSpawn, StartAwaitIpc, StartRecord, Starting
  <1>2. ~LastOn
    <2>1. wd.pc = "none" /\ runningPid = NoCore
      BY <1>1, EmptyMemory DEF Control
    <2> QED BY <2>1 DEF Released
  <1>3. CASE cmd'.pc \in {"idle", "stopDns"} /\ (LastOn' => LastOn)
    BY <1>2, <1>3 DEF Released
  <1>4. CASE dnsQueue' = dnsQueue /\ cmd'.pc \in {"idle", "spawn", "awaitIpc", "record"}
    <2>1. ~LastOn'
      BY <1>1, <1>2, <1>4 DEF LastOn
    <2> QED BY <1>4, <2>1 DEF Released
  <1>5. CASE StartRecord /\ RecordWritten(cmd.child) /\ dnsQueue' = dnsQueue
             /\ cmd' = [cmd EXCEPT !.pc = "publish", !.child = NoCore]
             /\ wd' = [NoWatchdog EXCEPT !.pc = "wait", !.child = cmd.child, !.config = cmd.config]
    <2>1. ~LastOn' /\ cmd'.pc = "publish" /\ wd'.pc = "wait"
      BY <1>1, <1>2, <1>5 DEF LastOn, Commands, NoWatchdog
    <2> QED BY <2>1 DEF Released, Stopping
  <1>6. ASSUME NEW life, StartRejected(life)
        PROVE  cmd'.pc \in {"idle", "stopDns"} /\ (LastOn' => LastOn)
    BY <1>1, <1>6, StartRejectedReleases
  <1>7. ASSUME NEW c, NEW confirmed, StartAbandoned(c, confirmed)
        PROVE  cmd'.pc \in {"idle", "stopDns"} /\ (LastOn' => LastOn)
    BY <1>6, <1>7 DEF StartAbandoned
  <1>8. CASE Prepare
    <2>1. CASE cmd' = Idle /\ UNCHANGED dnsQueue
      BY <1>4, <2>1 DEF Idle
    <2>2. CASE cmd' = [cmd EXCEPT !.pc = "spawn"] /\ UNCHANGED dnsQueue
      <3>1. cmd'.pc = "spawn"
        BY <1>1, <2>2 DEF Commands
      <3> QED BY <1>4, <2>2, <3>1
    <2>3. CASE \E life : StartRejected(life)
      BY <1>3, <1>6, <2>3
    <2> QED BY <1>8, <2>1, <2>2, <2>3 DEF Prepare
  <1>9. CASE StartSpawn
    <2>1. CASE cmd' = Idle /\ UNCHANGED dnsQueue
      BY <1>4, <2>1 DEF Idle
    <2>2. CASE (\E c \in Cores : cmd' = [cmd EXCEPT !.pc = "awaitIpc", !.child = c]) /\ UNCHANGED dnsQueue
      <3>1. cmd'.pc = "awaitIpc"
        BY <1>1, <2>2 DEF Commands
      <3> QED BY <1>4, <2>2, <3>1
    <2>3. CASE StartRejected(lifecycle)
      BY <1>3, <1>6, <2>3
    <2> QED BY <1>9, <2>1, <2>2, <2>3 DEF StartSpawn
  <1>10. CASE StartAwaitIpc
    <2>1. CASE cmd' = [cmd EXCEPT !.pc = "record"] /\ UNCHANGED dnsQueue
      <3>1. cmd'.pc = "record"
        BY <1>1, <2>1 DEF Commands
      <3> QED BY <1>4, <2>1, <3>1
    <2>2. CASE \E confirmed \in KillOutcomes(cmd.child) : StartAbandoned(cmd.child, confirmed)
      BY <1>3, <1>7, <2>2
    <2> QED BY <1>10, <2>1, <2>2 DEF StartAwaitIpc
  <1>11. CASE StartRecord
    <2>1. CASE \E confirmed \in KillOutcomes(cmd.child) : StartAbandoned(cmd.child, confirmed)
      BY <1>3, <1>7, <2>1
    <2> QED BY <1>5, <1>11, <2>1 DEF StartRecord
  <1> QED BY <1>8, <1>9, <1>10, <1>11

\* A published core has its watchdog; a stop goes on only behind its own release.
LEMMA CommandReleased ==
    ASSUME IInv, Released, CommandStep
    PROVE  Released'
  <1> USE DEF IInv, TypeOK
  <1>1. CASE TunDnsSet
    <2>1. LastOn' = LastOn /\ UNCHANGED <<wd, runningPid>> /\ cmd'.pc = "idle"
      BY <1>1 DEF TunDnsSet, Idle, LastOn, memory
    <2> QED BY <2>1 DEF Released, Stopping
  <1>2. CASE StartPublish
    <2>1. wd' = wd /\ wd.pc # "none"
      BY <1>2 DEF StartPublish, Released
    <2>2. CASE BeginStop(cmd.origin, "fail", NoConfig)
      BY <2>1, <2>2, BeginStopReleases DEF Released
    <2>3. CASE cmd' = [cmd EXCEPT !.pc = "startDns"]
      <3>1. cmd'.pc = "startDns"
        BY <2>3 DEF Commands
      <3> QED BY <2>1, <3>1 DEF Released, Stopping
    <2> QED BY <1>2, <2>2, <2>3 DEF StartPublish
  <1>3. CASE StartDns
    <2>1. wd' = wd /\ wd.pc # "none"
      BY <1>3 DEF StartDns, Released
    <2>2. CASE BeginStop(cmd.origin, "fail", NoConfig)
      BY <2>1, <2>2, BeginStopReleases DEF Released
    <2>3. CASE cmd' = Idle
      BY <2>1, <2>3 DEF Released, Stopping, Idle
    <2> QED BY <1>3, <2>2, <2>3 DEF StartDns
  <1>4. CASE StopDns
    <2>1. dns' = dns /\ runningPid' = runningPid /\ cmd.pc \in Stopping
      BY <1>4 DEF StopDns, memory, Stopping
    <2>2. CASE StopFailed /\ UNCHANGED wd
      <3>1. cmd'.pc \in {"idle", "stopDns"} /\ (LastOn' => LastOn /\ cmd'.pc = "idle")
        BY <2>1, <2>2, StopFailedReleases
      <3> QED BY <2>1, <2>2, <3>1 DEF Released, Stopping
    <2>3. CASE /\ wd' = Notified /\ cmd' = [cmd EXCEPT !.pc = "stopJoin"]
               /\ UNCHANGED dnsQueue
      <3>1. cmd'.pc = "stopJoin" /\ wd'.pc = wd.pc /\ LastOn' = LastOn
        BY <2>1, <2>3 DEF Notified, Commands, Watchdogs, LastOn
      <3> QED BY <2>1, <3>1 DEF Released, Stopping, WatchdogRuns
    <2> QED BY <1>4, <2>2, <2>3 DEF StopDns
  <1>5. CASE StopJoin \/ StopForget \/ StopRelease
    <2>1. dns' = dns /\ cmd.pc \in Stopping /\ ~WatchdogRuns
      <3>1. CASE StopJoin
        BY <3>1 DEF StopJoin, Stopping
      <3>2. CASE StopForget \/ StopRelease
        <4>1. wd.pc = "none"
          BY <3>2, EmptyMemory DEF StopForget, StopRelease, Control
        <4> QED BY <3>2, <4>1 DEF StopForget, StopRelease, Stopping, WatchdogRuns, dnsVars
      <3> QED BY <1>5, <3>1, <3>2
    <2>2. ~LastOn
      BY <2>1 DEF Released
    <2>3. CASE cmd'.pc \in {"idle", "stopDns"} /\ (LastOn' => LastOn)
      BY <2>2, <2>3 DEF Released
    <2>4. CASE dnsQueue' = dnsQueue /\ \E pc \in {"stopForget", "stopRelease", "prepare"} :
                                         cmd' = [cmd EXCEPT !.pc = pc]
      <3>1. cmd'.pc \in {"stopForget", "stopRelease", "prepare"}
        BY <2>4 DEF Commands
      <3>2. ~LastOn'
        BY <2>1, <2>2, <2>4 DEF LastOn
      <3> QED BY <3>1, <3>2 DEF Released
    <2>5. CASE cmd' = Idle /\ dnsQueue' = dnsQueue
      BY <2>1, <2>3, <2>5 DEF Idle, LastOn
    <2>6. CASE StopFailed \/ \E life : StartRejected(life)
      BY <2>1, <2>3, <2>6, StopFailedReleases, StartRejectedReleases
    <2>7. CASE StopJoin
      BY <2>4, <2>6, <2>7 DEF StopJoin
    <2>8. CASE StopForget
      BY <2>4, <2>8 DEF StopForget, dnsVars
    <2>9. CASE StopRelease
      BY <2>4, <2>5, <2>6, <2>9 DEF StopRelease
    <2> QED BY <1>5, <2>7, <2>8, <2>9
  <1> QED BY <1>1, <1>2, <1>3, <1>4, <1>5, StartReleased DEF CommandStep

\* The watchdog ends only through its RetirementGuard, which queues a release.
LEMMA WatchdogReleased ==
    ASSUME IInv, Released, WatchdogStep
    PROVE  Released'
  <1> USE DEF IInv, TypeOK
  <1>1. cmd' = cmd
    BY DEF WatchdogStep, WdShutdown, WdExit, WdWaitError, WdExitDns, WdForget, WdBudget,
           WdBackoff, WdSpawn, WdAwaitIpc, WdRecord, WdRestartDns, WdEpilogue
  <1>2. CASE wd'.pc \notin {"none", "doneOk", "doneErr"}
    BY <1>1, <1>2 DEF Released, WatchdogRuns
  <1>3. CASE wd'.pc # "none" /\ ~LastOn'
    BY <1>1, <1>3 DEF Released
  <1>4. ASSUME NEW pc \in {"doneOk", "doneErr"}, WatchdogEnds(pc)
        PROVE  wd'.pc # "none" /\ ~LastOn'
    BY <1>4, WatchdogEndsEffect, AskedLast DEF WatchdogEnds
  <1>5. ASSUME NEW c, WatchdogAbandons(c) PROVE wd'.pc # "none" /\ ~LastOn'
    BY <1>4, <1>5 DEF WatchdogAbandons
  <1>6. CASE RestartRetired
    <2>1. CASE wd' = [wd EXCEPT !.pc = "epilogue", !.child = NoCore, !.exhausted = TRUE]
      <3>1. wd'.pc = "epilogue"
        BY <2>1 DEF Watchdogs
      <3> QED BY <1>2, <3>1
    <2>2. CASE WatchdogAbandons(wd.child)
      BY <1>3, <1>5, <2>2
    <2> QED BY <1>6, <2>1, <2>2 DEF RestartRetired
  <1>7. CASE AttemptFailed
    <2>1. wd'.pc = "budget"
      BY <1>7 DEF AttemptFailed, Watchdogs
    <2> QED BY <1>2, <2>1
  <1>8. CASE WdShutdown
    <2>1. CASE wd' = [wd EXCEPT !.pc = "epilogue", !.child = NoCore]
      <3>1. wd'.pc = "epilogue"
        BY <2>1 DEF Watchdogs
      <3> QED BY <1>2, <3>1
    <2>2. CASE WatchdogAbandons(wd.child)
      BY <1>3, <1>5, <2>2
    <2> QED BY <1>8, <2>1, <2>2 DEF WdShutdown
  <1>9. CASE WdEpilogue
    BY <1>3, <1>4, <1>9 DEF WdEpilogue
  <1>10. CASE WdExit \/ WdWaitError \/ WdExitDns \/ WdForget \/ WdBudget \/ WdBackoff
    <2>1. wd'.pc \in {"exitDns", "epilogue", "forget", "budget", "backoff", "spawn"}
      BY <1>10 DEF WdExit, WdWaitError, WdExitDns, WdForget, WdBudget, WdBackoff, Watchdogs
    <2> QED BY <1>2, <2>1
  <1>11. CASE WdSpawn
    <2>1. CASE \E c \in Cores : wd' = [wd EXCEPT !.pc = "awaitIpc", !.child = c]
      <3>1. wd'.pc = "awaitIpc"
        BY <2>1 DEF Watchdogs
      <3> QED BY <1>2, <3>1
    <2> QED BY <1>7, <1>11, <2>1 DEF WdSpawn
  <1>12. CASE WdAwaitIpc
    <2>1. CASE wd' = [wd EXCEPT !.pc = "record"]
      <3>1. wd'.pc = "record"
        BY <2>1 DEF Watchdogs
      <3> QED BY <1>2, <3>1
    <2>2. CASE WatchdogAbandons(wd.child)
      BY <1>3, <1>5, <2>2
    <2> QED BY <1>7, <1>12, <2>1, <2>2 DEF WdAwaitIpc
  <1>13. CASE WdRecord \/ WdRestartDns
    <2>1. CASE \/ wd' = [wd EXCEPT !.pc = "restartDns"]
               \/ wd' = [wd EXCEPT !.pc = "wait", !.retried = TRUE]
      <3>1. wd'.pc \in {"restartDns", "wait"}
        BY <2>1 DEF Watchdogs
      <3> QED BY <1>2, <3>1
    <2> QED BY <1>6, <1>13, <2>1 DEF WdRecord, WdRestartDns
  <1> QED BY <1>6, <1>7, <1>8, <1>9, <1>10, <1>11, <1>12, <1>13 DEF WatchdogStep

LEMMA NextReleased == ~DnsCanFail /\ IInv /\ Released /\ [Next]_vars => Released'
  <1> SUFFICES ASSUME ~DnsCanFail, IInv, Released, [Next]_vars PROVE Released'
    OBVIOUS
  <1> USE DEF IInv, TypeOK
  <1>1. CASE ~LastOn' /\ cmd'.pc \in {"idle", "stopDns", "setDns"}
    BY <1>1 DEF Released
  <1>2. CASE UNCHANGED <<runningPid, cmd, wd, dns, dnsQueue>>
    <2>1. LastOn' = LastOn
      BY <1>2 DEF LastOn
    <2> QED BY <1>2, <2>1 DEF Released, WatchdogRuns
  <1>3. ASSUME NEW origin, NEW after, NEW config, BeginStop(origin, after, config) PROVE Released'
    BY <1>1, <1>3, BeginStopReleases
  <1>4. ASSUME NEW config \in Configs, Takeover(config) PROVE Released'
    BY <1>3, <1>4 DEF Takeover
  <1>5. CASE Stop
    BY <1>3, <1>5 DEF Stop
  <1>6. ASSUME NEW on \in BOOLEAN, SetTunDns(on) PROVE Released'
    <2>1. /\ LastOn' <=> on
          /\ cmd'.pc = "setDns" /\ wd' = wd /\ runningPid' = runningPid
      BY <1>6, AskedLast DEF SetTunDns, Idle, memory
    <2>2. on => runningPid # NoCore
      BY <1>6 DEF SetTunDns
    <2> QED BY <2>1, <2>2 DEF Released, Stopping
  <1>7. CASE ServeDns
    <2>1. LastOn' => LastOn
      BY <1>7, ServedLast
    <2>2. UNCHANGED <<runningPid, cmd, wd>>
      BY <1>7 DEF ServeDns, memory
    <2> QED BY <2>1, <2>2 DEF Released, WatchdogRuns
  <1>8. ASSUME NEW c \in Cores, CoreExits(c) PROVE Released'
    BY <1>2, <1>8 DEF CoreExits, memory, dnsVars
  <1>9. CASE Crash
    BY <1>1, <1>9 DEF Crash, Idle, LastOn
  <1>10. CASE Reconcile
    BY <1>2, <1>10 DEF Reconcile, memory, dnsVars
  <1>11. CASE Restore
    <2>1. UNCHANGED <<runningPid, wd, dns, dnsQueue>>
      BY <1>11 DEF Restore, memory, dnsVars
    <2>2. LastOn' = LastOn
      BY <2>1 DEF LastOn
    <2>3. cmd' = cmd \/ cmd'.pc = "prepare"
      BY <1>11 DEF Restore, Idle
    <2> QED BY <2>1, <2>2, <2>3 DEF Released, Stopping, WatchdogRuns
  <1>12. CASE SidecarInspect \/ SidecarReserve \/ SidecarExits \/ UNCHANGED vars
    BY <1>2, <1>12 DEF SidecarInspect, SidecarReserve, SidecarExits, vars, memory, dnsVars
  <1> QED BY <1>4, <1>5, <1>6, <1>7, <1>8, <1>9, <1>10, <1>11, <1>12,
             CommandReleased, WatchdogReleased DEF Next, Startup

\* With a resolver that obeys, nothing the watchdog or SetTunDns queued survives a
\* stop: once the queue is served, the temporary resolver is gone (RetirementGuard
\* in manager.rs, tun_dns.rs, stop_core_by).
THEOREM StopIsReleased == ~DnsCanFail /\ Spec => []StopReleasesDns
  <1>1. Init => Released
    BY EmptyMemory DEF Init, Released, LastOn, Stopping, Idle
  <1>2. IInv /\ Released => StopReleasesDns
    BY EmptyMemory DEF Released, StopReleasesDns, LastOn
  <1>3. ~DnsCanFail => (IInv /\ Released /\ [Next]_vars => Released')
    BY NextReleased
  <1>4. CASE ~DnsCanFail
    <2>1. IInv /\ Released /\ [Next]_vars => Released'
      BY <1>3, <1>4
    <2> QED BY <1>1, <1>2, <2>1, Invariance, PTL DEF Spec
  <1>5. CASE DnsCanFail
    BY <1>5
  <1> QED BY <1>4, <1>5

=============================================================================
