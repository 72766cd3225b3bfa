---------------------------- MODULE OwnerSession ----------------------------
(***************************************************************************)
(* Who may run the privileged daemon's core: the owner sessions.           *)
(*                                                                         *)
(* The daemon's side is crates/zenclash-service/src/core/server.rs with    *)
(* desired.rs and owner_lease.rs: StartClash takes over, StopClash gives   *)
(* up, Heartbeat renews, a supervisor retires the owner whose GUI is gone, *)
(* a restarted daemon restores the core of the owner it finds on disk.     *)
(* The desktop's side is ServiceSession in                                 *)
(* crates/zenclash-core/src/service/session.rs: every start proposes a     *)
(* token and keeps it until its outcome is known.                          *)
(*                                                                         *)
(* Requests and replies are messages; either may be lost, a GUI may exit   *)
(* and come back, the daemon may crash between any two writes.  One        *)
(* operation holds OWNER_LIFECYCLE_LOCK at a time; pc is what it does      *)
(* next.  The core manager itself is CoreManager: here a start or a stop   *)
(* has one of its outcomes in one step, and the watchdog takes its own     *)
(* steps at any time.                                                      *)
(***************************************************************************)
EXTENDS Naturals

CONSTANTS
    Guis,        \* desktop processes, one ServiceSession each; an exit is final
    Owners,      \* user accounts
    OwnerOf,     \* the account each GUI runs under
    NoOne,       \* no GUI, no account
    Lifetime,    \* heartbeats a lease may miss
    MaxStarts,   \* bound on the tokens proposed
    MaxEnds      \* bound on the crashes and exits of the daemon

ASSUME OwnerAssumption ==
    /\ OwnerOf \in [Guis -> Owners]
    /\ NoOne \notin Guis \cup Owners
    /\ Lifetime \in Nat \ {0}
    /\ MaxStarts \in Nat /\ MaxEnds \in Nat

VARIABLES
    active,      \* the active-owner file: token and generation
    generation,  \* the owner-generation file
    desired,     \* owners whose desired state says the core should run
    core,        \* the token whose start runs the core, 0 for none
    stuck,       \* it is the manager's failed_child: no watchdog, its end not confirmed
    by,          \* the GUI that proposed each token
    stopping,    \* the daemon stops its listener
    closed,      \* ADMISSION_CLOSED
    ends,        \* how often the daemon ended
    fatal,       \* there is a core, and its lifecycle state is Fatal
    lease,       \* owner_lease::LEASE: generation, and heartbeats it may still miss
    op, pc,      \* the operation under OWNER_LIFECYCLE_LOCK and its next step
    inbox,       \* requests that wait for the lock
    alive,       \* GUIs that run
    session,     \* ServiceSession::active: the acknowledged proof
    pending,     \* ServiceSession::pending_start
    call         \* the mutation a GUI waits for

disk == <<active, generation, desired>>
daemon == <<stopping, closed, ends>>
manager == <<core, stuck, fatal>>
held == <<op, pc>>
client == <<session, pending, call>>
gui == <<by, alive, session, pending>>
vars == <<active, generation, desired, core, stuck, by, stopping, closed, ends, fatal, lease, op, pc,
          inbox, alive, session, pending, call>>

Tokens == 1 .. MaxStarts
Generations == Nat
Proofs == [token : 0 .. MaxStarts, gen : Generations]
NoProof == [token |-> 0, gen |-> 0]
Requests == [gui : Guis, kind : {"start", "stop"}, token : 0 .. MaxStarts, gen : Generations]
NoCall == [kind |-> "none", token |-> 0, gen |-> 0]

\* "rollback" undoes a start that could not commit, "abandon" one whose core failed.
Kinds == {"none", "start", "stop", "retire", "rollback", "abandon"}
Operations == [kind : Kinds, gui : Guis \cup {NoOne}, token : 0 .. MaxStarts,
               gen : Generations, previous : Owners \cup {NoOne}]
NoOp == [kind |-> "none", gui |-> NoOne, token |-> 0, gen |-> 0, previous |-> NoOne]
Steps == {"free", "stop", "clear", "start", "advance", "commit"}

NoLease == [gen |-> 0, left |-> 0]
Leased(gen) == [gen |-> gen, left |-> IF gen = 0 THEN 0 ELSE Lifetime]

TypeOK ==
    /\ active \in Proofs /\ generation \in Generations /\ desired \subseteq Owners
    /\ core \in 0 .. MaxStarts /\ stuck \in BOOLEAN /\ fatal \in BOOLEAN
    /\ by \in [Tokens -> Guis \cup {NoOne}]
    /\ stopping \in BOOLEAN /\ closed \in BOOLEAN /\ ends \in 0 .. MaxEnds
    /\ lease \in [gen : Generations, left : 0 .. Lifetime]
    /\ op \in Operations /\ pc \in Steps
    /\ inbox \subseteq Requests
    /\ alive \subseteq Guis
    /\ session \in [Guis -> Proofs]
    /\ pending \in [Guis -> 0 .. MaxStarts]
    /\ call \in [Guis -> [kind : {"none", "start", "stop"}, token : 0 .. MaxStarts, gen : Generations]]

Init ==
    /\ active = NoProof /\ generation = 0 /\ desired = {}
    /\ core = 0 /\ stuck = FALSE /\ fatal = FALSE
    /\ by = [t \in Tokens |-> NoOne]
    /\ stopping = FALSE /\ closed = FALSE /\ ends = 0
    /\ lease = NoLease
    /\ op = NoOp /\ pc = "free"
    /\ inbox = {}
    /\ alive = Guis
    /\ session = [g \in Guis |-> NoProof]
    /\ pending = [g \in Guis |-> 0]
    /\ call = [g \in Guis |-> NoCall]

-----------------------------------------------------------------------------
(* The desktop *)

Account(token) == IF token = 0 \/ by[token] = NoOne THEN NoOne ELSE OwnerOf[by[token]]
Untried == {t \in Tokens : by[t] = NoOne}

Asked(kind, token, gen) == [kind |-> kind, token |-> token, gen |-> gen]
Ask(g, kind, token, gen) ==
    /\ inbox' = inbox \cup {[gui |-> g, kind |-> kind, token |-> token, gen |-> gen]}
    /\ call' = [call EXCEPT ![g] = Asked(kind, token, gen)]

\* start_exchange: the token is kept before the request goes out.
Propose(g) ==
    /\ g \in alive /\ call[g] = NoCall /\ pending[g] = 0
    /\ \E t \in Untried :
        /\ \A u \in Untried : t <= u
        /\ by' = [by EXCEPT ![t] = g]
        /\ pending' = [pending EXCEPT ![g] = t]
        /\ Ask(g, "start", t, 0)
    /\ UNCHANGED <<disk, daemon, manager, lease, held, alive, session>>

\* stop: an unconfirmed start is stopped with the proposed token and the active
\* generation the status reports; none is sent while the owner is not active.
RequestStop(g) ==
    /\ g \in alive /\ call[g] = NoCall
    /\ IF pending[g] # 0
       THEN /\ ~closed /\ pc = "free"
            /\ active # NoProof /\ Account(active.token) = OwnerOf[g]
            /\ Ask(g, "stop", pending[g], active.gen)
       ELSE /\ session[g] # NoProof
            /\ Ask(g, "stop", session[g].token, session[g].gen)
    /\ UNCHANGED <<disk, daemon, manager, lease, held, gui>>

\* A variant for comparison: the token is dropped with the call that was given up.
GiveUpForgets(g) ==
    /\ call[g] # NoCall
    /\ call' = [call EXCEPT ![g] = NoCall]
    /\ pending' = [pending EXCEPT ![g] = 0]
    /\ UNCHANGED <<disk, daemon, manager, lease, held, inbox, by, alive, session>>

\* The transport fails, the answer leaves the outcome unknown, or the caller is
\* cancelled.  The daemon goes on with a request it has.
GiveUp(g) ==
    /\ call[g] # NoCall
    /\ call' = [call EXCEPT ![g] = NoCall]
    /\ UNCHANGED <<disk, daemon, manager, lease, held, inbox, gui>>

\* An acknowledgement or a definite refusal settles the proposed token.
StartSettled(g, out, gen) ==
    /\ session' = [session EXCEPT ![g] = IF out = "ok" THEN [token |-> call[g].token, gen |-> gen] ELSE @]
    /\ pending' = [pending EXCEPT ![g] = 0]

\* A refusal as stale retires an acknowledged proof, never an unconfirmed token.
StopSettled(g, out) ==
    IF out = "ok" \/ call[g].token # pending[g]
    THEN /\ session' = [session EXCEPT ![g] = NoProof]
         /\ pending' = [pending EXCEPT ![g] = 0]
    ELSE UNCHANGED <<session, pending>>

\* The answer to a request: it is lost, or meets the GUI that still waits for it.
\* One that leaves the outcome unknown changes nothing here: see GiveUp.
Answered(g, asked, out, gen) ==
    \/ UNCHANGED client
    \/ /\ out \in {"ok", "refused"}
       /\ call[g] = asked
       /\ call' = [call EXCEPT ![g] = NoCall]
       /\ IF asked.kind = "start" THEN StartSettled(g, out, gen) ELSE StopSettled(g, out)

\* The GUI ends without a stop: its proof, its token and its keepalives with it.
Exit(g) ==
    /\ g \in alive
    /\ alive' = alive \ {g}
    /\ session' = [session EXCEPT ![g] = NoProof]
    /\ pending' = [pending EXCEPT ![g] = 0]
    /\ call' = [call EXCEPT ![g] = NoCall]
    /\ UNCHANGED <<disk, daemon, manager, by, lease, held, inbox>>

-----------------------------------------------------------------------------
(* Leases *)

Free == pc = "free"

\* require_active_session
Authorized(g, proof) ==
    /\ active # NoProof
    /\ Account(active.token) = OwnerOf[g]
    /\ active = proof

\* Variants: a renewal counts from the old deadline; another generation's lease counts.
RenewedFurther(gen) == IF lease.gen = gen THEN [lease EXCEPT !.left = @ + Lifetime] ELSE lease
ExpiredOnTime(gen) == lease.gen = gen /\ lease.left = 0

Renewed(gen) == IF lease.gen = gen THEN Leased(gen) ELSE lease
Expired(gen) == lease.gen # gen \/ lease.left = 0

\* Heartbeat, from the keepalive of an acknowledged proof or of a proposed token that
\* learns the generation from the status: refused once the lease expired, also before
\* the owner is retired.
Heartbeat(g) ==
    /\ Free
    /\ \E proof \in {session[g], [token |-> pending[g], gen |-> active.gen]} : Authorized(g, proof)
    /\ ~Expired(active.gen)
    /\ lease' = Renewed(active.gen)
    /\ UNCHANGED <<disk, daemon, manager, held, inbox, gui, call>>

\* StageRuntime, ReadRuntimeFile, UpdateWriter, SetTunDns, SetSystemProxy: their
\* guard renews the lease when it is dropped, whether or not it had expired.
Use(g) ==
    /\ Free /\ ~closed
    /\ g \in alive /\ call[g] = NoCall /\ pending[g] = 0
    /\ Authorized(g, session[g])
    /\ lease' = Renewed(session[g].gen)
    /\ UNCHANGED <<disk, daemon, manager, held, inbox, gui, call>>

LeaseAges ==
    /\ lease.left > 0
    /\ lease' = [lease EXCEPT !.left = @ - 1]
    /\ UNCHANGED <<disk, daemon, manager, held, inbox, gui, call>>

-----------------------------------------------------------------------------
(* Operations under OWNER_LIFECYCLE_LOCK *)

\* An operation ends with its answer.
Ends(out) ==
    /\ op' = NoOp /\ pc' = "free"
    /\ CASE op.kind = "retire" -> UNCHANGED client
         [] op.kind = "stop" -> Answered(op.gui, Asked("stop", op.token, op.gen), out, op.gen)
         [] OTHER -> Answered(op.gui, Asked("start", op.token, 0), out, op.gen)

Goes(step) == pc' = step /\ UNCHANGED <<op, client>>
\* A variant: a start that fails halfway undoes nothing.
BecomesNothing(kind) == Ends("unknown")
Becomes(kind) == op' = [op EXCEPT !.kind = kind] /\ pc' = "stop" /\ UNCHANGED client

\* A failed operation ends; the guard of a stop renews its lease.
Fails == Ends("unknown") /\ lease' = IF op.kind = "stop" THEN Renewed(op.gen) ELSE lease

\* StartClash past its authentication: a runtime that cannot be prepared is refused.
TakeStart(r) ==
    /\ Free /\ r \in inbox /\ r.kind = "start"
    /\ inbox' = inbox \ {r}
    /\ \/ /\ ~closed
          /\ op' = [kind |-> "start", gui |-> r.gui, token |-> r.token, gen |-> 0,
                    previous |-> Account(active.token)]
          /\ pc' = "stop" /\ UNCHANGED client
       \/ /\ UNCHANGED held
          /\ Answered(r.gui, Asked("start", r.token, r.gen), IF closed THEN "unknown" ELSE "refused", 0)
    /\ UNCHANGED <<disk, daemon, manager, lease, by, alive>>

\* StopClash: the session is checked under the lock.
TakeStop(r) ==
    /\ Free /\ r \in inbox /\ r.kind = "stop"
    /\ inbox' = inbox \ {r}
    /\ IF ~closed /\ Authorized(r.gui, [token |-> r.token, gen |-> r.gen])
       THEN /\ op' = [kind |-> "stop", gui |-> r.gui, token |-> r.token, gen |-> r.gen,
                      previous |-> OwnerOf[r.gui]]
            /\ pc' = "stop" /\ UNCHANGED client
       ELSE /\ UNCHANGED held
            /\ Answered(r.gui, Asked("stop", r.token, r.gen), IF closed THEN "unknown" ELSE "refused", r.gen)
    /\ UNCHANGED <<disk, daemon, manager, lease, by, alive>>

\* retire_expired_owner, once a second.
TakeExpired ==
    /\ Free /\ active # NoProof /\ Expired(active.gen)
    /\ op' = [kind |-> "retire", gui |-> NoOne, token |-> active.token, gen |-> active.gen,
              previous |-> Account(active.token)]
    /\ pc' = "stop"
    /\ UNCHANGED <<disk, daemon, manager, lease, inbox, gui, call>>

\* A failed write of the desired state, a recovery hint, is only a warning: a crash
\* before it is written is such a failure, and it goes with the step before it.
Hinted(owners) == desired' \in {desired, owners}

\* CoreManager::stop_core, then persist_owner_core_stopped(_by_key) of the previous
\* owner, or of the own one.  A retirement whose proxy could not be cleared stops the
\* core all the same, and keeps the owner.
NoCore == core' = 0 /\ stuck' = FALSE /\ fatal' = FALSE
Stopping == IF op.kind \in {"rollback", "abandon"} THEN OwnerOf[op.gui] ELSE op.previous
StopCore ==
    /\ pc = "stop"
    /\ NoCore
    /\ Hinted(desired \ {Stopping})
    /\ \/ op.kind # "abandon" /\ Goes("clear")
       \/ op.kind \in {"abandon", "retire"} /\ Ends("unknown")
    /\ UNCHANGED <<active, generation, daemon, lease, inbox, by, alive>>

\* The proxy of the owner that leaves cannot be cleared, or stop_core fails: before it
\* stops anything when the resolver's release is refused, or with a child that it could
\* not end.  Only a rollback says Fatal itself; a watchdog still alive may unsay it.
StopFails ==
    /\ pc = "stop"
    /\ \/ UNCHANGED stuck /\ fatal' = (fatal \/ (op.kind = "rollback" /\ core # 0))
       \/ core # 0 /\ ~stuck /\ stuck' = TRUE /\ fatal' = TRUE
    /\ Fails
    /\ UNCHANGED <<disk, daemon, core, inbox, by, alive>>

\* clear_active_owner, and what follows it in each operation.
ClearActive ==
    /\ pc = "clear"
    /\ active' = NoProof
    /\ CASE op.kind = "start" -> Goes("start") /\ UNCHANGED lease
         [] op.kind = "rollback" -> Ends("unknown") /\ UNCHANGED lease
         [] OTHER -> Ends("ok") /\ lease' = NoLease
    /\ UNCHANGED <<generation, desired, daemon, manager, inbox, by, alive>>

ClearActiveFails ==
    /\ pc = "clear"
    /\ Fails
    /\ UNCHANGED <<disk, daemon, manager, inbox, by, alive>>

\* CoreManager::start_core publishes the core under its watchdog, which may be as fast
\* as to leave it stuck before start_core stores Running; or it keeps a child that it
\* could not end.
Published(token) == core' = token /\ stuck' \in BOOLEAN

\* start_new_core: the runtime may not materialize; a start that failed is stopped.  What
\* it left is a child it could not end, under Fatal, or, when the resolver is refused and
\* its release as well, the core it published.
StartCore ==
    /\ pc = "start"
    /\ \/ Published(op.token) /\ fatal' = FALSE /\ Goes("advance")
          /\ Hinted(desired \cup {OwnerOf[op.gui]})
       \/ UNCHANGED <<desired, manager>> /\ Ends("unknown")
       \/ /\ NoCore \/ (Published(op.token) /\ fatal' \in {FALSE, stuck'})
          /\ Becomes("abandon") /\ UNCHANGED desired
    /\ UNCHANGED <<active, generation, daemon, lease, inbox, by, alive>>

\* A variant: the generation is counted, and not written.
AdvanceInMemory ==
    /\ pc = "advance"
    /\ op' = [op EXCEPT !.gen = generation + 1]
    /\ pc' = "commit"
    /\ UNCHANGED <<disk, daemon, manager, lease, inbox, gui, call>>

\* commit_active_owner_session: the generation is durable before the owner is.  A
\* write that fails may have replaced the file.
AdvanceGeneration ==
    /\ pc = "advance"
    /\ \/ /\ generation' = generation + 1
          /\ op' = [op EXCEPT !.gen = generation + 1]
          /\ pc' = "commit" /\ UNCHANGED client
       \/ generation' \in {generation, generation + 1} /\ Becomes("rollback")
    /\ UNCHANGED <<active, desired, daemon, manager, lease, inbox, by, alive>>

\* The owner, the lease of its generation, then its proxy: when that cannot be
\* applied the client learns of a failure and of no generation.
Candidate == [token |-> op.token, gen |-> op.gen]
CommitOwner ==
    /\ pc = "commit"
    /\ \/ active' = Candidate /\ lease' = Leased(op.gen) /\ \E out \in {"ok", "unknown"} : Ends(out)
       \/ active' \in {active, Candidate} /\ Becomes("rollback") /\ UNCHANGED lease
    /\ UNCHANGED <<generation, desired, daemon, manager, inbox, by, alive>>

-----------------------------------------------------------------------------
(* The watchdog *)

\* The core exits and runs again: RecoveringCore, then Running, whatever the state was.
\* In between there is a core to come and no pid.
Recovers ==
    /\ core # 0 /\ ~stuck
    /\ fatal' = FALSE
    /\ UNCHANGED <<disk, daemon, core, stuck, lease, held, inbox, gui, call>>

\* It exits too often or cannot be waited for, or the watchdog ends the one it restarted.
GivesUp ==
    /\ core # 0 /\ ~stuck
    /\ NoCore
    /\ UNCHANGED <<disk, daemon, lease, held, inbox, gui, call>>

\* A core that the watchdog restarted, or that a stop of the server reached, and that
\* it could not end.
RecoveryStuck ==
    /\ core # 0 /\ ~stuck
    /\ stuck' = TRUE /\ fatal' = TRUE
    /\ UNCHANGED <<disk, daemon, core, lease, held, inbox, gui, call>>

Watchdog == Recovers \/ GivesUp \/ RecoveryStuck

-----------------------------------------------------------------------------
(* The daemon *)

\* The check asks for a pid: a core that its watchdog is about to restart has none.
Idle == ~stopping /\ ~closed /\ active = NoProof /\ ~stuck

\* A variant: the idle check does not wait for the owner's lock.
IdleExitUnlocked ==
    /\ Idle
    /\ closed' = TRUE
    /\ UNCHANGED <<disk, stopping, ends, manager, lease, held, inbox, gui, call>>

\* Idle exit on macOS and Windows: nobody owns a core and none runs.
IdleExit ==
    /\ Idle /\ pc = "free"
    /\ closed' = TRUE
    /\ UNCHANGED <<disk, stopping, ends, manager, lease, held, inbox, gui, call>>

\* stop_ipc_server, on a signal or when idle: it stops the core without the owner's
\* lock, while an operation may be under way.
ServerStop ==
    /\ ~stopping /\ ends < MaxEnds
    /\ stopping' = TRUE
    /\ NoCore
    /\ UNCHANGED <<disk, closed, ends, lease, held, inbox, gui, call>>

\* The process ends, stopped or crashed, wherever its operations are, and a new one
\* starts: reconcile_service_startup ends what the last one left, restore_desired_state
\* starts the core again for the active owner it finds, and the listener's lease gives
\* its GUI one renewal window.  Requests sent while it is down are lost.
Wanted == active # NoProof /\ Account(active.token) \in desired
Restart ==
    /\ ends < MaxEnds
    /\ ends' = ends + 1
    /\ stopping' = FALSE /\ closed' = FALSE
    /\ op' = NoOp /\ pc' = "free"
    /\ inbox' = {}
    /\ \/ Wanted /\ Published(active.token) /\ fatal' \in BOOLEAN /\ UNCHANGED desired
       \/ Wanted /\ NoCore /\ Hinted(desired \ {Account(active.token)})
       \/ ~Wanted /\ NoCore /\ UNCHANGED desired
    /\ lease' = Leased(active.gen)
    /\ UNCHANGED <<active, generation, gui, call>>

-----------------------------------------------------------------------------
Work == StopCore \/ StopFails \/ ClearActive \/ ClearActiveFails
        \/ StartCore \/ AdvanceGeneration \/ CommitOwner

Next ==
    \/ \E g \in Guis :
        \/ Propose(g) \/ RequestStop(g) \/ GiveUp(g) \/ Exit(g) \/ Heartbeat(g) \/ Use(g)
    \/ \E r \in inbox : TakeStart(r) \/ TakeStop(r)
    \/ TakeExpired \/ Work \/ Watchdog
    \/ LeaseAges \/ IdleExit \/ ServerStop \/ Restart

Spec == Init /\ [][Next]_vars

\* A GUI holds a token while it has the proof, or has not heard of the outcome.
Holds(g, token) == g \in alive /\ (session[g].token = token \/ pending[g] = token)
Held(token) == by[token] # NoOne /\ Holds(by[token], token)

\* The operation under way goes on, the supervisor ticks, a lease nobody renews runs
\* out, a daemon that stops is started again, and a core is not unstoppable forever.
FairSpec ==
    /\ Spec
    /\ WF_vars(Work)
    /\ WF_vars(TakeExpired)
    /\ WF_vars(active # NoProof /\ ~Held(active.token) /\ LeaseAges)
    /\ WF_vars(stopping /\ Restart)
    /\ SF_vars(StopCore)

-----------------------------------------------------------------------------
(* Properties *)

\* A core that runs for no owner, and that no operation is about to commit or undo.
NobodysCore ==
    /\ core # 0 /\ core # active.token
    /\ pc \notin {"advance", "commit"} /\ op.kind \notin {"rollback", "abandon"}

\* A core never runs beside an owner it does not belong to.  It becomes nobody's only in
\* the failed stop that undoes its start (start_new_core, rollback_started_owner), and a
\* rollback's says Fatal then; it was stopped after every other failure halfway.  And
\* nothing adopts it: it is nobody's until it is gone.
LeftByStop == pc = "stop" /\ (op.kind = "abandon" \/ (op.kind = "rollback" /\ fatal'))
OwnedCore ==
    /\ [](active # NoProof => core \in {0, active.token})
    /\ [][NobodysCore' => NobodysCore \/ LeftByStop]_vars
    /\ [][NobodysCore => NobodysCore' \/ core' = 0]_vars

\* A GUI whose start runs a core, or owns the daemon, still holds the token that
\* proves it: losing a reply, or a refused second start, loses no authority, and what
\* it was told is stopped never comes back.
StopAuthority ==
    \A t \in Tokens :
        by[t] \in alive /\ (active.token = t \/ core = t) => Held(t)

\* A generation names one session, on disk and in every GUI, across crashes between
\* the two writes of a commit.
Granted == {active} \cup {session[g] : g \in Guis}
GenerationsUnique ==
    \A p \in Granted \ {NoProof} :
        p.gen \in 1 .. generation /\ \A q \in Granted : q.gen = p.gen => q = p

\* A daemon that decided to exit idle has no owner and does nothing for one: what its
\* watchdog may still start again is a core that was nobody's before.
IdleExitFinal ==
    /\ [](closed => active = NoProof /\ pc = "free")
    /\ [][closed' /\ core' # 0 => NobodysCore /\ core' = core]_vars

\* StopClash stops the core of the session that asked, never a replacement's.
StopsOwnCore ==
    [][op.kind = "stop" /\ pc = "stop" /\ core # 0 /\ core' = 0 /\ daemon' = daemon => core = op.token]_vars

\* The core of a GUI that is gone, or that no longer knows of it, is stopped.
Orphaned == core # 0 /\ active.token = core /\ ~Held(core)
ExitedOwnerStops == Orphaned ~> core = 0
=============================================================================
