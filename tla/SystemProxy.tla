---------------------------- MODULE SystemProxy ----------------------------
(***************************************************************************)
(* The desktop's changes to the system proxy of macOS:                     *)
(* crates/zenclash-core/src/system_proxy.rs, system_proxy/native.rs, and   *)
(* the networksetup backend and the PAC listeners they use.                *)
(*                                                                         *)
(* An operation holds the controller's lock from its beginning to its end, *)
(* so operations do not interleave with each other.  They interleave with  *)
(* every other program that changes the same settings, and a change is     *)
(* several networksetup commands, any of which may fail with or without    *)
(* having written.  A step here is one observation, or one command with    *)
(* the observation that precedes it.                                       *)
(*                                                                         *)
(* A service's settings are abstracted to the address set last and whether *)
(* it is off, half on (one of the protocols of a complete setting, or one  *)
(* too many) or on.  A manual address takes two commands to switch on or   *)
(* off (HTTP, HTTPS), a PAC URL one; setting an address switches it on.    *)
(***************************************************************************)
EXTENDS Integers, Sequences, FiniteSets

CONSTANTS
    Services,      \* network services of the operating system
    Endpoints,     \* the core's HTTP and HTTPS endpoints a manual proxy names
    Urls,          \* PAC URLs, one for each listener that may exist
    Foreign,       \* any address of another program
    None,          \* no service, no address
    MaxIntrusions, \* bound: changes made by other programs
    MaxFaults      \* bound: failing commands, observations and saves, and ends
                   \* of the process

Addresses == Endpoints \cup Urls \cup {Foreign}

ASSUME ProxyAssumption ==
    /\ None \notin Services \cup Addresses
    /\ Endpoints \cap Urls = {}
    /\ Foreign \notin Endpoints \cup Urls
    /\ MaxIntrusions \in Nat /\ MaxFaults \in Nat

VARIABLES
    os,        \* the settings of each service
    writer,    \* history: who is responsible for them, "us" or another program
    prefs,     \* AppPreferences: enabled intent and ownership
    accepted,  \* accepted_native: the claim of this process
    running,   \* PacServerInner::running
    retained,  \* PacServerInner::retained
    minted,    \* history: the URLs whose listeners this process started
    undo,      \* the entries of the transaction, or of the pending recovery
    target,    \* the service of the last entry
    recovery,  \* whether a recovery is pending
    op,        \* the operation that holds the lock
    jobs,      \* the services it still has to write, each with its commands
    spent      \* how much of each bound is used

native == <<os, writer>>
pac == <<running, retained, minted>>
entries == <<undo, target>>
vars == <<os, writer, prefs, accepted, running, retained, minted, undo, target,
          recovery, op, jobs, spent>>

States == [at : Addresses, flag : {"off", "half", "on"}]
NoState == [at |-> None, flag |-> "off"]
Claims == [svc : Services, at : Endpoints \cup Urls]
NoClaim == [svc |-> None, at |-> None]

\* NativeTransactionEntry.  by: history, the writer of prev.
Entry == [prev : States \cup {NoState}, known : SUBSET States, attempted : BOOLEAN,
          observed : States \cup {NoState}, tried : BOOLEAN,
          by : {"us", "foreign"}]
NoEntry == [prev |-> NoState, known |-> {}, attempted |-> FALSE,
            observed |-> NoState, tried |-> FALSE, by |-> "us"]
NewEntry(s) == [prev |-> os[s], known |-> {os[s]}, attempted |-> FALSE,
                observed |-> NoState, tried |-> FALSE, by |-> writer[s]]
NoUndo == [s \in Services |-> NoEntry]
Entries == {s \in Services : undo[s].prev # NoState}

Kinds == {"enable", "restore", "disable", "release"}
\* "recover", "retry", "reobserve": recover_native.  "claim": stage_release.
\* "stage": between a reconciliation's decision and stage_native.  "apply": the
\* change.  "persist": the preferences and the commit.  "clear": the metadata of a
\* committed release.  "rollback", "undo", "safety", "giveup": rollback.
Pcs == {"idle", "recover", "retry", "reobserve", "claim", "stage", "apply", "persist",
        "clear", "rollback", "undo", "safety", "giveup"}
Idle == [pc |-> "idle", kind |-> "release", claim |-> NoClaim]
Job == [svc : Services, at : States \cup {NoState}, path : Seq(States)]

TypeOK ==
    /\ os \in [Services -> States]
    /\ writer \in [Services -> {"us", "foreign"}]
    /\ prefs \in [enabled : BOOLEAN, claim : Claims \cup {NoClaim}]
    /\ accepted \in Claims \cup {NoClaim}
    /\ running \in Urls \cup {None}
    /\ retained \in Urls \cup {None}
    /\ minted \subseteq Urls
    /\ undo \in [Services -> Entry]
    /\ target \in Services \cup {None}
    /\ recovery \in BOOLEAN
    /\ op \in [pc : Pcs, kind : Kinds, claim : Claims \cup {NoClaim}]
    /\ jobs \in Seq(Job)
    /\ spent \in [intrusions : 0..MaxIntrusions, faults : 0..MaxFaults]

Init ==
    /\ os \in [Services -> [at : {Foreign}, flag : {"off", "on"}]]
    /\ writer = [s \in Services |-> "foreign"]
    /\ prefs = [enabled |-> FALSE, claim |-> NoClaim]
    /\ accepted = NoClaim
    /\ running = None /\ retained = None /\ minted = {}
    /\ undo = NoUndo /\ target = None
    /\ recovery = FALSE
    /\ op = Idle
    /\ jobs = <<>>
    /\ spent = [intrusions |-> 0, faults |-> 0]

-----------------------------------------------------------------------------
(* Settings *)

Active(x) == x.flag # "off"
Off(x) == [x EXCEPT !.flag = "off"]
On(a) == [at |-> a, flag |-> "on"]

\* write_configuration: what is on goes off, then the address is set, which switches
\* it on, and off again, then what shall be on goes on.
SwitchOff(x) ==
    CASE x.flag = "off" -> <<>>
      [] x.at \in Urls /\ x.flag = "on" -> <<Off(x)>>
      [] x.at \in Urls /\ x.flag = "half" -> <<On(x.at), Off(x)>>
      [] x.at \notin Urls /\ x.flag = "on" -> <<[x EXCEPT !.flag = "half"], Off(x)>>
      [] OTHER -> <<Off(x)>>
SetAddress(x, y) ==
    IF x.at = y.at THEN <<>>
    ELSE <<[at |-> y.at, flag |-> IF y.at \in Urls THEN "on" ELSE "half"], Off(y)>>
SwitchOn(y) ==
    CASE y.flag = "off" -> <<>>
      [] y.at \notin Urls /\ y.flag = "on" -> <<[y EXCEPT !.flag = "half"], y>>
      [] OTHER -> <<y>>
Commands(x, y) ==
    IF x = y THEN <<>> ELSE SwitchOff(x) \o SetAddress(x, y) \o SwitchOn(y)

Write(s, x, y) == [svc |-> s, at |-> x, path |-> Commands(x, y)]

CurrentClaim == IF accepted # NoClaim THEN accepted ELSE prefs.claim

Matches(c) == c # NoClaim /\ os[c.svc] = On(c.at)

\* A variant for comparison: only a complete setting is a reference.
CompleteReference(c) == Matches(c)

\* status_references_owned_endpoint
References(c) == c # NoClaim /\ Active(os[c.svc]) /\ os[c.svc].at = c.at

\* owns_url of an enabled PAC setting.
ServesUrl(x) == Active(x) /\ x.at \in {running, retained}

\* The listener of a transaction that is neither committed nor given up.
Candidate ==
    IF op.claim.at \in Urls /\ op.pc \in {"apply", "persist", "rollback", "undo",
                                          "safety", "giveup"}
    THEN op.claim.at ELSE None

\* A listener is bound to a port of its own.  Bound: not one that some setting or
\* claim still names.
Fresh(u) ==
    /\ u \notin {running, retained, prefs.claim.at, accepted.at}
    /\ \A s \in Services : os[s].at # u /\ undo[s].prev.at # u

-----------------------------------------------------------------------------
(* How an operation begins *)

\* A variant for comparison: a change that forgets the service it leaves.
ForgetsOldService(c) == {}

\* The old claim's service is released first, if it still shows the claim; if it
\* shows a part of it, the change is refused.
OldService(c) ==
    LET o == CurrentClaim IN IF o.svc # c.svc /\ Matches(o) THEN {o.svc} ELSE {}
Stageable(c) ==
    LET o == CurrentClaim IN
    o = NoClaim \/ o.svc = c.svc \/ Matches(o) \/ ~References(o)

\* stage_native up to the first write.  The service is captured anew.
Stage(kind, c) ==
    /\ ~recovery
    /\ Stageable(c)
    /\ c.at \in Urls => retained = None
    /\ undo' = [s \in Services |-> IF s \in OldService(c) \cup {c.svc}
                                   THEN NewEntry(s) ELSE NoEntry]
    /\ target' = c.svc
    /\ minted' = IF c.at \in Urls THEN minted \cup {c.at} ELSE minted
    /\ LET o == CurrentClaim.svc
           change == Write(c.svc, os[c.svc], On(c.at)) IN
       jobs' = IF OldService(c) = {} THEN <<change>>
               ELSE <<Write(o, os[o], Off(os[o])), change>>
    /\ op' = [pc |-> "apply", kind |-> kind, claim |-> c]

Offered(c) == c.at \in Endpoints \/ Fresh(c.at)

\* set_enabled(true), and save_settings while the intent is enabled.
Enable(c) ==
    /\ op.pc = "idle"
    /\ Offered(c)
    /\ Stage("enable", c)
    /\ UNCHANGED <<native, prefs, accepted, running, retained, recovery, spent>>

\* What reconcile decides for the active service s.  With another manual endpoint
\* or any PAC URL a matching claim is applied again.
ReconcileLost(s) ==
    /\ prefs.enabled
    /\ LET c == CurrentClaim IN
       IF c.svc = s THEN ~Matches(c) ELSE Active(os[s])
ReconcileRestores(s, c) ==
    /\ prefs.enabled
    /\ ~ReconcileLost(s)
    /\ c.svc = s
    /\ CurrentClaim.svc = s => c # CurrentClaim

\* reconcile with a running core: nothing changes unless it restores the proxy.
Reconcile(c) ==
    /\ op.pc = "idle"
    /\ ReconcileRestores(c.svc, c)
    /\ Offered(c)
    /\ op' = [pc |-> "stage", kind |-> "restore", claim |-> c]
    /\ UNCHANGED <<native, prefs, accepted, pac, entries, recovery, jobs, spent>>

ReconcileStages ==
    /\ op.pc = "stage"
    /\ \/ Stage("restore", op.claim)
       \/ /\ recovery \/ ~Stageable(op.claim)
          /\ op' = Idle
          /\ UNCHANGED <<entries, minted, jobs>>
    /\ UNCHANGED <<native, prefs, accepted, running, retained, recovery, spent>>

\* set_enabled(false); release_owned, and reconcile without a core or a port, which
\* releases likewise but only under an enabled intent.
BeginRelease(kind) ==
    /\ op.pc = "idle"
    /\ op' = [pc |-> IF recovery THEN "recover" ELSE "claim", kind |-> kind,
              claim |-> NoClaim]
    /\ UNCHANGED <<native, prefs, accepted, pac, entries, recovery, jobs, spent>>

\* stage_release after the recovery.  Only what still shows the claim is changed.
ReleaseMatched ==
    LET c == CurrentClaim IN
    /\ Matches(c)
    /\ undo' = [NoUndo EXCEPT ![c.svc] = NewEntry(c.svc)]
    /\ target' = c.svc
    /\ jobs' = <<Write(c.svc, os[c.svc], Off(os[c.svc]))>>
    /\ op' = [op EXCEPT !.pc = "apply"]
    /\ UNCHANGED <<running, retained>>
ReleaseRefused ==
    LET c == CurrentClaim IN
    /\ c # NoClaim /\ ~Matches(c)
    /\ References(c) \/ ServesUrl(os[c.svc])
    /\ op' = Idle
    /\ UNCHANGED <<running, retained, entries, jobs>>
ReleaseUnmatched ==
    LET c == CurrentClaim IN
    /\ c # NoClaim /\ ~Matches(c)
    /\ ~References(c)
    /\ ~ServesUrl(os[c.svc])
    /\ running' = None /\ retained' = None
    /\ op' = [op EXCEPT !.pc = IF op.kind = "disable" THEN "persist" ELSE "clear"]
    /\ UNCHANGED <<entries, jobs>>
ReleaseNothing ==
    /\ CurrentClaim = NoClaim
    /\ op' = IF op.kind = "disable" THEN [op EXCEPT !.pc = "persist"] ELSE Idle
    /\ UNCHANGED <<running, retained, entries, jobs>>

StageRelease ==
    /\ op.pc = "claim"
    /\ ReleaseMatched \/ ReleaseRefused \/ ReleaseUnmatched \/ ReleaseNothing
    /\ UNCHANGED <<native, prefs, accepted, minted, recovery, spent>>

-----------------------------------------------------------------------------
(* Writing: apply and restore of the backend *)

Writing == {"apply", "undo", "retry", "safety"}

Fault == /\ spent.faults < MaxFaults
         /\ spent' = [spent EXCEPT !.faults = @ + 1]

\* Where a failing write leads: accept_attempt's error in each of its callers.
Failed(pc) == CASE pc = "apply" -> "rollback"
                [] pc = "undo" -> "safety"
                [] pc = "retry" -> "reobserve"
                [] pc = "safety" -> "giveup"

\* The service of the first of two entries.
First == CHOOSE s \in Entries : s # target

\* rollback's second loop: every entry, in order, each captured when it is reached.
Unplanned(s) == [svc |-> s, at |-> NoState, path |-> <<>>]
SafetyJobs ==
    IF Entries = {target} THEN <<Unplanned(target)>>
    ELSE <<Unplanned(First), Unplanned(target)>>

Fail ==
    /\ op' = [op EXCEPT !.pc = Failed(op.pc)]
    /\ jobs' = IF op.pc = "undo" THEN SafetyJobs ELSE <<>>

Planned == jobs # <<>> /\ jobs[1].at # NoState

\* Whose a setting is that we have written.
Author(s, x) == IF x = undo[s].prev THEN undo[s].by ELSE "us"

\* A variant for comparison: commands that rely on the first observation.
Assumed(s) == TRUE

\* same_state of the last observation.
Observed(s) == os[s] = jobs[1].at

\* The rest of the jobs after the first command of the first job.
Advance(x) == <<[jobs[1] EXCEPT !.at = x, !.path = Tail(@)]>> \o Tail(jobs)

\* The command's effect is recorded before it is attempted.
Command ==
    /\ op.pc \in Writing /\ Planned /\ jobs[1].path # <<>>
    /\ LET s == jobs[1].svc
           x == jobs[1].path[1] IN
       /\ Observed(s)
       /\ undo' = [undo EXCEPT ![s].known = @ \cup {x}, ![s].attempted = TRUE,
                               ![s].tried = @ \/ op.pc = "retry"]
       /\ \/ /\ os' = [os EXCEPT ![s] = x]
             /\ writer' = [writer EXCEPT ![s] = Author(s, x)]
             /\ jobs' = Advance(x)
             /\ UNCHANGED <<op, spent>>
          \/ /\ Fault
             /\ \/ UNCHANGED native
                \/ /\ os' = [os EXCEPT ![s] = x]
                   /\ writer' = [writer EXCEPT ![s] = Author(s, x)]
             /\ Fail
    /\ UNCHANGED <<prefs, accepted, pac, target, recovery>>

\* An observation that differs from the last one, or fails.
WriteFails ==
    /\ op.pc \in Writing /\ Planned
    /\ \/ ~Observed(jobs[1].svc) /\ UNCHANGED spent
       \/ Fault
    /\ Fail
    /\ UNCHANGED <<native, prefs, accepted, pac, entries, recovery>>

\* The readback of a complete write; the next service follows.
Verified ==
    /\ op.pc \in Writing /\ Planned /\ jobs[1].path = <<>>
    /\ Observed(jobs[1].svc)
    /\ undo' = [undo EXCEPT ![jobs[1].svc].observed = os[jobs[1].svc]]
    /\ jobs' = Tail(jobs)
    /\ UNCHANGED <<native, prefs, accepted, pac, target, recovery, op, spent>>

Written(pc) == op.pc = pc /\ jobs = <<>>

-----------------------------------------------------------------------------
(* The end of a change: NativeProxyTransaction::commit and ::rollback *)

\* A variant for comparison: any address is taken for a listener's.
CommitAny ==
    /\ accepted' = op.claim
    /\ running' = op.claim.at
    /\ retained' = retained
    /\ undo' = NoUndo /\ target' = None

\* commit: the listener of the change takes over, or none does.
Commit ==
    /\ accepted' = op.claim
    /\ running' = IF op.claim.at \in Urls THEN op.claim.at ELSE None
    /\ retained' = IF op.claim.at \in Urls THEN retained ELSE None
    /\ undo' = NoUndo /\ target' = None

\* A release that keeps the intent is committed before its metadata is cleared.
Applied ==
    /\ Written("apply")
    /\ IF op.kind = "release"
       THEN Commit /\ op' = [op EXCEPT !.pc = "clear"]
       ELSE op' = [op EXCEPT !.pc = "persist"] /\ UNCHANGED <<accepted, running, retained, entries>>
    /\ UNCHANGED <<native, prefs, minted, recovery, jobs, spent>>

Persist ==
    /\ op.pc = "persist"
    /\ prefs' = [enabled |-> IF op.kind = "restore" THEN prefs.enabled ELSE op.kind = "enable",
                 claim |-> op.claim]
    /\ IF Entries = {} THEN UNCHANGED <<accepted, running, retained, entries>> ELSE Commit
    /\ op' = Idle
    /\ UNCHANGED <<native, minted, recovery, jobs, spent>>

PersistFails ==
    /\ op.pc = "persist"
    /\ Fault
    /\ op' = IF Entries = {} THEN Idle ELSE [op EXCEPT !.pc = "rollback"]
    /\ UNCHANGED <<native, prefs, accepted, pac, entries, recovery, jobs>>

Clear ==
    /\ op.pc = "clear"
    /\ \/ prefs' = [prefs EXCEPT !.claim = NoClaim] /\ UNCHANGED spent
       \/ Fault /\ UNCHANGED prefs
    /\ op' = Idle
    /\ UNCHANGED <<native, accepted, pac, entries, recovery, jobs>>

\* restore_entries: in reverse order.  An entry whose writes never began and that
\* shows its previous state is left alone.
Untouched(s) == ~undo[s].attempted /\ os[s] = undo[s].prev
RestoreJob(s) == IF Untouched(s) THEN <<>> ELSE <<Write(s, os[s], undo[s].prev)>>
\* A variant for comparison: only the last service is restored.
RestoreLast == RestoreJob(target)

RestoreJobs ==
    IF Entries = {target} THEN RestoreJob(target)
    ELSE RestoreJob(target) \o RestoreJob(First)

Permitted(s) == os[s] \in undo[s].known
PermitsRetry(s) == os[s] \in {undo[s].prev, undo[s].observed}

\* Nothing is restored unless every service still shows a state we attempted.
Rollback ==
    /\ op.pc = "rollback"
    /\ \/ /\ \A s \in Entries : Permitted(s)
          /\ op' = [op EXCEPT !.pc = "undo"]
          /\ jobs' = RestoreJobs
          /\ UNCHANGED spent
       \/ /\ \/ Fault
             \/ (\E s \in Entries : ~Permitted(s)) /\ UNCHANGED spent
          /\ op' = [op EXCEPT !.pc = "safety"]
          /\ jobs' = SafetyJobs
    /\ UNCHANGED <<native, prefs, accepted, pac, entries, recovery>>

\* RecoveryConfirmed: the candidate's listener ends with the transaction.
RolledBack ==
    /\ Written("undo")
    /\ undo' = NoUndo /\ target' = None
    /\ op' = Idle
    /\ UNCHANGED <<native, prefs, accepted, pac, recovery, jobs, spent>>

\* The safety release of one service.
Safe ==
    /\ op.pc = "safety" /\ jobs # <<>> /\ ~Planned
    /\ LET s == jobs[1].svc IN
       \/ /\ os[s] = undo[s].prev \/ ~Active(os[s])
          /\ jobs' = Tail(jobs)
          /\ UNCHANGED <<op, spent>>
       \/ /\ os[s] # undo[s].prev /\ Active(os[s]) /\ Permitted(s)
          /\ jobs' = <<Write(s, os[s], Off(os[s]))>> \o Tail(jobs)
          /\ UNCHANGED <<op, spent>>
       \/ /\ \/ Fault
             \/ Active(os[s]) /\ ~Permitted(s) /\ UNCHANGED spent
          /\ Fail
    /\ UNCHANGED <<native, prefs, accepted, pac, entries, recovery>>

SafetyEnds ==
    /\ Written("safety")
    /\ op' = [op EXCEPT !.pc = "giveup"]
    /\ UNCHANGED <<native, prefs, accepted, pac, entries, recovery, jobs, spent>>

\* A last observation of the entries in S: evidence only if it succeeds and shows a
\* state we attempted.
Evidence(s) == IF Permitted(s) THEN os[s] ELSE NoState
ObserveAgain(S) ==
    \E blind \in SUBSET S :
        undo' = [s \in Services |->
            IF s \in S
            THEN [undo[s] EXCEPT !.observed = IF s \in blind THEN NoState ELSE Evidence(s)]
            ELSE undo[s]]

\* RecoveryUnconfirmed: the entries and the candidate are kept for recover_native.
GiveUp ==
    /\ op.pc = "giveup"
    /\ ObserveAgain(Entries)
    /\ retained' = IF Candidate # None THEN Candidate ELSE retained
    /\ recovery' = TRUE
    /\ op' = Idle
    /\ UNCHANGED <<native, prefs, accepted, running, minted, target, jobs, spent>>

-----------------------------------------------------------------------------
(* recover_native, at the beginning of every release *)

Recover ==
    /\ op.pc = "recover"
    /\ undo' = [s \in Services |-> [undo[s] EXCEPT !.tried = FALSE]]
    /\ \/ /\ \A s \in Entries : PermitsRetry(s)
          /\ op' = [op EXCEPT !.pc = "retry"]
          /\ jobs' = RestoreJobs
          /\ UNCHANGED spent
       \/ /\ \/ Fault
             \/ (\E s \in Entries : ~PermitsRetry(s)) /\ UNCHANGED spent
          /\ op' = Idle
          /\ UNCHANGED jobs
    /\ UNCHANGED <<native, prefs, accepted, pac, target, recovery>>

\* Only the entries this attempt wrote are observed again.
Reobserve ==
    /\ op.pc = "reobserve"
    /\ ObserveAgain({s \in Entries : undo[s].tried})
    /\ op' = Idle
    /\ UNCHANGED <<native, prefs, accepted, pac, target, recovery, jobs, spent>>

Recovered ==
    /\ Written("retry")
    /\ retained' = None
    /\ running' = IF \E s \in Entries : undo[s].prev.at = running /\ Active(undo[s].prev)
                  THEN running ELSE None
    /\ undo' = NoUndo /\ target' = None
    /\ recovery' = FALSE
    /\ op' = [op EXCEPT !.pc = "claim"]
    /\ UNCHANGED <<native, prefs, accepted, minted, jobs, spent>>

-----------------------------------------------------------------------------
(* The world *)

\* Another program sets its own proxy, switches a service off, or changes one of
\* the protocols of an active setting.
Intrusion(s) ==
    /\ spent.intrusions < MaxIntrusions
    /\ \E x \in {On(Foreign), Off(On(Foreign)), Off(os[s])}
                 \cup (IF os[s].flag = "on" THEN {[os[s] EXCEPT !.flag = "half"]} ELSE {}) :
        /\ x # os[s]
        /\ os' = [os EXCEPT ![s] = x]
    /\ writer' = [writer EXCEPT ![s] = "foreign"]
    /\ spent' = [spent EXCEPT !.intrusions = @ + 1]
    /\ UNCHANGED <<prefs, accepted, pac, entries, recovery, op, jobs>>

\* The process ends and is started again.  What a change or a pending recovery knew
\* about a service is in memory only: what it left there is nobody's.
Crash ==
    /\ Fault
    /\ writer' = [s \in Services |-> IF s \in Entries THEN "foreign"
                                     ELSE writer[s]]
    /\ accepted' = NoClaim
    /\ running' = None /\ retained' = None /\ minted' = {}
    /\ undo' = NoUndo /\ target' = None
    /\ recovery' = FALSE
    /\ op' = Idle /\ jobs' = <<>>
    /\ UNCHANGED <<os, prefs>>

Begin ==
    \/ \E c \in Claims : Enable(c) \/ Reconcile(c)
    \/ \E kind \in {"disable", "release"} : BeginRelease(kind)

Step ==
    \/ ReconcileStages \/ StageRelease
    \/ Command \/ WriteFails \/ Verified
    \/ Applied \/ Persist \/ PersistFails \/ Clear
    \/ Rollback \/ RolledBack \/ Safe \/ SafetyEnds \/ GiveUp
    \/ Recover \/ Reobserve \/ Recovered

Next == Begin \/ Step \/ (\E s \in Services : Intrusion(s)) \/ Crash

Spec == Init /\ [][Next]_vars

-----------------------------------------------------------------------------
(* Properties *)

\* Between operations, every proxy ZenClash set and that is still on can be found
\* again: the persisted claim names it, or the pending recovery holds its undo entry
\* (system_proxy.rs: reconcile, set_enabled, release_owned; native.rs: rollback,
\* recover_native).
ProxyTracked ==
    op.pc = "idle" =>
        \A s \in Services : writer[s] = "us" /\ Active(os[s]) =>
            \/ os[s] = On(prefs.claim.at) /\ prefs.claim.svc = s
            \/ recovery /\ s \in Entries

\* A proxy that another program has on is only changed by that program, or by a
\* change to ZenClash's own proxy that found it there when it was staged: never by a
\* release, a rollback, a safety release or a recovery (native.rs:
\* claim_matches_native, NativeMutationWitness::permits, permits_retry).
ForeignKept ==
    [][\A s \in Services :
         os[s] = On(Foreign) /\ os'[s] # os[s] /\ spent'.intrusions = spent.intrusions
         => op.pc = "apply" /\ op.kind \in {"enable", "restore"} /\ os[s] = undo[s].prev]_vars

\* No active setting names a PAC URL whose listener this process has closed
\* (pac.rs: commit, stop, retain_for_recovery, discard_retained), unless a
\* restoration of that URL, switched off, has set the address and no more.
PacServed ==
    \A s \in Services :
        Active(os[s]) /\ os[s].at \in minted =>
            \/ os[s].at \in {running, retained, Candidate}
            \/ undo[s].prev = Off(os[s])

\* A change that failed and reports its recovery as confirmed has left every service
\* as it found it, apart from what another program did since (native.rs: rollback).
RollbackExact ==
    [][op.pc = "undo" /\ op'.pc = "idle" /\ spent' = spent
       => \A s \in Entries : os[s] = undo[s].prev \/ writer[s] = "foreign"]_vars

\* What the documentation of SystemProxyOwnershipState::Lost says: ZenClash owned the
\* proxy, but another actor replaced it.
LostMeansReplaced ==
    op.pc = "idle" =>
        \A s \in Services : ReconcileLost(s) => writer[s] # "us"
=============================================================================
