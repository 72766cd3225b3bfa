-------------------------- MODULE DataCoordinator --------------------------
(***************************************************************************)
(* The desktop's coordination of persistent writes with backup restores:   *)
(* crates/zenclash-core/src/data_coordinator.rs.                           *)
(*                                                                         *)
(* Operations ask for a scope, shared (a store's write) or exclusive (a    *)
(* restore, a recovery, an export).  One mutex and one condition variable  *)
(* admit them; a lease lives while a guard or a borrowed guard refers to   *)
(* it.  Each region under the mutex is one step; resolving the paths, the  *)
(* checks of a permit, the end of a guard and the wake-up of the waiters   *)
(* are steps between the regions.                                          *)
(*                                                                         *)
(* A path is abstracted to the places below it, so that starts_with in     *)
(* either direction is a non-empty intersection.  A managed place may be a *)
(* symbolic link; a restore that covers it may replace it by a directory   *)
(* or by a link to a place outside.                                        *)
(***************************************************************************)
EXTENDS FiniteSets

CONSTANTS
    Ops,       \* operations, each with at most one guard at a time
    NoOp,      \* no lease, no permit
    Places,    \* disjoint directories
    Managed,   \* the ones a restore may replace
    Requests   \* the scopes operations ask for

ASSUME CoordinatorAssumption ==
    /\ NoOp \notin Ops
    /\ Managed \subseteq Places
    /\ Requests \subseteq SUBSET Places

VARIABLES
    link,      \* the place each place resolves to
    pc,        \* what each operation is in the middle of
    places,    \* the places it asked for
    sole,      \* operations whose request is exclusive
    paths,     \* LeaseRecord::paths, LeaseInner::paths: resolved for each lease
    waiting,   \* LeaseState::waiting_restores
    ahead,     \* the waiting restores with a lower id than each waiting restore
    active,    \* LeaseState::active
    lease,     \* the LeaseInner each operation holds a strong reference to
    valid,     \* operations whose guard's flag is set (DataWriteLease::valid)
    permit     \* the WritePermit an operation was given: guard and lease

requests == <<places, sole, paths>>
queue == <<waiting, ahead, active>>
guards == <<lease, valid, permit>>
vars == <<link, pc, places, sole, paths, waiting, ahead, active, lease, valid, permit>>

\* "permit", "upgrade", "confirm": the three checks of WritePermit::acquire.
\* "request": before write_paths.  "resolved": before the mutex.
\* "asleep": in Condvar::wait.  "woken": notified, before it has the mutex again.
\* "check": admitted, before ensure_writes_available.  "held": the guard exists.
\* "declined", "dropped": about to drop a strong reference, with the request
\* still to be made or the operation over.  "renotify", "notify": it was the
\* last one, the record is gone and notify_all is still to come.
States == {"idle", "permit", "upgrade", "confirm", "request", "resolved", "asleep",
           "woken", "check", "held", "declined", "dropped", "renotify", "notify"}

NoPermit == [guard |-> NoOp, lease |-> NoOp]

TypeOK ==
    /\ link \in [Places -> Places]
    /\ pc \in [Ops -> States]
    /\ places \in [Ops -> SUBSET Places]
    /\ sole \subseteq Ops
    /\ paths \in [Ops -> SUBSET Places]
    /\ waiting \subseteq Ops
    /\ ahead \in [Ops -> SUBSET Ops]
    /\ active \subseteq Ops
    /\ lease \in [Ops -> Ops \cup {NoOp}]
    /\ valid \subseteq {t \in Ops : pc[t] \in {"check", "held"}}
    /\ permit \in [Ops -> [guard : Ops \cup {NoOp}, lease : Ops \cup {NoOp}]]

\* A managed place is a directory of its own or a link to a place outside.
Destinations(p) == IF p \in Managed THEN {p} \cup (Places \ Managed) ELSE {p}

Init ==
    /\ link \in {f \in [Places -> Places] : \A p \in Places : f[p] \in Destinations(p)}
    /\ pc = [t \in Ops |-> "idle"]
    /\ places = [t \in Ops |-> {}]
    /\ sole = {}
    /\ paths = [t \in Ops |-> {}]
    /\ waiting = {}
    /\ ahead = [t \in Ops |-> {}]
    /\ active = {}
    /\ lease = [t \in Ops |-> NoOp]
    /\ valid = {}
    /\ permit = [t \in Ops |-> NoPermit]

-----------------------------------------------------------------------------
\* write_paths: each path with its physical destination.
Resolved(S) == S \cup {link[p] : p \in S}

\* covers: both aliases of a path lie within the lease's scopes.
Covers(l, S) == Resolved(S) \subseteq paths[l]

References(l) == {t \in Ops : lease[t] = l}

\* Variants for comparison: a restore that does not wait for writers, and writers
\* that do not wait for a restore.
PassesWriters(t, S) ==
    \E u \in active : u \in sole /\ S \cap paths[u] # {}
PassesRestores(t, S) ==
    \E u \in active : t \in sole /\ S \cap paths[u] # {}

\* overlapping with an active lease, if either of the two is exclusive.
Conflicts(t, S) ==
    \E u \in active : (t \in sole \/ u \in sole) /\ S \cap paths[u] # {}

\* A variant for comparison: only restores wait for the restores ahead of them.
WritersOvertake(t, S, restores) ==
    t \in sole /\ \E u \in restores : S \cap paths[u] # {}

RestorePrecedes(t, S, restores) ==
    \E u \in restores : S \cap paths[u] # {}

\* An operation is named for reuse only when nothing refers to it any more.
Fresh(t) ==
    /\ pc[t] = "idle"
    /\ t \notin active
    /\ \A u \in Ops : lease[u] # t /\ permit[u].guard # t /\ permit[u].lease # t

-----------------------------------------------------------------------------
(* Requests and permits *)

\* DataWriteAccess::acquire without a permit, DataWriteLease::shared and ::exclusive.
Begin(t) ==
    /\ Fresh(t)
    /\ \E S \in Requests, exclusive \in BOOLEAN :
        /\ places' = [places EXCEPT ![t] = S]
        /\ sole' = IF exclusive THEN sole \cup {t} ELSE sole
    /\ pc' = [pc EXCEPT ![t] = "request"]
    /\ UNCHANGED <<link, paths, queue, guards>>

\* authorized: the holder of a guard lends its authority to a store's operation.
\* The assertion refuses a store the lease does not cover.
Lend(g, t) ==
    /\ pc[g] = "held"
    /\ Fresh(t)
    /\ \E S \in Requests :
        /\ Covers(lease[g], S)
        /\ places' = [places EXCEPT ![t] = S]
    /\ permit' = [permit EXCEPT ![t] = [guard |-> g, lease |-> lease[g]]]
    /\ pc' = [pc EXCEPT ![t] = "permit"]
    /\ UNCHANGED <<link, sole, paths, queue, lease, valid>>

Withdrawn(t, next) ==
    /\ permit' = [permit EXCEPT ![t] = NoPermit]
    /\ pc' = [pc EXCEPT ![t] = next]

\* A permit whose guard ended is no authority: the operation asks like any other.
CheckPermit(t) ==
    /\ pc[t] = "permit"
    /\ IF permit[t].guard \in valid
       THEN pc' = [pc EXCEPT ![t] = "upgrade"] /\ UNCHANGED permit
       ELSE Withdrawn(t, "request")
    /\ UNCHANGED <<link, requests, queue, lease, valid>>

UpgradePermit(t) ==
    /\ pc[t] = "upgrade"
    /\ IF References(permit[t].lease) # {}
       THEN /\ lease' = [lease EXCEPT ![t] = permit[t].lease]
            /\ pc' = [pc EXCEPT ![t] = "confirm"]
            /\ UNCHANGED permit
       ELSE Withdrawn(t, "request") /\ UNCHANGED lease
    /\ UNCHANGED <<link, requests, queue, valid>>

\* The flag is read again now that the lease cannot end.  A lease that covers
\* the store's path but not all its scopes is an error, one that does not cover
\* the path is as good as none.
ConfirmPermit(t) ==
    /\ pc[t] = "confirm"
    /\ LET lent == permit[t].guard \in valid
           path(p) == Covers(lease[t], {p})
       IN  \/ /\ lent /\ Covers(lease[t], places[t])
              /\ Withdrawn(t, "held")
              /\ valid' = valid \cup {t}
           \/ /\ lent /\ ~Covers(lease[t], places[t])
              /\ \E p \in places[t] : path(p)
              /\ Withdrawn(t, "dropped")
              /\ UNCHANGED valid
           \/ /\ ~lent \/ \E p \in places[t] : ~path(p)
              /\ Withdrawn(t, "declined")
              /\ UNCHANGED valid
    /\ UNCHANGED <<link, requests, queue, lease>>

-----------------------------------------------------------------------------
(* acquire *)

Resolve(t) ==
    /\ pc[t] = "request"
    /\ paths' = [paths EXCEPT ![t] = Resolved(places[t])]
    /\ pc' = [pc EXCEPT ![t] = "resolved"]
    /\ UNCHANGED <<link, places, sole, queue, guards>>

\* The loop's end: the record moves from the waiting restores to the active leases.
Admitted(t) ==
    /\ waiting' = waiting \ {t}
    /\ ahead' = [u \in Ops |-> IF u = t THEN {} ELSE ahead[u] \ {t}]
    /\ active' = active \cup {t}
    /\ lease' = [lease EXCEPT ![t] = t]
    /\ valid' = valid \cup {t}
    /\ pc' = [pc EXCEPT ![t] = IF t \in sole THEN "held" ELSE "check"]

\* The waiting restores with a lower id.  A variant for comparison: or the same id.
UpToItself(t) == waiting \cup {t}
Earlier(t) == waiting

\* The region from the mutex to the first wait, or to the admission.
Enter(t) ==
    /\ pc[t] = "resolved"
    /\ IF Conflicts(t, paths[t]) \/ RestorePrecedes(t, paths[t], waiting)
       THEN /\ waiting' = IF t \in sole THEN waiting \cup {t} ELSE waiting
            /\ ahead' = [ahead EXCEPT ![t] = IF t \in sole THEN Earlier(t) ELSE {}]
            /\ pc' = [pc EXCEPT ![t] = "asleep"]
            /\ UNCHANGED <<active, lease, valid>>
       ELSE Admitted(t)
    /\ UNCHANGED <<link, requests, permit>>

\* After a wake-up the physical destination is resolved again, under the mutex,
\* and the waiting record follows.
Recheck(t) ==
    /\ pc[t] = "woken"
    /\ paths' = [paths EXCEPT ![t] = Resolved(places[t])]
    /\ LET restores == IF t \in sole THEN ahead[t] ELSE waiting
       IN  IF \/ Conflicts(t, Resolved(places[t]))
              \/ RestorePrecedes(t, Resolved(places[t]), restores)
           THEN /\ pc' = [pc EXCEPT ![t] = "asleep"]
                /\ UNCHANGED <<queue, lease, valid>>
           ELSE Admitted(t)
    /\ UNCHANGED <<link, places, sole, permit>>

\* The guard's flag is cleared.  A variant for comparison: permits outlive it.
StillValid(t) == valid
Revoked(t) == valid \ {t}

\* ensure_writes_available: an unfinished restore refuses the writer it let in.
CheckAvailable(t) ==
    /\ pc[t] = "check"
    /\ \/ pc' = [pc EXCEPT ![t] = "held"] /\ UNCHANGED valid
       \/ pc' = [pc EXCEPT ![t] = "dropped"] /\ valid' = Revoked(t)
    /\ UNCHANGED <<link, requests, queue, lease, permit>>

-----------------------------------------------------------------------------
(* The end of a guard *)

\* DataWriteLease::drop: permits of this guard expire before its reference goes.
Drop(t) ==
    /\ pc[t] = "held"
    /\ valid' = Revoked(t)
    /\ pc' = [pc EXCEPT ![t] = "dropped"]
    /\ UNCHANGED <<link, requests, queue, lease, permit>>

\* The last reference removes the record under the mutex (LeaseInner::drop).  The
\* waiters are woken after it is released.
Forgotten(l) ==
    /\ active' = active \ {l}
    /\ paths' = [paths EXCEPT ![l] = {}]
    /\ sole' = sole \ {l}

\* The reference t drops is the last one.  A variant for comparison: the record
\* goes with the guard it was made for.
WithItsGuard(t) == lease[t] = t
LastReference(t) == References(lease[t]) = {t}

Release(t) ==
    /\ pc[t] \in {"dropped", "declined"}
    /\ lease' = [lease EXCEPT ![t] = NoOp]
    /\ places' = [places EXCEPT ![t] = IF pc[t] = "declined" THEN @ ELSE {}]
    /\ IF LastReference(t)
       THEN /\ Forgotten(lease[t])
            /\ pc' = [pc EXCEPT ![t] = IF @ = "declined" THEN "renotify" ELSE "notify"]
       ELSE /\ pc' = [pc EXCEPT ![t] = IF @ = "declined" THEN "request" ELSE "idle"]
            /\ UNCHANGED <<active, paths, sole>>
    /\ UNCHANGED <<link, waiting, ahead, valid, permit>>

Notify(t) ==
    /\ pc[t] \in {"notify", "renotify"}
    /\ pc' = [u \in Ops |->
                IF u = t THEN IF pc[t] = "renotify" THEN "request" ELSE "idle"
                ELSE IF pc[u] = "asleep" THEN "woken" ELSE pc[u]]
    /\ UNCHANGED <<link, requests, queue, guards>>

-----------------------------------------------------------------------------
\* A restore that covers a managed directory puts a directory in its place, and
\* its rollback the link that was there.
ReplaceDirectory(t) ==
    /\ pc[t] = "held"
    /\ t \in sole /\ lease[t] = t
    /\ \E p \in Managed \cap paths[t] :
        \E q \in Destinations(p) : link' = [link EXCEPT ![p] = q]
    /\ UNCHANGED <<pc, requests, queue, guards>>

Step(t) ==
    \/ CheckPermit(t) \/ UpgradePermit(t) \/ ConfirmPermit(t)
    \/ Resolve(t) \/ Enter(t) \/ Recheck(t) \/ CheckAvailable(t)
    \/ Drop(t) \/ Release(t) \/ Notify(t)

Next ==
    \E t \in Ops :
        \/ Begin(t)
        \/ \E g \in Ops : Lend(g, t)
        \/ Step(t)
        \/ ReplaceDirectory(t)

Spec == Init /\ [][Next]_vars

\* Operations go on and end: the mutex is fair, a store's write and a restore
\* return.  Nobody has to begin, to lend or to replace anything.
FairSpec == Spec /\ \A t \in Ops : WF_vars(Step(t))

-----------------------------------------------------------------------------
(* Properties *)

\* While an operation works under a lease, its own or a borrowed one, no other
\* operation works under a lease that shares a place with it, if either is a
\* restore's.  It spans the record, the references that keep it and the permits.
RestoresAlone ==
    \A t, u \in Ops :
        /\ lease[t] # NoOp /\ lease[u] # NoOp /\ lease[t] # lease[u]
        /\ lease[t] \in sole
        => paths[lease[t]] \cap paths[lease[u]] = {}

\* An operation that sleeps is woken by somebody: a lease is still active, a
\* notification is owed, or a waiting restore is on its way to the mutex.
WakeupOwed ==
    \A t \in Ops :
        pc[t] = "asleep" =>
            \/ active # {}
            \/ \E u \in Ops : pc[u] \in {"notify", "renotify"}
            \/ \E u \in waiting : pc[u] = "woken"

\* The directories below an admitted scope are replaced by nobody but the restore
\* that was admitted for them: what a writer resolved stays what it writes to.
ScopeStable ==
    [][\A t \in Ops :
        lease[t] # NoOp /\ lease[t] \notin sole =>
            \A p \in paths[lease[t]] : link'[p] = link[p]]_vars

\* A restore that waits is admitted: writers that arrive later do not pass it,
\* and a wake-up reaches it after the last lease in its way has ended.
RestoreAdmitted ==
    \A t \in Ops : (pc[t] = "asleep" /\ t \in sole) ~> pc[t] = "held"

\* The leases are a readers-writers lock over places, used by whoever holds a
\* reference to the lease.
Lock == INSTANCE DataLock WITH
    scope <- [l \in Ops |-> IF l \in active THEN paths[l] ELSE {}],
    sole <- sole \cap active,
    users <- [l \in Ops |-> References(l)]
ImplementsLock == Lock!Spec
=============================================================================
