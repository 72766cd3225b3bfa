------------------------------ MODULE DataLock ------------------------------
(***************************************************************************)
(* What the data coordinator promises (DataWriteLease in                   *)
(* crates/zenclash-core/src/data_coordinator.rs): a lock over the places   *)
(* of the data root, shared by writers and exclusive for a restore.  A     *)
(* grant lives as long as somebody uses it, whoever it was granted to.     *)
(* DataCoordinator is shown to implement it.                               *)
(***************************************************************************)
EXTENDS FiniteSets

CONSTANTS Ops, Places

VARIABLES
    scope,   \* the places of each grant, empty when there is none
    sole,    \* the grants that are exclusive
    users    \* the operations that work under each grant

lock == <<scope, sole, users>>

TypeOK ==
    /\ scope \in [Ops -> SUBSET Places]
    /\ sole \subseteq Ops
    /\ users \in [Ops -> SUBSET Ops]

Init ==
    /\ scope = [g \in Ops |-> {}]
    /\ sole = {}
    /\ users = [g \in Ops |-> {}]

Granted == {g \in Ops : users[g] # {}}

\* A writer may join writers; a restore shares its places with nobody.
Grant(g, S, exclusive) ==
    /\ users[g] = {}
    /\ \A h \in Granted : exclusive \/ h \in sole => S \cap scope[h] = {}
    /\ scope' = [scope EXCEPT ![g] = S]
    /\ sole' = IF exclusive THEN sole \cup {g} ELSE sole
    /\ users' = [users EXCEPT ![g] = {g}]

\* Only a grant in use can be joined: one that ended is never revived.
Join(g, t) ==
    /\ users[g] # {}
    /\ users' = [users EXCEPT ![g] = @ \cup {t}]
    /\ UNCHANGED <<scope, sole>>

Leave(g, t) ==
    /\ t \in users[g]
    /\ users' = [users EXCEPT ![g] = @ \ {t}]
    /\ IF users[g] = {t}
       THEN /\ scope' = [scope EXCEPT ![g] = {}]
            /\ sole' = sole \ {g}
       ELSE UNCHANGED <<scope, sole>>

Next ==
    \E g \in Ops :
        \/ \E S \in SUBSET Places, exclusive \in BOOLEAN : Grant(g, S, exclusive)
        \/ \E t \in Ops : Join(g, t) \/ Leave(g, t)

Spec == Init /\ [][Next]_lock
=============================================================================
