------------------------ MODULE ExecutionReservation ------------------------
(***************************************************************************)
(* What the execution reservation promises (the lock file behind           *)
(* `CoreExecutionGuard` in crates/zenclash-service/src/execution.rs): one  *)
(* of the daemon and the desktop's Sidecar may run a core, and the daemon  *)
(* gives its turn back only after every core it ran is gone or has left    *)
(* its hands.  CoreManager is shown to implement it.                       *)
(***************************************************************************)
EXTENDS FiniteSets

CONSTANT Cores

VARIABLES
    holder,   \* who holds the reservation
    cores     \* the cores a living daemon is responsible for

reservation == <<holder, cores>>

TypeOK ==
    /\ holder \in {"nobody", "service", "sidecar"}
    /\ cores \subseteq Cores

Init == holder = "nobody" /\ cores = {}

Acquire(who) ==
    /\ holder = "nobody"
    /\ holder' = who
    /\ UNCHANGED cores

Spawn(c) ==
    /\ holder = "service"
    /\ cores = {}
    /\ cores' = {c}
    /\ UNCHANGED holder

\* A core exits, is killed, or is handed to the task that will kill it.
Retire(c) ==
    /\ c \in cores
    /\ cores' = cores \ {c}
    /\ UNCHANGED holder

\* A failed start retires its core and gives the reservation back at once.
Release ==
    /\ holder = "service"
    /\ holder' = "nobody"
    /\ cores' = {}

SidecarGone ==
    /\ holder = "sidecar"
    /\ holder' = "nobody"
    /\ UNCHANGED cores

\* The operating system drops the lock of a dead daemon, whose cores may live on:
\* they are the next daemon's reconciliation, not this reservation.
DaemonDies ==
    /\ holder' = IF holder = "service" THEN "nobody" ELSE holder
    /\ cores' = {}

Next ==
    \/ \E who \in {"service", "sidecar"} : Acquire(who)
    \/ \E c \in Cores : Spawn(c) \/ Retire(c)
    \/ Release
    \/ SidecarGone
    \/ DaemonDies

Spec == Init /\ [][Next]_reservation
=============================================================================
