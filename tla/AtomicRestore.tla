--------------------------- MODULE AtomicRestore ---------------------------
(***************************************************************************)
(* What a backup restore promises to whoever uses the data directory: the  *)
(* data is replaced as a whole or not at all, a restore that was accepted  *)
(* is never taken back, one that was reported as rolled back has left      *)
(* nothing behind, and nobody writes in between.  RestoreJournal is shown  *)
(* to implement it.                                                        *)
(***************************************************************************)
CONSTANTS Items, Versions, Absent

VARIABLES
    data,       \* what the data directory stands for
    undecided,  \* a restore is neither accepted nor taken back
    offered,    \* the imported data
    answer      \* what the last restore reported

directory == <<data, undecided, offered, answer>>

Init ==
    /\ data \in [Items -> Versions \cup {Absent}]
    /\ ~undecided
    /\ offered \in [Items -> Versions]
    /\ answer = "none"

Write ==
    /\ ~undecided
    /\ \E i \in Items, v \in Versions : data' = [data EXCEPT ![i] = v]
    /\ UNCHANGED <<undecided, offered, answer>>

Begin ==
    /\ ~undecided
    /\ undecided'
    /\ offered' \in [Items -> Versions]
    /\ answer' = "none"
    /\ UNCHANGED data

\* The core that validates the imported data may write to it.
Validate ==
    /\ undecided
    /\ offered' \in [Items -> Versions]
    /\ UNCHANGED <<data, undecided, answer>>

Accept ==
    /\ undecided
    /\ ~undecided'
    /\ data' = offered
    /\ answer' = "committed"
    /\ UNCHANGED offered

TakeBack ==
    /\ undecided
    /\ ~undecided'
    /\ answer' = "rolled back"
    /\ UNCHANGED <<data, offered>>

\* The restore could not be taken back: it stays undecided, or stands as a whole.
GiveUp ==
    /\ undecided
    /\ \/ UNCHANGED <<data, undecided>>
       \/ ~undecided' /\ data' \in {data, offered}
    /\ answer' = "failed"
    /\ UNCHANGED offered

\* The process died, or a restart recovered what it left: one of the two, whole.
Recover ==
    /\ undecided
    /\ ~undecided'
    /\ data' \in {data, offered}
    /\ UNCHANGED <<offered, answer>>

Next == Write \/ Begin \/ Validate \/ Accept \/ TakeBack \/ GiveUp \/ Recover

Spec == Init /\ [][Next]_directory
=============================================================================
