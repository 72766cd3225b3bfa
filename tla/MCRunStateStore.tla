-------------------------- MODULE MCRunStateStore --------------------------
(* An instance of RunStateStore for TLC: three callers, so that a reading, a *)
(* statement and an operation overlap, and one health of each kind that the  *)
(* admission rules tell apart.                                               *)
EXTENDS RunStateStore, TLC

CONSTANTS t1, t2, t3

MCThreads == {t1, t2, t3}
MCVerdicts == {"Ready", "NotInstalled"}
MCActions == {"Install", "Reinstall"}
ThreadSymmetry == Permutations(MCThreads)
=============================================================================
