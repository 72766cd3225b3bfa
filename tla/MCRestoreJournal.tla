-------------------------- MODULE MCRestoreJournal --------------------------
(* An instance of RestoreJournal for TLC: two contents, so that old, imported *)
(* and later data can differ or coincide item by item.                       *)
EXTENDS RestoreJournal, TLC

CONSTANTS v1, v2

MCVersions == {v1, v2}
VersionSymmetry == Permutations(MCVersions)
=============================================================================
