--------------------------- MODULE MCCoreManager ---------------------------
(* Instances of CoreManager for TLC: two process identities, so that a second *)
(* core can exist next to the first, and a configuration of either kind.      *)
EXTENDS CoreManager, TLC

CONSTANTS c1, c2, tun, plain

MCCores == {c1, c2}
TwoConfigs == {tun, plain}
TunConfig == {tun}
CoreSymmetry == Permutations(MCCores)
=============================================================================
