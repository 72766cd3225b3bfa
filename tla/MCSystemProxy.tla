-------------------------- MODULE MCSystemProxy --------------------------
(* An instance of SystemProxy for TLC: two network services, one manual      *)
(* endpoint, two PAC listeners.                                              *)
EXTENDS SystemProxy, TLC

CONSTANTS wifi, lan, mixed, u1, u2

MCServices == {wifi, lan}
MCEndpoints == {mixed}
MCUrls == {u1, u2}
ProxySymmetry == Permutations(MCServices) \cup Permutations(MCUrls)
=============================================================================
