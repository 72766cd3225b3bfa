-------------------------- MODULE MCCoreSession --------------------------
(* An instance of CoreSession for TLC.                                      *)
EXTENDS CoreSession

CONSTANTS home, tray
OneCaller == {home}
TwoCallers == {home, tray}
=============================================================================
