--------------------------- MODULE MCOwnerSession ---------------------------
(* The desktop processes of two accounts. *)
EXTENDS OwnerSession

CONSTANTS guiA, guiB, alice, bob
MCGuis == {guiA, guiB}
MCOwners == {alice, bob}
MCOwnerOf == [g \in MCGuis |-> IF g = guiA THEN alice ELSE bob]
=============================================================================
