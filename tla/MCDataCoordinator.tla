------------------------- MODULE MCDataCoordinator -------------------------
(* An instance of DataCoordinator for TLC: three operations, one managed     *)
(* directory that may be a link to a place outside, and the three scopes     *)
(* over the two.                                                             *)
EXTENDS DataCoordinator

CONSTANTS o1, o2, o3, data, outside

MCOps == {o1, o2, o3}
MCPlaces == {data, outside}
MCManaged == {data}
MCRequests == {{data}, {outside}, {data, outside}}
=============================================================================
