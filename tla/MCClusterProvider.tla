------------------------- MODULE MCClusterProvider -------------------------
(***************************************************************************)
(* A small instance of ClusterProvider: two profiles of different names.   *)
(***************************************************************************)
EXTENDS ClusterProvider

CONSTANTS p1, p2, n1, n2

TwoNames == [p \in Profiles |-> IF p = p1 THEN n1 ELSE n2]
=============================================================================
