------------------------------ MODULE MCRbTree ------------------------------
(***************************************************************************)
(* Constants for checking RbTree: two of the nodes have the same key.      *)
(***************************************************************************)
EXTENDS RbTree

MCNodes == 1..7
MCKey   == [n \in MCNodes |-> IF n = 7 THEN 3 ELSE n]
=============================================================================
