------------------------------ MODULE MCPorts ------------------------------
(***************************************************************************)
(* A small instance of Ports for TLC: two calls of any two languages, with *)
(* one purchase key or two.                                                *)
(***************************************************************************)
EXTENDS Ports, TLC

CONSTANTS c1, c2, k1, k2

Symmetry == Permutations({c1, c2}) \cup Permutations({k1, k2})
============================================================================
