------------------------------ MODULE MCClient ------------------------------
(***************************************************************************)
(* Small instances of Client for TLC.                                      *)
(***************************************************************************)
EXTENDS ClientInvariant, TLC

CONSTANTS c1, c2,     \* two invocations of one client
          r1,         \* a refresh of its catalog
          k1, dirty   \* a usable idempotency key, and one envelope() refuses

\* The calls differ in nothing but their name as long as both are observed.
Symmetry == Permutations({c1, c2})
=============================================================================
