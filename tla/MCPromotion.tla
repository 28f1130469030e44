---------------------------- MODULE MCPromotion ----------------------------
(***************************************************************************)
(* A small instance of Promotion for TLC: two packages and the commits     *)
(* before and after a release of both.                                     *)
(***************************************************************************)
EXTENDS Promotion

MCDirectories == <<"sdk", "ausca">>
MCRelease(v) == [p \in {"sdk", "ausca"} |-> v]
MCManifests == {MCRelease(1), MCRelease(2)}
MCFirst == MCRelease(1)
============================================================================
