----------------------------- MODULE MCPurchase -----------------------------
(***************************************************************************)
(* A small instance of Purchase for TLC.                                   *)
(***************************************************************************)
EXTENDS Purchase, TLC

CONSTANTS p1, p2,          \* two runs of purchase()
          document, inbox  \* a key for each kind of offer

\* Two runs of one saved key.  Runs of different keys share no request, record
\* or charge, and the key of a run never changes.
OneSavedKey == key[p1] = key[p2]
=============================================================================
