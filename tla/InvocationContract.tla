------------------------ MODULE InvocationContract ------------------------
(***************************************************************************)
(* What one client promises the caller of invoke(), whatever rail pays and *)
(* whatever the transport does.  A call is "open" until its purchase       *)
(* identity (offer, key, revision) has been handed to the caller's own     *)
(* observer, then "cleared", then over.  Money is "safe" until a signed    *)
(* request has left, "exposed" while such a request may still be admitted, *)
(* "charged" once the service has taken it.                                *)
(*                                                                         *)
(*   - money moves only for a call that was cleared;                       *)
(*   - a call that ends without an identity in its outcome ("error") has   *)
(*     no money exposed and none charged, and never will have;             *)
(*   - one call is charged at most once, and nothing undoes a charge.      *)
(***************************************************************************)
EXTENDS Naturals

CONSTANT Calls      \* the invocations

VARIABLES stage,    \* [Calls -> Stages]
          money     \* [Calls -> {"safe", "exposed", "charged"}]

(***************************************************************************)
(* "kept" stands for every ending that carries the identity: a result, a   *)
(* refusal by the service, an uncertain answer.                            *)
(***************************************************************************)
Ended == {"kept", "error", "crashed"}
Stages == {"open", "cleared"} \cup Ended

cvars == <<stage, money>>

ContractInit == /\ stage = [c \in Calls |-> "open"]
                /\ money = [c \in Calls |-> "safe"]

Clear(c) == /\ stage[c] = "open"
            /\ stage' = [stage EXCEPT ![c] = "cleared"]
            /\ UNCHANGED money

Expose(c) == /\ stage[c] = "cleared"
             /\ money[c] = "safe"
             /\ money' = [money EXCEPT ![c] = "exposed"]
             /\ UNCHANGED stage

\* The service may admit an exposed request late: after the call has ended
\* uncertain, or after the buyer's process has crashed.
Charge(c) == /\ money[c] = "exposed"
             /\ money' = [money EXCEPT ![c] = "charged"]
             /\ UNCHANGED stage

Release(c) == /\ money[c] = "exposed"
              /\ money' = [money EXCEPT ![c] = "safe"]
              /\ UNCHANGED stage

EndKept(c) == /\ stage[c] = "cleared"
              /\ stage' = [stage EXCEPT ![c] = "kept"]
              /\ UNCHANGED money

EndInError(c) == /\ stage[c] \in {"open", "cleared"}
                 /\ money[c] = "safe"
                 /\ stage' = [stage EXCEPT ![c] = "error"]
                 /\ UNCHANGED money

\* A crash of the process ends every call in flight at once.
Crash == /\ stage' \in [Calls -> Stages]
         /\ \A c \in Calls : \/ stage'[c] = stage[c]
                             \/ stage[c] \notin Ended /\ stage'[c] = "crashed"
         /\ UNCHANGED money

ContractNext == \/ \E c \in Calls : \/ Clear(c) \/ Expose(c) \/ Charge(c)
                                    \/ Release(c) \/ EndKept(c) \/ EndInError(c)
                \/ Crash

Contract == ContractInit /\ [][ContractNext]_cvars
============================================================================
