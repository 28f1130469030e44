-------------------------- MODULE PurchaseContract --------------------------
(***************************************************************************)
(* What purchase() promises its caller, whatever it does on the way.  A    *)
(* run is given a saved key; it ends bought, pending or thrown, or its     *)
(* process dies.  The account of a key is "open" until the service has     *)
(* charged it, "taken" from then on, and at last "settled" (the invocation *)
(* succeeded) or "lost" (it failed or was cancelled).                      *)
(*                                                                         *)
(*   - a key is charged at most once, and only after a run was given it;   *)
(*   - bought is returned only of a key that is settled, pending only of   *)
(*     one that was charged;                                               *)
(*   - a run that has ended stays as it ended, but its key may still be    *)
(*     charged, once, by the request it left on its way.                   *)
(***************************************************************************)
CONSTANTS Runs,      \* calls of purchase()
          Keys       \* saved purchase keys

VARIABLES key,       \* [Runs -> Keys]
          stage,     \* [Runs -> Stages]
          account    \* [Keys -> Accounts]

Endings == {"bought", "pending", "threw", "crashed"}
Stages == {"idle", "buying"} \cup Endings
Accounts == {"open", "taken", "settled", "lost"}

pvars == <<key, stage, account>>

ContractInit == /\ key \in [Runs -> Keys]
                /\ stage = [p \in Runs |-> "idle"]
                /\ account = [k \in Keys |-> "open"]

Move(p, s) == /\ stage' = [stage EXCEPT ![p] = s]
              /\ UNCHANGED <<key, account>>

Start(p) == stage[p] = "idle" /\ Move(p, "buying")

EndBought(p) == /\ stage[p] = "buying"
                /\ account[key[p]] = "settled"
                /\ Move(p, "bought")

EndPending(p) == /\ stage[p] = "buying"
                 /\ account[key[p]] # "open"
                 /\ Move(p, "pending")

EndThrown(p) == stage[p] = "buying" /\ Move(p, "threw")

EndCrashed(p) == stage[p] = "buying" /\ Move(p, "crashed")

\* A service that answers at once charges and settles in one step.
Charge(k) == /\ account[k] = "open"
             /\ \E p \in Runs : key[p] = k /\ stage[p] # "idle"
             /\ \E a \in {"taken", "settled"} :
                  account' = [account EXCEPT ![k] = a]
             /\ UNCHANGED <<key, stage>>

Settle(k) == /\ account[k] = "taken"
             /\ \E a \in {"settled", "lost"} :
                  account' = [account EXCEPT ![k] = a]
             /\ UNCHANGED <<key, stage>>

ContractNext == \/ \E p \in Runs : \/ Start(p) \/ EndBought(p) \/ EndPending(p)
                                   \/ EndThrown(p) \/ EndCrashed(p)
                \/ \E k \in Keys : Charge(k) \/ Settle(k)

Contract == ContractInit /\ [][ContractNext]_pvars
=============================================================================
