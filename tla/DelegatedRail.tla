---------------------------- MODULE DelegatedRail ----------------------------
(***************************************************************************)
(* invoke() over a delegated executor: an authority that performs its own  *)
(* transport inside the wrapper and never calls the fetch it was given,    *)
(* which packages/sdk/src/payment.ts:14 names as one that fits.  The flags *)
(* of invoke are set in that fetch alone.                                  *)
(*                                                                         *)
(* The executor is outside the repository.  It sends what it was handed,   *)
(* pays within the cap, and its transport fails like any other; its        *)
(* unsigned challenge is left out.                                         *)
(***************************************************************************)
EXTENDS Client

DelegateSends(c) ==
  /\ pc[c] = "authority"
  /\ frame[c].sends < MaxSends
  /\ Goto(c, "sent", [frame[c] EXCEPT !.sends = @ + 1])
  /\ \E a \in {a \in Amounts : a <= Cap} :
       wire' = wire \cup {[call |-> c, n |-> frame[c].sends + 1,
                           key |-> key[c], revision |-> binding[c],
                           signed |-> TRUE, amount |-> a]}
  /\ UNCHANGED <<client, catalog, service, binding, reply, shown>>

\* The challenge is above the cap: nothing is sent.
DelegateRefuses(c) ==
  /\ pc[c] = "authority"
  /\ Caught(c)
  /\ UNCHANGED <<client, catalog, service, binding, reply, shown, wire>>

\* Its connection breaks: the wrapped fetch rejects, and no flag was set.
DelegateFails(c) ==
  /\ pc[c] = "sent"
  /\ Caught(c)
  /\ reply' = [reply EXCEPT ![c] = NoReply]
  /\ UNCHANGED <<client, catalog, service, binding, shown, wire>>

DelegateReturns(c) ==
  /\ pc[c] = "sent"
  /\ reply[c].status # Null
  /\ Goto(c, "body", [frame[c] EXCEPT !.last = reply[c].status])
  /\ reply' = [reply EXCEPT ![c] = NoReply]
  /\ UNCHANGED <<client, catalog, service, binding, shown, wire>>

DelegatedStep(c) ==
  \/ Invoke(c) \/ RequestTraced(c) \/ ObserverRefuses(c)
  \/ DelegateSends(c) \/ DelegateRefuses(c) \/ DelegateFails(c)
  \/ DelegateReturns(c)
  \/ BodyLost(c) \/ BodyRead(c) \/ UncertainTraced(c)

DelegatedNext == \/ \E c \in Calls : DelegatedStep(c)
                 \/ \E f \in Fetchers : FetchStep(f)
                 \/ \E q \in wire : Serve(q)
                 \/ Rest

DelegatedSpec == Init /\ [][DelegatedNext]_vars

\* client.ts:309 says of the error it rethrows that it is "a policy refusal
\* before payment": no money is behind it, whichever authority paid.
RefusedBeforePayment == NoMoneyBehindAnError
=============================================================================
