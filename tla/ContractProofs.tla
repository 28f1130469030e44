--------------------------- MODULE ContractProofs ---------------------------
(***************************************************************************)
(* Client implements InvocationContract for every value of the constants:  *)
(* its initial states map to initial states of the contract, and a step    *)
(* from a state of IInv to another maps to a step of the contract, or to   *)
(* none.  A step of Client moves the stage of one call, or the money of    *)
(* one call, or crashes.                                                   *)
(***************************************************************************)
EXTENDS ClientProofs

Step == Contract!ContractNext
mapped == <<stageOf, moneyOf>>

LEMMA StageValue ==
  ASSUME NEW c \in Calls, pc[c] \in Phases
  PROVE  /\ stageOf[c] = "open" <=> pc[c] \in Unpaid
         /\ stageOf[c] = "cleared" <=> pc[c] \in Cleared
         /\ stageOf[c] = "crashed" <=> pc[c] = "crashed"
         /\ pc[c] = "done" => stageOf[c] = IF outcome[c] \in Kept THEN "kept"
                                           ELSE "error"
  BY DEF stageOf, Phases, Unpaid, Cleared, Paying

LEMMA MoneyUnchanged ==
  ASSUME UNCHANGED <<wire, charges>>
  PROVE  moneyOf' = moneyOf
  BY DEF moneyOf, ChargedBy, SignedInFlight

LEMMA StageUnchanged ==
  ASSUME \A d \in Calls : stageOf'[d] = stageOf[d]
  PROVE  stageOf' = stageOf
  BY DEF stageOf

LEMMA StageExcept ==
  ASSUME NEW c \in Calls, \A d \in Calls : d # c => stageOf'[d] = stageOf[d]
  PROVE  stageOf' = [stageOf EXCEPT ![c] = stageOf'[c]]
  BY DEF stageOf

\* A call without a request on the wire and without a charge is safe.
LEMMA SafeMoney ==
  ASSUME NEW c \in Calls, WireOf(c) = {}, ~ChargedBy(c)
  PROVE  moneyOf[c] = "safe"
  BY DEF moneyOf, WireOf, SignedInFlight

(***************************************************************************)
(* The stage of one call moves, and no money does.                         *)
(***************************************************************************)
LEMMA StageMoves ==
  ASSUME IInv, TypeOK', Settled', Clean', NEW c \in Calls,
         UNCHANGED <<wire, charges>>,
         \A d \in Calls : d # c => pc'[d] = pc[d] /\ outcome'[d] = outcome[d],
         \/ pc[c] \in Unpaid /\ pc'[c] \in Unpaid
         \/ pc[c] \in Unpaid /\ pc'[c] = "authority"
         \/ pc[c] \in Unpaid /\ pc'[c] = "done" /\ outcome'[c] = "error"
         \/ pc[c] \in Cleared /\ pc'[c] \in Cleared \cup {"done"}
  PROVE  [Step]_mapped
<1>1. moneyOf' = moneyOf
  BY MoneyUnchanged
<1>2. \A d \in Calls : d # c => stageOf'[d] = stageOf[d]
  BY DEF stageOf
<1>3. pc[c] \in Phases /\ pc'[c] \in Phases /\ outcome'[c] \in Outcomes
  BY DEF IInv, TypeOK, Fetchers
<1>4. /\ stageOf'[c] = "open" <=> pc'[c] \in Unpaid
      /\ stageOf'[c] = "cleared" <=> pc'[c] \in Cleared
      /\ pc'[c] = "done" => stageOf'[c] = IF outcome'[c] \in Kept THEN "kept"
                                          ELSE "error"
  BY <1>3 DEF stageOf, Phases, Unpaid, Cleared, Paying
<1>5. CASE stageOf'[c] = stageOf[c]
  BY <1>1, <1>2, <1>5, StageUnchanged DEF mapped
<1>6. CASE stageOf[c] = "open" /\ stageOf'[c] = "cleared"
  <2>1. Contract!Clear(c)
    BY <1>1, <1>2, <1>6, StageExcept DEF Contract!Clear
  <2>2. QED
    BY <2>1 DEF Step, Contract!ContractNext
<1>7. CASE stageOf[c] = "cleared" /\ pc'[c] = "done" /\ outcome'[c] \in Kept
  <2>1. Contract!EndKept(c)
    BY <1>1, <1>2, <1>4, <1>7, StageExcept DEF Contract!EndKept
  <2>2. QED
    BY <2>1 DEF Step, Contract!ContractNext
<1>8. CASE /\ stageOf[c] \in {"open", "cleared"}
           /\ pc'[c] = "done" /\ outcome'[c] \notin Kept
  <2>1. outcome'[c] = "error"
    BY <1>3, <1>8 DEF Settled, Outcomes
  <2>2. WireOf(c)' = {} /\ ~ChargedBy(c)'
    BY <2>1 DEF Clean
  <2>3. moneyOf[c] = "safe"
    BY <2>2, SafeMoney DEF WireOf, ChargedBy
  <2>4. Contract!EndInError(c)
    BY <1>1, <1>2, <1>4, <1>8, <2>3, StageExcept DEF Contract!EndInError
  <2>5. QED
    BY <2>4 DEF Step, Contract!ContractNext
<1>9. QED
  <2>1. /\ stageOf[c] = "open" <=> pc[c] \in Unpaid
        /\ stageOf[c] = "cleared" <=> pc[c] \in Cleared
    BY <1>3, StageValue
  <2>2. "authority" \in Cleared /\ "error" \notin Kept
    BY DEF Cleared, Paying, Kept
  <2>3. QED
    BY <1>4, <1>5, <1>6, <1>7, <1>8, <2>1, <2>2

(***************************************************************************)
(* The money of one call moves, and no stage does.                         *)
(***************************************************************************)
LEMMA SendMoves ==
  ASSUME IInv, NEW c \in Calls, NEW revision, NEW signed, NEW amount,
         pc[c] = "authority", revision = binding[c],
         BaseFetch(c, revision, signed, amount), UNCHANGED charges
  PROVE  [Step]_mapped
<1> DEFINE new == [call |-> c, n |-> frame[c].sends + 1, key |-> key[c],
                   revision |-> revision, signed |-> signed, amount |-> amount]
<1>1. wire' = wire \cup {new} /\ new.call = c /\ new.signed = signed
  BY DEF BaseFetch
<1>2. /\ pc'[c] = "sent" /\ outcome' = outcome
      /\ \A d \in Calls : d # c => pc'[d] = pc[d]
  BY GotoShape DEF BaseFetch, IInv, Fetchers
<1> HIDE DEF new
<1>3. stageOf' = stageOf
  <2>1. stageOf'[c] = stageOf[c]
    BY <1>2 DEF stageOf
  <2>2. \A d \in Calls : d # c => stageOf'[d] = stageOf[d]
    BY <1>2 DEF stageOf
  <2>3. QED
    BY <2>1, <2>2, StageUnchanged
<1>4. \A d \in Calls : ChargedBy(d)' <=> ChargedBy(d)
  BY DEF ChargedBy
<1>5. \A d \in Calls : d # c => (SignedInFlight(d)' <=> SignedInFlight(d))
  BY <1>1 DEF SignedInFlight
<1>6. SignedInFlight(c) => SignedInFlight(c)'
  BY <1>1 DEF SignedInFlight
<1>7. CASE moneyOf'[c] = moneyOf[c]
  <2>1. moneyOf' = moneyOf
    BY <1>4, <1>5, <1>7 DEF moneyOf
  <2>2. QED
    BY <1>3, <2>1 DEF mapped
<1>8. CASE moneyOf'[c] # moneyOf[c]
  <2>1. moneyOf[c] = "safe" /\ moneyOf'[c] = "exposed"
    BY <1>4, <1>6, <1>8 DEF moneyOf
  <2>2. moneyOf' = [moneyOf EXCEPT ![c] = "exposed"]
    BY <1>4, <1>5, <2>1 DEF moneyOf
  <2>3. stageOf[c] = "cleared"
    BY DEF stageOf
  <2>4. Contract!Expose(c)
    BY <1>3, <2>1, <2>2, <2>3 DEF Contract!Expose
  <2>5. QED
    BY <2>4 DEF Step, Contract!ContractNext
<1>9. QED
  BY <1>7, <1>8

LEMMA ServeMoves ==
  ASSUME IInv, NEW q \in wire, Serve(q)
  PROVE  [Step]_mapped
<1> DEFINE c == q.call
<1>1. c \in Calls
  BY DEF IInv, TypeOK, Requests
<1>2. wire' = wire \ {q} /\ UNCHANGED <<pc, outcome>>
  BY DEF Serve
<1>3. stageOf' = stageOf
  BY <1>2 DEF stageOf
<1>4. CASE UNCHANGED charges
  <2>1. \A d \in Calls : ChargedBy(d)' <=> ChargedBy(d)
    BY <1>4 DEF ChargedBy
  <2>2. \A d \in Calls : d # c => (SignedInFlight(d)' <=> SignedInFlight(d))
    BY <1>2 DEF SignedInFlight
  <2>3. SignedInFlight(c)' => SignedInFlight(c)
    BY <1>2 DEF SignedInFlight
  <2>4. CASE moneyOf'[c] = moneyOf[c]
    <3>1. moneyOf' = moneyOf
      BY <2>1, <2>2, <2>4 DEF moneyOf
    <3>2. QED
      BY <1>3, <3>1 DEF mapped
  <2>5. CASE moneyOf'[c] # moneyOf[c]
    <3>1. moneyOf[c] = "exposed" /\ moneyOf'[c] = "safe"
      BY <1>1, <2>1, <2>3, <2>5 DEF moneyOf
    <3>2. moneyOf' = [moneyOf EXCEPT ![c] = "safe"]
      BY <2>1, <2>2, <3>1 DEF moneyOf
    <3>3. Contract!Release(c)
      BY <1>3, <3>1, <3>2 DEF Contract!Release
    <3>4. QED
      BY <1>1, <3>3 DEF Step, Contract!ContractNext
  <2>6. QED
    BY <2>4, <2>5
<1>5. CASE Admit(q)
  <2> DEFINE new == [call |-> c, key |-> q.key, revision |-> q.revision,
                     amount |-> q.amount]
  <2>1. new.call = c /\ charges' = charges \cup {new}
    BY <1>5 DEF Admit
  <2> HIDE DEF new
  <2>2. ChargedBy(c)'
    BY <2>1 DEF ChargedBy
  <2>3. \A d \in Calls : d # c => (ChargedBy(d)' <=> ChargedBy(d))
    BY <2>1 DEF ChargedBy
  <2>4. \A d \in Calls : d # c => (SignedInFlight(d)' <=> SignedInFlight(d))
    BY <1>2 DEF SignedInFlight
  <2>5. SignedInFlight(c)
    BY <1>5 DEF Admit, SignedInFlight
  <2>6. moneyOf' = [moneyOf EXCEPT ![c] = "charged"]
    BY <1>1, <2>2, <2>3, <2>4 DEF moneyOf
  <2>7. CASE ChargedBy(c)
    <3>1. moneyOf[c] = "charged"
      BY <1>1, <2>7 DEF moneyOf
    <3>2. moneyOf' = moneyOf
      BY <2>6, <3>1 DEF moneyOf
    <3>3. QED
      BY <1>3, <3>2 DEF mapped
  <2>8. CASE ~ChargedBy(c)
    <3>1. moneyOf[c] = "exposed"
      BY <1>1, <2>5, <2>8 DEF moneyOf
    <3>2. Contract!Charge(c)
      BY <1>3, <2>6, <3>1 DEF Contract!Charge
    <3>3. QED
      BY <1>1, <3>2 DEF Step, Contract!ContractNext
  <2>9. QED
    BY <2>7, <2>8
<1>6. QED
  BY <1>4, <1>5 DEF Serve, Replay, Challenge, Refuse

(***************************************************************************)
(* A crash ends every call in flight, and moves no money.                  *)
(***************************************************************************)
LEMMA CrashMoves ==
  ASSUME IInv, Crash
  PROVE  [Step]_mapped
<1>1. moneyOf' = moneyOf
  BY MoneyUnchanged DEF Crash, service
<1>2. \A d \in Calls : \/ stageOf'[d] = stageOf[d]
                        \/ /\ stageOf[d] \notin Contract!Ended
                           /\ stageOf'[d] = "crashed"
  <2> SUFFICES ASSUME NEW d \in Calls
               PROVE  \/ stageOf'[d] = stageOf[d]
                      \/ /\ stageOf[d] \notin Contract!Ended
                         /\ stageOf'[d] = "crashed"
    OBVIOUS
  <2>1. CASE pc[d] \in {"idle", "done"}
    BY <2>1 DEF Crash, stageOf, Fetchers
  <2>2. CASE pc[d] \notin {"idle", "done"}
    BY <2>2 DEF Crash, stageOf, Fetchers, Contract!Ended
  <2>3. QED
    BY <2>1, <2>2
<1>3. stageOf' \in [Calls -> Contract!Stages]
  BY DEF stageOf, Contract!Stages, Contract!Ended
<1>4. Contract!Crash
  BY <1>1, <1>2, <1>3 DEF Contract!Crash
<1>5. QED
  BY <1>4 DEF Step, Contract!ContractNext

LEMMA ArrivesMoves ==
  ASSUME IInv, TypeOK', Settled', Clean', NEW f \in Fetchers, CatalogArrives(f)
  PROVE  [Step]_mapped
<1>1. UNCHANGED <<wire, charges>>
  BY DEF CatalogArrives, service
<1>2. CASE f \in Refreshers /\ pc' = [pc EXCEPT ![f] = "done"]
           /\ UNCHANGED outcome
  <2>1. stageOf' = stageOf
    BY <1>2, ClientAssumption DEF stageOf
  <2>2. QED
    BY <1>1, <2>1, MoneyUnchanged DEF mapped
<1>3. CASE f \in Calls /\ End(f, "error")
  BY <1>1, <1>3, EndShape, StageMoves
     DEF CatalogArrives, IInv, Unpaid, Fetchers
<1>4. CASE f \in Calls /\ Bind(f, document[f])
  BY <1>1, <1>4, EndShape, GotoShape, StageMoves
     DEF CatalogArrives, Bind, IInv, Unpaid, Fetchers
<1>5. QED
  BY <1>2, <1>3, <1>4 DEF CatalogArrives

LEMMA CaughtMoves ==
  ASSUME IInv, TypeOK', Settled', Clean', NEW c \in Calls,
         pc[c] \in Cleared, Caught(c), UNCHANGED <<wire, charges>>
  PROVE  [Step]_mapped
<1>1. CASE End(c, "error")
  BY <1>1, EndShape, StageMoves DEF IInv, Fetchers
<1>2. CASE Goto(c, "uncertain", frame[c])
  BY <1>2, GotoShape, StageMoves DEF IInv, Fetchers, Cleared
<1>3. QED
  BY <1>1, <1>2 DEF Caught

LEMMA SendsMoves ==
  ASSUME IInv, TypeOK', Settled', Clean', NEW c \in Calls, Sends(c)
  PROVE  [Step]_mapped
<1>1. PICK revision, signed, amount : BaseFetch(c, revision, signed, amount)
  BY DEF Sends
<1>2. pc[c] = "authority" /\ UNCHANGED charges
  BY DEF Sends, service
<1>3. CASE revision = binding[c]
  BY <1>1, <1>2, <1>3, SendMoves
<1>4. CASE revision # binding[c]
  BY <1>1, <1>2, <1>4, CaughtMoves DEF BaseFetch, Cleared, Paying
<1>5. QED
  BY <1>3, <1>4

LEMMA CallMoves ==
  ASSUME IInv, TypeOK', Settled', Clean', NEW c \in Calls, CallStep(c)
  PROVE  [Step]_mapped
<1> USE DEF service
<1>1. CASE Invoke(c)
  BY <1>1, EndShape, GotoShape, StageMoves
     DEF Invoke, Bind, IInv, Unpaid, Fetchers
<1>2. CASE RequestTraced(c)
  BY <1>2, GotoShape, StageMoves DEF RequestTraced, IInv, Unpaid, Fetchers
<1>3. CASE ObserverRefuses(c)
  BY <1>3, EndShape, StageMoves DEF ObserverRefuses, IInv, Unpaid, Fetchers
<1>4. CASE AuthorityProbes(c) \/ AuthoritySigns(c) \/ AuthorityResends(c)
  BY <1>4, SendsShape, SendsMoves
<1>5. CASE AuthorityThrows(c)
  BY <1>5, CaughtMoves DEF AuthorityThrows, Cleared, Paying
<1>6. CASE AuthorityReturns(c)
  BY <1>6, GotoShape, StageMoves
     DEF AuthorityReturns, IInv, Cleared, Paying, Fetchers
<1>7. CASE TransportFails(c)
  BY <1>7, GotoShape, StageMoves
     DEF TransportFails, IInv, Cleared, Paying, Fetchers
<1>8. CASE ResponseArrives(c)
  BY <1>8, GotoShape, StageMoves
     DEF ResponseArrives, IInv, Cleared, Paying, Fetchers
<1>9. CASE ResponseTraced(c)
  BY <1>9, GotoShape, StageMoves
     DEF ResponseTraced, IInv, Cleared, Paying, Fetchers
<1>10. CASE BodyLost(c)
  BY <1>10, CaughtMoves DEF BodyLost, Cleared, Paying
<1>11. CASE BodyRead(c)
  BY <1>11, EndShape, GotoShape, StageMoves
     DEF BodyRead, IInv, Cleared, Paying, Fetchers
<1>12. CASE UncertainTraced(c)
  BY <1>12, EndShape, StageMoves DEF UncertainTraced, IInv, Cleared, Fetchers
<1>13. QED
  BY <1>1, <1>2, <1>3, <1>4, <1>5, <1>6, <1>7, <1>8, <1>9, <1>10, <1>11,
     <1>12 DEF CallStep

LEMMA ContractStep ==
  ASSUME IInv, IInv', [Next]_vars
  PROVE  [Step]_mapped
<1>1. TypeOK' /\ Settled' /\ Clean'
  BY DEF IInv
<1>2. ASSUME NEW c \in Calls, CallStep(c) PROVE [Step]_mapped
  BY <1>1, <1>2, CallMoves
<1>3. ASSUME NEW r \in Refreshers, Refresh(r) PROVE [Step]_mapped
  <2>1. stageOf' = stageOf
    BY <1>3, ClientAssumption DEF Refresh, stageOf
  <2>2. QED
    BY <1>3, <2>1, MoneyUnchanged DEF Refresh, service, mapped
<1>4. ASSUME NEW f \in Fetchers, ServeCatalog(f) PROVE [Step]_mapped
  <2>1. stageOf' = stageOf
    BY <1>4 DEF ServeCatalog, stageOf, IInv, TypeOK, Fetchers
  <2>2. QED
    BY <1>4, <2>1, MoneyUnchanged DEF ServeCatalog, service, mapped
<1>5. ASSUME NEW f \in Fetchers, CatalogArrives(f) PROVE [Step]_mapped
  BY <1>1, <1>5, ArrivesMoves
<1>6. ASSUME NEW q \in wire, Serve(q) PROVE [Step]_mapped
  BY <1>6, ServeMoves
<1>7. CASE Republish
  <2>1. stageOf' = stageOf
    BY <1>7 DEF Republish, stageOf
  <2>2. QED
    BY <1>7, <2>1, MoneyUnchanged DEF Republish, mapped
<1>8. CASE Crash
  BY <1>8, CrashMoves
<1>9. CASE UNCHANGED vars
  <2>1. stageOf' = stageOf
    BY <1>9 DEF vars, stageOf
  <2>2. QED
    BY <1>9, <2>1, MoneyUnchanged DEF vars, service, mapped
<1>10. QED
  BY <1>2, <1>3, <1>4, <1>5, <1>6, <1>7, <1>8, <1>9 DEF Next, FetchStep, Rest

LEMMA ContractStart == Init => Contract!ContractInit
  BY DEF Init, Contract!ContractInit, stageOf, moneyOf, ChargedBy,
         SignedInFlight, Fetchers

\* invoke() keeps the promise its callers rely on, whatever the calls, the
\* authority, the network and the service do: a call is cleared by its observer
\* before its money moves, charged at most once, and never ends in an error
\* with money behind it (client.ts:263-335).
THEOREM Implements == Spec => ImplementsContract
<1>1. IInv /\ IInv' /\ [Next]_vars
        => [Contract!ContractNext]_(Contract!cvars)
  BY ContractStep DEF Step, mapped, Contract!cvars
<1>2. QED
  BY <1>1, ContractStart, Invariant, PTL
     DEF Spec, ImplementsContract, Contract!Contract
=============================================================================
