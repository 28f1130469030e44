------------------------------ MODULE Purchase ------------------------------
(***************************************************************************)
(* One purchase carried to its end (examples/purchase.mjs): invoke, at     *)
(* most one recovery with the same key, read-only polling up to a          *)
(* deadline, and the replay that claims the resource of a browser or inbox *)
(* offer.  Several runs may hold the same saved key: a purchase started    *)
(* again after a crash or a pending answer.                                *)
(*                                                                         *)
(* client.invoke is taken at its contract (InvocationContract): it ends    *)
(* with a result, a refusal, an uncertain answer behind which the request  *)
(* may still be admitted, or an error behind which nothing was paid.  The  *)
(* service is outside the repository: an admission is idempotent by key.   *)
(***************************************************************************)
EXTENDS Naturals, FiniteSets

CONSTANTS Runs,        \* calls of purchase()
          Keys,        \* saved purchase keys, one offer and input each
          Resources    \* the keys that buy a browser session or an inbox

ASSUME PurchaseAssumption == Resources \subseteq Keys

VARIABLES key,         \* [Runs -> Keys]: the key each run was given
          pc,          \* where each run awaits
          invokes,     \* calls of client.invoke so far
          answer,      \* what is on its way back to the run
          seen,        \* the run's copy of the invocation: state and receipt
          access,      \* admission.result.resource_access is present
          expired,     \* the run's deadline has passed
          outcome,
          wire,        \* paid requests the service has not answered
          invocation,  \* the service's record of each key
          charges      \* what the service has taken

run == <<key, access, seen>>
service == <<wire, invocation, charges>>
vars == <<run, pc, invokes, answer, expired, outcome, service>>

Terminal == {"succeeded", "failed", "cancelled"}
States == {"none", "running"} \cup Terminal
Records == [state : States, receipt : BOOLEAN]
Unknown == [state |-> "none", receipt |-> FALSE]
Answers == [kind : {"none", "ok", "refused", "failed"}, record : Records,
            access : BOOLEAN]
NoAnswer == [kind |-> "none", record |-> Unknown, access |-> FALSE]
Invoking == {"buying", "recovering", "claiming"}
MaxInvokes == 3

TypeOK == /\ key \in [Runs -> Keys]
          /\ pc \in [Runs -> Invoking \cup {"idle", "looping", "reading",
                                            "done", "crashed"}]
          /\ invokes \in [Runs -> 0..MaxInvokes]
          /\ answer \in [Runs -> Answers]
          /\ seen \in [Runs -> Records]
          /\ access \in [Runs -> BOOLEAN]
          /\ expired \in [Runs -> BOOLEAN]
          /\ outcome \in [Runs -> {"none", "bought", "pending", "threw"}]
          /\ wire \subseteq [run : Runs, n : 1..MaxInvokes, key : Keys]
          /\ invocation \in [Keys -> Records]
          /\ charges \subseteq [run : Runs, key : Keys]

Init == /\ key \in [Runs -> Keys]
        /\ pc = [p \in Runs |-> "idle"]
        /\ invokes = [p \in Runs |-> 0]
        /\ answer = [p \in Runs |-> NoAnswer]
        /\ seen = [p \in Runs |-> Unknown]
        /\ access = [p \in Runs |-> FALSE]
        /\ expired = [p \in Runs |-> FALSE]
        /\ outcome = [p \in Runs |-> "none"]
        /\ wire = {}
        /\ invocation = [k \in Keys |-> Unknown]
        /\ charges = {}
-----------------------------------------------------------------------------
(***************************************************************************)
(* How a step of purchase() goes on: it ends, or it invokes with a key.    *)
(***************************************************************************)
End(p, o) == /\ pc' = [pc EXCEPT ![p] = "done"]
             /\ outcome' = [outcome EXCEPT ![p] = o]
             /\ UNCHANGED <<invokes, wire>>

Goto(p, phase) == /\ pc' = [pc EXCEPT ![p] = phase]
                  /\ UNCHANGED <<invokes, outcome, wire>>

InvokeWith(p, k, phase) ==
  /\ pc' = [pc EXCEPT ![p] = phase]
  /\ invokes' = [invokes EXCEPT ![p] = @ + 1]
  /\ wire' = wire \cup {[run |-> p, n |-> invokes[p] + 1, key |-> k]}
  /\ UNCHANGED outcome

\* const invoke = () => client.invoke(offerId, input, { idempotencyKey: key })
Invoke(p, phase) == InvokeWith(p, key[p], phase)

\* Mutations of Failed: the recovery mints a key of its own; it is repeated; an
\* answer that stays uncertain counts as pending.
FailedFresh(p, recoverable) ==
  IF pc[p] = "buying" /\ recoverable
  THEN InvokeWith(p, CHOOSE k \in Keys : k # key[p], "recovering")
  ELSE End(p, "threw")
FailedForever(p, recoverable) ==
  IF pc[p] \in {"buying", "recovering"} /\ recoverable
  THEN Invoke(p, "recovering")
  ELSE End(p, "threw")
FailedPending(p, recoverable) ==
  IF pc[p] = "buying" /\ recoverable THEN Invoke(p, "recovering")
  ELSE End(p, IF recoverable THEN "pending" ELSE "threw")

\* The catch around the first invoke; a failure of a later one is thrown.
Failed(p, recoverable) ==
  IF pc[p] = "buying" /\ recoverable THEN Invoke(p, "recovering")
  ELSE End(p, "threw")
-----------------------------------------------------------------------------
Purchase(p) == /\ pc[p] = "idle"
               /\ Invoke(p, "buying")
               /\ UNCHANGED <<run, answer, expired, invocation, charges>>

\* client.invoke throws InvocationUncertainError: its request stays where it is.
Uncertain(p) ==
  /\ pc[p] \in Invoking
  /\ Failed(p, TRUE)
  /\ answer' = [answer EXCEPT ![p] = NoAnswer]
  /\ UNCHANGED <<run, expired, invocation, charges>>

\* client.invoke throws a RefusalError: "failed" is a status of 500 or more.
Refusal(p) ==
  /\ pc[p] \in Invoking
  /\ answer[p].kind \in {"refused", "failed"}
  /\ Failed(p, answer[p].kind = "failed")
  /\ answer' = [answer EXCEPT ![p] = NoAnswer]
  /\ UNCHANGED <<run, expired, invocation, charges>>

\* client.invoke throws anything else: its request never left, or it was
\* refused and the refusal could not be read.
BareError(p) ==
  /\ pc[p] \in Invoking
  /\ answer[p].kind \in {"none", "refused"}
  /\ pc' = [pc EXCEPT ![p] = "done"]
  /\ outcome' = [outcome EXCEPT ![p] = "threw"]
  /\ wire' = {q \in wire : q.run # p \/ q.n # invokes[p]}
  /\ answer' = [answer EXCEPT ![p] = NoAnswer]
  /\ UNCHANGED <<run, invokes, expired, invocation, charges>>

\* The admission: its invocation is what the loop starts from.
Admission(p) ==
  /\ pc[p] \in {"buying", "recovering"}
  /\ answer[p].kind = "ok"
  /\ answer' = [answer EXCEPT ![p] = NoAnswer]
  /\ IF answer[p].record.state = "none"      \* no invocation_id
     THEN End(p, "threw") /\ UNCHANGED <<seen, access>>
     ELSE /\ Goto(p, "looping")
          /\ seen' = [seen EXCEPT ![p] = answer[p].record]
          /\ access' = [access EXCEPT ![p] = answer[p].access]
  /\ UNCHANGED <<key, expired, invocation, charges>>

\* Mutation of Finish: any terminal state that shows a receipt is a result.
FinishTerminal(p) ==
  IF ~seen[p].receipt THEN End(p, "threw")
  ELSE IF key[p] \in Resources /\ ~access[p] THEN Invoke(p, "claiming")
  ELSE End(p, "bought")

\* A success without a receipt is not accepted; one without its resource
\* authority claims it by a replay.
Finish(p) ==
  IF seen[p].state # "succeeded" \/ ~seen[p].receipt THEN End(p, "threw")
  ELSE IF key[p] \in Resources /\ ~access[p] THEN Invoke(p, "claiming")
  ELSE End(p, "bought")

\* Mutation of Loop: the deadline is not looked at.
LoopForever(p) ==
  /\ pc[p] = "looping"
  /\ IF seen[p].state \in Terminal THEN Finish(p) ELSE Goto(p, "reading")
  /\ UNCHANGED <<run, answer, expired, invocation, charges>>

\* The head of the while loop, and the pause before the next read.
Loop(p) ==
  /\ pc[p] = "looping"
  /\ IF seen[p].state \in Terminal THEN Finish(p)
     ELSE IF expired[p] THEN End(p, "pending")
     ELSE Goto(p, "reading")
  /\ UNCHANGED <<run, answer, expired, invocation, charges>>

\* client.invocation answers, or throws.
Read(p) ==
  /\ pc[p] = "reading"
  /\ answer[p].kind = "ok"
  /\ Goto(p, "looping")
  /\ seen' = [seen EXCEPT ![p] = answer[p].record]
  /\ answer' = [answer EXCEPT ![p] = NoAnswer]
  /\ UNCHANGED <<key, access, expired, invocation, charges>>

ReadFails(p) ==
  /\ pc[p] = "reading"
  /\ End(p, "threw")
  /\ answer' = [answer EXCEPT ![p] = NoAnswer]
  /\ UNCHANGED <<run, expired, invocation, charges>>

\* The replay that claims the original resource.
Claimed(p) ==
  /\ pc[p] = "claiming"
  /\ answer[p].kind = "ok"
  /\ access' = [access EXCEPT ![p] = answer[p].access]
  /\ End(p, IF answer[p].access THEN "bought" ELSE "threw")
  /\ answer' = [answer EXCEPT ![p] = NoAnswer]
  /\ UNCHANGED <<key, seen, expired, invocation, charges>>

Deadline(p) ==
  /\ pc[p] \in {"looping", "reading"}
  /\ ~expired[p]
  /\ expired' = [expired EXCEPT ![p] = TRUE]
  /\ UNCHANGED <<run, pc, invokes, answer, outcome, service>>

\* The process of one run dies; the saved key is all that survives of it.
Crash(p) ==
  /\ pc[p] \notin {"idle", "done", "crashed"}
  /\ pc' = [pc EXCEPT ![p] = "crashed"]
  /\ answer' = [answer EXCEPT ![p] = NoAnswer]
  /\ UNCHANGED <<run, invokes, expired, outcome, service>>
-----------------------------------------------------------------------------
(***************************************************************************)
(* The service: admission, progress, read-only state.                      *)
(***************************************************************************)
Tell(q, a) ==
  answer' = IF pc[q.run] \in Invoking /\ invokes[q.run] = q.n
            THEN [answer EXCEPT ![q.run] = a] ELSE answer

\* The record of an admitted key, with the resource authority or without it;
\* or a result that shows no invocation; or a failure after the admission.
TellRecord(q, record) ==
  \/ \E granted \in {FALSE, q.key \in Resources} :
       Tell(q, [kind |-> "ok", record |-> record, access |-> granted])
  \/ Tell(q, [kind |-> "ok", record |-> Unknown, access |-> FALSE])
  \/ Tell(q, [NoAnswer EXCEPT !.kind = "failed"])

Admit(q) ==
  /\ invocation[q.key].state = "none"
  /\ charges' = charges \cup {[run |-> q.run, key |-> q.key]}
  /\ \E record \in {[state |-> "running", receipt |-> FALSE],
                    [state |-> "succeeded", receipt |-> TRUE]} :
       /\ invocation' = [invocation EXCEPT ![q.key] = record]
       /\ TellRecord(q, record)

Replay(q) ==
  /\ invocation[q.key].state # "none"
  /\ TellRecord(q, invocation[q.key])
  /\ UNCHANGED <<invocation, charges>>

Refuse(q) ==
  /\ invocation[q.key].state = "none"
  /\ \E kind \in {"refused", "failed"} : Tell(q, [NoAnswer EXCEPT !.kind = kind])
  /\ UNCHANGED <<invocation, charges>>

Serve(q) == /\ Admit(q) \/ Replay(q) \/ Refuse(q)
            /\ wire' = wire \ {q}
            /\ UNCHANGED <<run, pc, invokes, expired, outcome>>

ServeRead(p) ==
  /\ pc[p] = "reading"
  /\ answer[p].kind = "none"
  /\ answer' = [answer EXCEPT ![p] = [kind |-> "ok",
                  record |-> invocation[key[p]], access |-> FALSE]]
  /\ UNCHANGED <<run, pc, invokes, expired, outcome, service>>

\* A failed or cancelled invocation may carry a receipt of its own.
Progress(k) ==
  /\ invocation[k].state = "running"
  /\ \E record \in [state : Terminal, receipt : BOOLEAN] :
       invocation' = [invocation EXCEPT ![k] = record]
  /\ UNCHANGED <<run, pc, invokes, answer, expired, outcome, wire, charges>>

Rest == /\ \A p \in Runs : pc[p] \in {"done", "crashed"}
        /\ UNCHANGED vars
-----------------------------------------------------------------------------
Step(p) == \/ Purchase(p) \/ Uncertain(p) \/ Refusal(p) \/ BareError(p)
           \/ Admission(p) \/ Loop(p) \/ Read(p) \/ ReadFails(p) \/ Claimed(p)

Next == \/ \E p \in Runs : Step(p) \/ Deadline(p) \/ ServeRead(p) \/ Crash(p)
        \/ \E q \in wire : Serve(q)
        \/ \E k \in Keys : Progress(k)
        \/ Rest

Spec == Init /\ [][Next]_vars

(***************************************************************************)
(* Fairness.  A run that can go on does (client.invoke and .invocation     *)
(* settle, the pause elapses), and time passes.  The service owes nothing: *)
(* a paid invocation may stay "running" for ever.                          *)
(***************************************************************************)
FairSpec == Spec /\ \A p \in Runs : WF_vars(Step(p)) /\ WF_vars(Deadline(p))
-----------------------------------------------------------------------------
\* One purchase is charged once, and for the key it was given: through the
\* recovery, a late admission of the lost request, the claiming replay, and a
\* second run of the same saved key (purchase.mjs:11, 19-21, 34).
NoSecondCharge ==
  \A a, b \in charges : /\ a.run = b.run => a = b
                        /\ a.key = b.key => a = b

\* What purchase() returns as bought did succeed, has its public receipt and,
\* for a browser or an inbox, its capability (purchase.mjs:30-37), although
\* the run decided on a copy of the state that may have been read long ago.
BoughtIsProven ==
  \A p \in Runs : outcome[p] = "bought" =>
    /\ invocation[key[p]] = [state |-> "succeeded", receipt |-> TRUE]
    /\ key[p] \in Resources => access[p]

\* A pending answer names an invocation that exists and was paid for: "it is
\* not a failed purchase" (examples/README.md:13, purchase.mjs:26).
PendingIsAdmitted ==
  \A p \in Runs : outcome[p] = "pending" => \E ch \in charges : ch.key = key[p]

(***************************************************************************)
(* The promise of PurchaseContract under the mapping that forgets the      *)
(* invokes: the contract is what Journeys composes.                        *)
(***************************************************************************)
stageOf == [p \in Runs |-> IF pc[p] \in {"idle", "crashed"} THEN pc[p]
                           ELSE IF pc[p] = "done" THEN outcome[p] ELSE "buying"]
accountOf ==
  [k \in Keys |-> CASE invocation[k].state = "none" -> "open"
                    [] invocation[k].state = "running" -> "taken"
                    [] invocation[k].state = "succeeded" -> "settled"
                    [] OTHER -> "lost"]

Promise == INSTANCE PurchaseContract WITH stage <- stageOf, account <- accountOf

\* Whatever is lost, late, repeated or crashed, purchase() keeps what its
\* callers, the journeys, rely on: a charge per key, and an ending that tells
\* the truth about it (purchase.mjs:10-38).
ImplementsContract == Promise!Contract

\* A purchase ends, whatever the service does with the invocation it took.
PurchaseEnds == \A p \in Runs : pc[p] # "idle" ~> pc[p] \in {"done", "crashed"}
=============================================================================
