----------------------------- MODULE PortsProofs -----------------------------
(***************************************************************************)
(* What Ports promises, proved for every set of calls, keys and languages  *)
(* among them, and every bound on catalogs and sends: a result is backed   *)
(* by a charge, the ports that have a beforePayment keep                   *)
(* InvocationContract, and Python keeps the identity of whatever its       *)
(* clause names.                                                           *)
(***************************************************************************)
EXTENDS Ports, TLAPS

Unpaid == {"idle", "bound"}   \* nothing sent yet

\* What a call sent or was charged for was sent after its envelope was bound:
\* a charge names the call's own key and binding.
Owned == /\ \A q \in wire : pc[q.call] \notin Unpaid
         /\ \A ch \in charges : /\ pc[ch.call] \notin Unpaid
                                /\ ch.key = key[ch.call]
                                /\ ch.revision = binding[ch.call]

\* An accepting answer is the answer to an admission of the call's key and
\* binding, from the service to the outcome.
Backed(c) == \E ch \in charges : ch.key = key[c] /\ ch.revision = binding[c]
Granted == \A c \in Calls :
             /\ pc[c] \in Unpaid => reply[c] = NoAnswer
             /\ pc[c] = "returned" => reply[c] # NoAnswer
             /\ pc[c] \notin Unpaid /\ reply[c] \in Accepted => Backed(c)
             /\ outcome[c] = "result" => Backed(c)

\* A call that ended in an error has nothing paid behind it and nothing that
\* can still be paid, unless Python was thrown what its clause does not name.
Clean == \A c \in Calls :
           /\ pc[c] = "done" <=> outcome[c] # "none"
           /\ thrown[c] # "nothing" => pc[c] = "done"
           /\ Forgotten(c) => ~Observed(c) /\ thrown[c] \in {"foreign", "other"}

IInv == TypeOK /\ Owned /\ Granted /\ Clean
-----------------------------------------------------------------------------
(***************************************************************************)
(* How the languages read an answer or an exception.                       *)
(***************************************************************************)
\* No port takes a refusal or a page for a result, whichever it looks at first.
LEMMA OutcomeOf ==
  ASSUME NEW p \in Ports, NEW a \in Accepted \cup Declined
  PROVE  /\ Outcome(p, a) \in {"result", "refusal", "uncertain"}
         /\ Outcome(p, a) = "result" => a \in Accepted
  BY DEF Outcome, Ports, Accepted, Declined

LEMMA FailedOf ==
  ASSUME NEW p \in Ports, NEW kind \in Thrown
  PROVE  /\ Failed(p, kind) \in {"error", "uncertain"}
         /\ Failed(p, kind) = "error" => p = "python" /\ kind \in {"foreign", "other"}
  BY DEF Failed, Ports, Thrown
-----------------------------------------------------------------------------
(***************************************************************************)
(* What a step does.                                                       *)
(***************************************************************************)
LEMMA Steps ==
  ASSUME [Next]_vars
  PROVE  \/ \E c \in Calls : Step(c)
         \/ \E q \in wire : Serve(q)
         \/ Republish
         \/ UNCHANGED vars
  BY DEF Next, Rest

Phases == {"idle", "bound", "paying", "returned", "done", "crashed"}

\* A step of a call leaves the service and the other calls alone; it sends only
\* while it pays.
LEMMA StepKeeps ==
  ASSUME TypeOK, NEW c \in Calls, Step(c)
  PROVE  /\ UNCHANGED <<given, service>>
         /\ \A d \in Calls : d # c =>
              /\ pc'[d] = pc[d] /\ binding'[d] = binding[d]
              /\ sends'[d] = sends[d] /\ reply'[d] = reply[d]
              /\ thrown'[d] = thrown[d] /\ outcome'[d] = outcome[d]
         /\ \/ wire' = wire
            \/ /\ pc[c] = "paying" /\ pc'[c] = "paying"
               /\ wire' = wire \cup {[call |-> c, n |-> sends[c] + 1]}
<1>1. CASE Bind(c) \/ Refuses(c) \/ Pay(c) \/ Decode(c) \/ Dies(c)
  BY <1>1 DEF TypeOK, Bind, Refuses, Pay, Decode, Dies, Goto, End
<1>2. CASE RailSends(c)
  BY <1>2 DEF TypeOK, RailSends
<1>3. CASE RailThrows(c)
  BY <1>3 DEF TypeOK, RailThrows, Goto, End
<1>4. CASE RailReturns(c)
  BY <1>4 DEF TypeOK, RailReturns, Goto
<1>5. QED
  BY <1>1, <1>2, <1>3, <1>4 DEF Step

\* Where a step takes its call, and what it then has.
Moves(c) ==
  \/ /\ pc[c] = "idle" /\ pc'[c] = "bound" /\ binding'[c] = live
     /\ sends'[c] = sends[c] /\ reply'[c] = reply[c]
     /\ thrown'[c] = thrown[c] /\ outcome'[c] = outcome[c]
  \/ /\ binding'[c] = binding[c]
     /\ \/ /\ pc[c] \in Unpaid /\ pc'[c] = "done" /\ outcome'[c] = "error"
           /\ sends'[c] = sends[c] /\ reply'[c] = reply[c]
           /\ thrown'[c] = thrown[c]
        \/ /\ pc[c] = "bound" /\ pc'[c] = "paying"
           /\ sends'[c] = sends[c] /\ reply'[c] = reply[c]
           /\ thrown'[c] = thrown[c] /\ outcome'[c] = outcome[c]
        \/ /\ pc[c] = "paying" /\ pc'[c] = "paying" /\ reply'[c] = NoAnswer
           /\ sends[c] < MaxSends /\ sends'[c] = sends[c] + 1
           /\ thrown'[c] = thrown[c] /\ outcome'[c] = outcome[c]
        \/ /\ pc[c] = "paying" /\ pc'[c] = "done" /\ reply'[c] = reply[c]
           /\ sends'[c] = sends[c] /\ thrown'[c] \in Thrown
           /\ outcome'[c] = Failed(port[c], thrown'[c])
        \/ /\ pc[c] = "paying" /\ pc'[c] = "returned"
           /\ reply'[c] \in Accepted \cup Declined
           /\ reply'[c] = reply[c] \/ reply'[c] \in Declined \/ Backed(c)
           /\ sends'[c] = sends[c] /\ thrown'[c] = thrown[c]
           /\ outcome'[c] = outcome[c]
        \/ /\ pc[c] = "returned" /\ pc'[c] = "done"
           /\ reply'[c] = reply[c] /\ outcome'[c] = Outcome(port[c], reply[c])
           /\ sends'[c] = sends[c] /\ thrown'[c] = thrown[c]
        \/ /\ pc[c] \in {"bound", "paying", "returned"} /\ pc'[c] = "crashed"
           /\ sends'[c] = sends[c] /\ reply'[c] = reply[c]
           /\ thrown'[c] = thrown[c] /\ outcome'[c] = outcome[c]

LEMMA StepMoves ==
  ASSUME TypeOK, NEW c \in Calls, Step(c)
  PROVE  Moves(c)
<1>1. CASE Bind(c)
  BY <1>1 DEF TypeOK, Bind, Goto, Moves
<1>2. CASE Refuses(c)
  BY <1>2 DEF TypeOK, Refuses, Goto, End, Moves, Unpaid
<1>3. CASE Pay(c)
  BY <1>3 DEF TypeOK, Pay, Goto, Moves
<1>4. CASE RailSends(c)
  BY <1>4 DEF TypeOK, RailSends, Moves
<1>5. CASE RailThrows(c)
  BY <1>5 DEF TypeOK, RailThrows, Goto, End, Moves
<1>6. CASE RailReturns(c)
  <2>1. IsReplay(c) => Backed(c)
    BY DEF IsReplay, ChargesOf, Backed
  <2>2. reply[c] # NoAnswer => reply[c] \in Accepted \cup Declined
    BY DEF TypeOK
  <2>3. reply'[c] \in Accepted \cup Declined
        /\ (reply'[c] = reply[c] \/ reply'[c] \in Declined \/ Backed(c))
    BY <1>6, <2>1, <2>2 DEF TypeOK, RailReturns
  <2>4. QED
    BY <1>6, <2>3 DEF TypeOK, RailReturns, Goto, Moves
<1>7. CASE Decode(c)
  BY <1>7 DEF TypeOK, Decode, Goto, End, Moves
<1>8. CASE Dies(c)
  BY <1>8 DEF TypeOK, Dies, Goto, Moves
<1>9. QED
  BY <1>1, <1>2, <1>3, <1>4, <1>5, <1>6, <1>7, <1>8 DEF Step

NewCharge(c) == [call |-> c, key |-> key[c], revision |-> binding[c]]

\* The service takes a request off the wire and may charge its call, and tells
\* nobody but that call, and only while it pays.
LEMMA Served ==
  ASSUME TypeOK, NEW q \in wire, Serve(q)
  PROVE  /\ q.call \in Calls /\ wire' = wire \ {q}
         /\ UNCHANGED <<given, live, pc, binding, sends, thrown, outcome>>
         /\ \/ charges' = charges
            \/ /\ charges' = charges \cup {NewCharge(q.call)}
               /\ ChargesOf(key[q.call]) = {} /\ binding[q.call] = live
         /\ \A c \in Calls :
              \/ reply'[c] = reply[c]
              \/ /\ c = q.call /\ pc[c] = "paying"
                 /\ \/ reply'[c] \in Declined
                    \/ reply'[c] \in Accepted /\ Backed(c)'
<1> DEFINE Tells == \A c \in Calls :
              \/ reply'[c] = reply[c]
              \/ /\ c = q.call /\ pc[c] = "paying"
                 /\ \/ reply'[c] \in Declined
                    \/ reply'[c] \in Accepted /\ Backed(c)'
<1>1. q.call \in Calls /\ wire' = wire \ {q}
      /\ UNCHANGED <<given, live, pc, binding, sends, thrown, outcome>>
  BY DEF TypeOK, Requests, Serve
<1>2. ASSUME NEW answers, Answer(q, answers)
      PROVE  \A c \in Calls : \/ reply'[c] = reply[c]
                              \/ c = q.call /\ pc[c] = "paying" /\ reply'[c] \in answers
  BY <1>1, <1>2 DEF TypeOK, Answer
<1>3. CASE Replay(q)
  <2>1. IsReplay(q.call) => Backed(q.call)'
    BY <1>1, <1>3 DEF Replay, IsReplay, ChargesOf, Backed, given
  <2>2. Tells
    BY <1>2, <1>3, <2>1 DEF Replay
  <2>3. QED
    BY <1>1, <1>3, <2>2 DEF Replay
<1>4. CASE Refuse(q)
  <2>1. Tells
    BY <1>2, <1>4 DEF Refuse
  <2>2. QED
    BY <1>1, <1>4, <2>1 DEF Refuse
<1>5. CASE Admit(q)
  <2>1. NewCharge(q.call) \in charges' /\ charges' = charges \cup {NewCharge(q.call)}
    BY <1>5 DEF Admit, NewCharge
  <2>2. Backed(q.call)'
    BY <1>1, <2>1 DEF Backed, NewCharge, given
  <2>3. Tells
    BY <1>2, <1>5, <2>2 DEF Admit
  <2>4. QED
    BY <1>1, <1>5, <2>1, <2>3 DEF Admit
<1>6. QED
  BY <1>3, <1>4, <1>5 DEF Serve
-----------------------------------------------------------------------------
(***************************************************************************)
(* The invariant, part by part.                                            *)
(***************************************************************************)
LEMMA Begins == Init => IInv
<1> SUFFICES ASSUME Init PROVE IInv
  OBVIOUS
<1>1. TypeOK
  BY PortsAssumption DEF Init, TypeOK, Revisions
<1>2. Owned /\ Granted /\ Clean
  BY DEF Init, Owned, Granted, Clean, Forgotten, NoAnswer, Accepted, Unpaid
<1>3. QED
  BY <1>1, <1>2 DEF IInv

LEMMA TypesKept ==
  ASSUME IInv, [Next]_vars
  PROVE  TypeOK'
<1> USE PortsAssumption DEF IInv
<1>1. ASSUME NEW c \in Calls, Step(c) PROVE TypeOK'
  <2> USE DEF TypeOK
  <2>1. CASE Bind(c)
    BY <1>1, <2>1 DEF Bind, Goto, given, service, Revisions
  <2>2. CASE Refuses(c) \/ Pay(c) \/ Dies(c)
    BY <2>2 DEF Refuses, Pay, Dies, Goto, End, given, service
  <2>3. CASE RailSends(c)
    <3>1. sends[c] + 1 \in 1..MaxSends
      BY <2>3 DEF RailSends
    <3>2. QED
      BY <2>3, <3>1 DEF RailSends, Requests, given, service
  <2>4. CASE RailThrows(c)
    BY <2>4, FailedOf DEF RailThrows, Goto, End, given, service
  <2>5. CASE RailReturns(c)
    BY <2>5 DEF RailReturns, Goto, given, service
  <2>6. CASE Decode(c)
    <3>1. reply[c] \in Accepted \cup Declined
      BY <2>6 DEF Decode, Granted
    <3>2. QED
      BY <2>6, <3>1, OutcomeOf DEF Decode, Goto, End, given, service
  <2>7. QED
    BY <1>1, <2>1, <2>2, <2>3, <2>4, <2>5, <2>6 DEF Step
<1>2. ASSUME NEW q \in wire, Serve(q) PROVE TypeOK'
  <2>1. q.call \in Calls /\ wire' \subseteq wire
    BY <1>2, Served
  <2>2. charges' \subseteq [call : Calls, key : Keys, revision : Revisions]
    BY <1>2, <2>1, Served DEF TypeOK, NewCharge
  <2>3. reply' \in [Calls -> Accepted \cup Declined \cup {NoAnswer}]
    BY <1>2, <2>1 DEF TypeOK, Serve, Replay, Refuse, Admit, Answer
  <2>4. QED
    BY <1>2, <2>1, <2>2, <2>3 DEF TypeOK, Serve, given
<1>3. CASE Republish
  BY <1>3 DEF TypeOK, Republish, Revisions, given
<1>4. CASE UNCHANGED vars
  BY <1>4 DEF TypeOK, vars, given, service
<1>5. QED
  BY <1>1, <1>2, <1>3, <1>4, Steps

LEMMA OwnedKept ==
  ASSUME IInv, [Next]_vars
  PROVE  Owned'
<1> USE DEF IInv
<1>1. ASSUME NEW c \in Calls, Step(c) PROVE Owned'
  <2>1. \A d \in Calls : pc[d] \notin Unpaid =>
                           pc'[d] \notin Unpaid /\ binding'[d] = binding[d]
    BY <1>1, StepMoves, StepKeeps DEF Moves, Unpaid
  <2>2. \A q \in wire : q.call \in Calls
    BY DEF TypeOK, Requests
  <2>3. \A q \in wire' : pc'[q.call] \notin Unpaid
    BY <1>1, <2>1, <2>2, StepKeeps DEF Owned, Unpaid
  <2>4. \A ch \in charges : ch.call \in Calls
    BY DEF TypeOK
  <2>5. UNCHANGED <<key, charges>>
    BY <1>1, StepKeeps DEF given, service
  <2>6. QED
    BY <2>1, <2>3, <2>4, <2>5 DEF Owned
<1>2. ASSUME NEW q \in wire, Serve(q) PROVE Owned'
  <2>1. wire' \subseteq wire /\ UNCHANGED <<key, pc, binding>>
    BY <1>2, Served DEF given
  <2>2. \A ch \in charges' : ch \in charges \/ ch = NewCharge(q.call)
    BY <1>2, Served
  <2>3. QED
    BY <2>1, <2>2 DEF Owned, NewCharge
<1>3. CASE Republish
  BY <1>3 DEF Republish, Owned, given
<1>4. CASE UNCHANGED vars
  BY <1>4 DEF vars, given, service, Owned
<1>5. QED
  BY <1>1, <1>2, <1>3, <1>4, Steps

\* A backed call stays backed: charges are never undone, and the binding of a
\* call that has one never changes.
LEMMA StaysBacked ==
  ASSUME charges \subseteq charges', UNCHANGED key,
         NEW c, binding'[c] = binding[c], Backed(c)
  PROVE  Backed(c)'
  BY DEF Backed

LEMMA GrantedKept ==
  ASSUME IInv, [Next]_vars
  PROVE  Granted'
<1> USE DEF IInv
<1>1. ASSUME NEW c \in Calls, Step(c) PROVE Granted'
  <2>1. UNCHANGED <<key, charges, port>>
    BY <1>1, StepKeeps DEF given, service
  <2>2. \A d \in Calls : binding'[d] = binding[d] => Backed(d)' = Backed(d)
    BY <2>1 DEF Backed
  <2>3. ASSUME NEW d \in Calls, d # c
        PROVE  /\ pc'[d] \in Unpaid => reply'[d] = NoAnswer
               /\ pc'[d] = "returned" => reply'[d] # NoAnswer
               /\ pc'[d] \notin Unpaid /\ reply'[d] \in Accepted => Backed(d)'
               /\ outcome'[d] = "result" => Backed(d)'
    BY <1>1, <2>2, <2>3, StepKeeps DEF Granted
  <2>4. /\ pc'[c] \in Unpaid => reply'[c] = NoAnswer
        /\ pc'[c] = "returned" => reply'[c] # NoAnswer
    BY <1>1, StepMoves DEF Moves, Granted, Unpaid, NoAnswer, Accepted, Declined
  <2>5. pc'[c] \notin Unpaid /\ reply'[c] \in Accepted => Backed(c)'
    BY <1>1, <2>2, StepMoves
    DEF Moves, Granted, Unpaid, NoAnswer, Accepted, Declined
  <2>6. port[c] \in Ports
    BY DEF TypeOK
  <2>7. outcome'[c] = "result" => Backed(c)'
    <3>1. CASE pc[c] = "idle" /\ pc'[c] = "bound"
      BY <1>1, <3>1, StepMoves DEF Moves, Clean
    <3>2. CASE pc[c] = "returned" /\ outcome'[c] = Outcome(port[c], reply[c])
      <4>1. reply[c] \in Accepted \cup Declined
        BY <3>2 DEF TypeOK, Granted
      <4>2. outcome'[c] = "result" => reply[c] \in Accepted
        BY <2>6, <3>2, <4>1, OutcomeOf
      <4>3. QED
        BY <1>1, <2>2, <3>2, <4>2, StepMoves DEF Moves, Granted, Unpaid
    <3>3. CASE pc[c] = "paying" /\ pc'[c] = "done"
      <4>1. outcome'[c] # "result"
        BY <1>1, <2>6, <3>3, StepMoves, FailedOf DEF Moves, Unpaid
      <4>2. QED
        BY <4>1
    <3>4. CASE outcome'[c] \in {outcome[c], "error"} /\ binding'[c] = binding[c]
      BY <2>2, <3>4 DEF Granted
    <3>5. QED
      BY <1>1, <3>1, <3>2, <3>3, <3>4, StepMoves DEF Moves
  <2>8. QED
    BY <2>3, <2>4, <2>5, <2>7 DEF Granted
<1>2. ASSUME NEW q \in wire, Serve(q) PROVE Granted'
  <2>1. UNCHANGED <<key, pc, binding, outcome>> /\ charges \subseteq charges'
    BY <1>2, Served DEF given
  <2>2. \A c \in Calls : Backed(c) => Backed(c)'
    BY <2>1, StaysBacked
  <2>3. ASSUME NEW c \in Calls
        PROVE  \/ reply'[c] = reply[c]
               \/ /\ pc[c] = "paying"
                  /\ reply'[c] \in Accepted => Backed(c)'
    BY <1>2, Served DEF Accepted, Declined
  <2>4. QED
    BY <2>1, <2>2, <2>3 DEF Granted, Unpaid
<1>3. CASE Republish
  BY <1>3 DEF Republish, Granted, Backed, given
<1>4. CASE UNCHANGED vars
  BY <1>4 DEF vars, given, service, Granted, Backed
<1>5. QED
  BY <1>1, <1>2, <1>3, <1>4, Steps

LEMMA CleanKept ==
  ASSUME IInv, [Next]_vars
  PROVE  Clean'
<1> USE DEF IInv
<1>1. ASSUME NEW c \in Calls, Step(c) PROVE Clean'
  <2>1. UNCHANGED <<charges, port>>
    BY <1>1, StepKeeps DEF given, service
  <2>2. \A d \in Calls : ChargedBy(d)' = ChargedBy(d)
    BY <2>1 DEF ChargedBy
  <2>3. \A d \in Calls : d # c \/ pc'[c] # "paying" => InFlight(d)' = InFlight(d)
    BY <1>1, StepKeeps DEF InFlight
  <2>4. ASSUME NEW d \in Calls, d # c
        PROVE  /\ pc'[d] = "done" <=> outcome'[d] # "none"
               /\ thrown'[d] # "nothing" => pc'[d] = "done"
               /\ Forgotten(d)' =>
                    port'[d] = "python" /\ thrown'[d] \in {"foreign", "other"}
    BY <1>1, <2>1, <2>2, <2>3, <2>4, StepKeeps DEF Clean, Forgotten, Observed
  <2>5. /\ port[c] \in Ports
        /\ thrown'[c] \in Thrown =>
             /\ Failed(port[c], thrown'[c]) \in {"error", "uncertain"}
             /\ Failed(port[c], thrown'[c]) = "error" =>
                  port[c] = "python" /\ thrown'[c] \in {"foreign", "other"}
    BY FailedOf DEF TypeOK
  <2>6. pc[c] = "returned" =>
          Outcome(port[c], reply[c]) \in {"result", "refusal", "uncertain"}
    BY <2>5, OutcomeOf DEF TypeOK, Granted
  <2>7. /\ pc'[c] = "done" <=> outcome'[c] # "none"
        /\ thrown'[c] # "nothing" => pc'[c] = "done"
    BY <1>1, <2>5, <2>6, StepMoves DEF Moves, Clean, Unpaid, Thrown
  <2>8. pc[c] \in Unpaid => ~ChargedBy(c) /\ ~InFlight(c)
    BY DEF Owned, ChargedBy, InFlight
  <2>9. Forgotten(c)' => port[c] = "python" /\ thrown'[c] \in {"foreign", "other"}
    <3>1. CASE pc[c] \in Unpaid /\ pc'[c] = "done"
      BY <2>2, <2>3, <2>8, <3>1 DEF Forgotten
    <3>2. CASE pc[c] = "paying" /\ pc'[c] = "done"
      BY <1>1, <2>1, <2>5, <3>2, StepMoves DEF Moves, Unpaid, Forgotten
    <3>3. CASE pc[c] = "returned" /\ pc'[c] = "done"
      BY <1>1, <2>6, <3>3, StepMoves DEF Moves, Unpaid, Forgotten
    <3>4. CASE pc'[c] # "done"
      BY <2>7, <3>4 DEF Forgotten
    <3>5. QED
      BY <1>1, <3>1, <3>2, <3>3, <3>4, StepMoves DEF Moves, Unpaid
  <2>10. QED
    BY <2>1, <2>4, <2>7, <2>9 DEF Clean, Observed
<1>2. ASSUME NEW q \in wire, Serve(q) PROVE Clean'
  <2>1. wire' \subseteq wire /\ UNCHANGED <<port, pc, thrown, outcome>>
    BY <1>2, Served DEF given
  <2>2. ASSUME NEW c \in Calls, ~InFlight(c)
        PROVE  ~InFlight(c)' /\ ChargedBy(c)' = ChargedBy(c)
    <3>1. q.call # c
      BY <2>2 DEF InFlight
    <3>2. \A ch \in charges' : ch \in charges \/ ch.call # c
      BY <1>2, <3>1, Served DEF NewCharge
    <3>3. charges \subseteq charges'
      BY <1>2, Served
    <3>4. QED
      BY <2>1, <2>2, <3>2, <3>3 DEF InFlight, ChargedBy
  <2>3. QED
    BY <2>1, <2>2 DEF Clean, Forgotten, Observed
<1>3. CASE Republish
  BY <1>3 DEF Republish, Clean, Forgotten, Observed, ChargedBy, InFlight, given
<1>4. CASE UNCHANGED vars
  BY <1>4 DEF vars, given, service, Clean, Forgotten, Observed, ChargedBy,
              InFlight
<1>5. QED
  BY <1>1, <1>2, <1>3, <1>4, Steps

LEMMA InvariantKept == IInv /\ [Next]_vars => IInv'
  BY TypesKept, OwnedKept, GrantedKept, CleanKept DEF IInv

\* The invariant of the ports, whatever rail the caller plugs in
\* (go/client.go:201-255, rust/ausca/src/lib.rs:318-350 and their like).
THEOREM Invariant == Spec => []IInv
  BY Begins, InvariantKept, PTL DEF Spec

\* Every state of the ports has its type.
THEOREM TypeCorrect == Spec => []TypeOK
<1>1. IInv => TypeOK
  BY DEF IInv
<1>2. QED
  BY <1>1, Invariant, PTL

\* A result is backed by an admission of the call's key and own envelope, for
\* every language, order of looking at status and body (go/client.go:236-245),
\* number of requests and mix of languages that share a key.
THEOREM ResultBacked == Spec => []ResultIsPaid
<1>1. IInv => ResultIsPaid
  BY DEF IInv, Granted, Backed, ResultIsPaid
<1>2. QED
  BY <1>1, Invariant, PTL

\* An error that forgets the identity of a charge, or of a request that may
\* become one, is Python's, and what was thrown is none of the exceptions of
\* httpx that its clause names (python/ausca/src/ausca/client.py:248-261); every
\* answer that arrived leaves the identity, in every language.
THEOREM ForeignForgets == Spec => []OnlyForeignForgets
<1>1. IInv => OnlyForeignForgets
  BY DEF IInv, Clean, Observed, OnlyForeignForgets
<1>2. QED
  BY <1>1, Invariant, PTL
-----------------------------------------------------------------------------
(***************************************************************************)
(* The ports with a beforePayment implement InvocationContract: a step of  *)
(* a call moves its own stage or exposes its own money, a request served   *)
(* moves money alone, and a call of Python moves nothing that is observed. *)
(***************************************************************************)
mapped == <<stageOf, moneyOf>>

LEMMA StageTable ==
  ASSUME NEW c \in Calls
  PROVE  /\ ~Observed(c) => stageOf[c] = "open" /\ moneyOf[c] = "safe"
         /\ pc[c] \in Unpaid => stageOf[c] = "open"
         /\ Observed(c) =>
              /\ pc[c] \in {"paying", "returned"} => stageOf[c] = "cleared"
              /\ pc[c] = "crashed" => stageOf[c] = "crashed"
              /\ pc[c] = "done" =>
                   stageOf[c] = IF outcome[c] = "error" THEN "error" ELSE "kept"
  BY DEF stageOf, moneyOf, Unpaid

\* Where a step leaves the stage of its call.
LEMMA StageOfStep ==
  ASSUME IInv, IInv', NEW c \in Calls, Step(c), Observed(c)
  PROVE  \/ stageOf'[c] = stageOf[c]
         \/ /\ wire' = wire /\ stageOf[c] = "open" /\ stageOf'[c] = "cleared"
         \/ /\ wire' = wire /\ stageOf[c] = "cleared" /\ stageOf'[c] = "kept"
         \/ /\ wire' = wire /\ stageOf[c] \in {"open", "cleared"}
            /\ stageOf'[c] = "error" /\ moneyOf[c] = "safe"
         \/ /\ wire' = wire /\ stageOf[c] \in {"open", "cleared"}
            /\ stageOf'[c] = "crashed"
<1> USE DEF IInv
<1>0. Observed(c)'
  BY StepKeeps DEF Observed, given
<1>1. /\ pc'[c] \in Unpaid => stageOf'[c] = "open"
      /\ pc'[c] \in {"paying", "returned"} => stageOf'[c] = "cleared"
      /\ pc'[c] = "crashed" => stageOf'[c] = "crashed"
      /\ pc'[c] = "done" =>
           stageOf'[c] = IF outcome'[c] = "error" THEN "error" ELSE "kept"
  BY <1>0 DEF stageOf, Unpaid
<1>2. pc'[c] # "paying" => wire' = wire
  BY StepKeeps
<1>3. outcome'[c] = "error" => ~ChargedBy(c)' /\ ~InFlight(c)'
  BY <1>0 DEF Clean, Forgotten
<1>4. wire' = wire /\ ~ChargedBy(c)' /\ ~InFlight(c)' => moneyOf[c] = "safe"
  BY StepKeeps DEF moneyOf, ChargedBy, InFlight, service
<1>5. CASE pc[c] \in Unpaid
  <2>1. stageOf[c] = "open"
    BY <1>5, StageTable
  <2>2. ~ChargedBy(c) /\ ~InFlight(c)
    BY <1>5 DEF Owned, ChargedBy, InFlight
  <2>3. CASE pc'[c] = "done"
    <3>1. outcome'[c] = "error" /\ wire' = wire
      BY <1>2, <1>5, <2>3, StepMoves DEF Moves, Unpaid
    <3>2. QED
      BY <1>1, <1>3, <1>4, <2>1, <2>3, <3>1
  <2>4. CASE pc[c] = "idle" /\ pc'[c] = "bound"
    BY <1>1, <2>1, <2>4 DEF Unpaid
  <2>5. CASE pc[c] = "bound" /\ pc'[c] \in {"paying", "crashed"}
    <3>1. wire' = wire
      BY <2>5, StepKeeps
    <3>2. QED
      BY <1>1, <2>1, <2>5, <3>1
  <2>6. QED
    BY <1>5, <2>3, <2>4, <2>5, StepMoves DEF Moves, Unpaid
<1>6. CASE pc[c] \in {"paying", "returned"}
  BY <1>1, <1>2, <1>3, <1>4, <1>6, StageTable, StepMoves DEF Moves, Unpaid
<1>7. QED
  BY <1>5, <1>6, StepMoves DEF Moves, Unpaid

LEMMA StepSimulates ==
  ASSUME IInv, IInv', NEW c \in Calls, Step(c), Observed(c)
  PROVE  [Promise!ContractNext]_mapped
<1>0. TypeOK
  BY DEF IInv
<1>1. stageOf' = [stageOf EXCEPT ![c] = stageOf'[c]]
  <2>1. ASSUME NEW d \in Calls, d # c PROVE stageOf'[d] = stageOf[d]
    <3>1. /\ pc'[d] = pc[d] /\ outcome'[d] = outcome[d]
          /\ port' = port
      BY <1>0, <2>1, StepKeeps DEF given
    <3>2. pc[d] \in Phases
      BY <1>0 DEF TypeOK, Phases
    <3>3. QED
      BY <3>1, <3>2 DEF stageOf, Observed, Phases
  <2>2. stageOf \in [Calls -> Promise!Stages] /\ stageOf' \in [Calls -> Promise!Stages]
    BY DEF IInv, TypeOK, stageOf, Promise!Stages, Promise!Ended
  <2>3. QED
    BY <2>1, <2>2
<1>2. UNCHANGED <<charges, port>>
  BY <1>0, StepKeeps DEF given, service
<1>3. CASE wire' = wire
  <2>1. moneyOf' = moneyOf
    BY <1>2, <1>3 DEF moneyOf, ChargedBy, InFlight, Observed
  <2>2. CASE stageOf'[c] = stageOf[c]
    BY <1>1, <2>1, <2>2 DEF mapped, stageOf
  <2>3. CASE stageOf[c] = "open" /\ stageOf'[c] = "cleared"
    BY <1>1, <2>1, <2>3 DEF Promise!ContractNext, Promise!Clear
  <2>4. CASE stageOf[c] = "cleared" /\ stageOf'[c] = "kept"
    BY <1>1, <2>1, <2>4 DEF Promise!ContractNext, Promise!EndKept
  <2>5. CASE /\ stageOf[c] \in {"open", "cleared"}
             /\ stageOf'[c] = "error" /\ moneyOf[c] = "safe"
    BY <1>1, <2>1, <2>5 DEF Promise!ContractNext, Promise!EndInError
  <2>6. CASE stageOf[c] \in {"open", "cleared"} /\ stageOf'[c] = "crashed"
    <3>1. stageOf' \in [Calls -> Promise!Stages]
      BY DEF IInv, TypeOK, stageOf, Promise!Stages, Promise!Ended
    <3>2. \A d \in Calls : d # c => stageOf'[d] = stageOf[d]
      BY <1>1 DEF stageOf
    <3>3. Promise!Crash
      BY <2>1, <2>6, <3>1, <3>2 DEF Promise!Crash, Promise!Ended
    <3>4. QED
      BY <3>3 DEF Promise!ContractNext
  <2>7. QED
    BY <2>2, <2>3, <2>4, <2>5, <2>6, StageOfStep
<1>4. CASE wire' # wire
  <2>1. /\ pc[c] = "paying" /\ pc'[c] = "paying"
        /\ wire' = wire \cup {[call |-> c, n |-> sends[c] + 1]}
    BY <1>0, <1>4, StepKeeps
  <2>2. stageOf[c] = "cleared" /\ stageOf' = stageOf
    BY <1>1, <1>2, <2>1 DEF stageOf, Observed
  <2>3. \A d \in Calls : ChargedBy(d)' = ChargedBy(d)
    BY <1>2 DEF ChargedBy
  <2>4. \A d \in Calls : d # c => InFlight(d)' = InFlight(d)
    BY <2>1 DEF InFlight
  <2>5. InFlight(c)'
    <3>1. [call |-> c, n |-> sends[c] + 1] \in wire'
      BY <2>1
    <3>2. QED
      BY <3>1 DEF InFlight
  <2>6. CASE ChargedBy(c) \/ InFlight(c)
    <3>1. moneyOf' = moneyOf
      BY <1>2, <2>3, <2>4, <2>5, <2>6 DEF moneyOf, Observed
    <3>2. QED
      BY <2>2, <3>1 DEF mapped
  <2>7. CASE ~ChargedBy(c) /\ ~InFlight(c)
    <3>1. moneyOf[c] = "safe" /\ moneyOf' = [moneyOf EXCEPT ![c] = "exposed"]
      BY <1>2, <2>3, <2>4, <2>5, <2>7 DEF moneyOf, Observed
    <3>2. Promise!Expose(c)
      BY <2>2, <3>1 DEF Promise!Expose
    <3>3. QED
      BY <3>2 DEF Promise!ContractNext
  <2>8. QED
    BY <2>6, <2>7
<1>5. QED
  BY <1>3, <1>4

\* A step of a Python call moves nothing the contract is about.
LEMMA PythonStutters ==
  ASSUME IInv, NEW c \in Calls, Step(c), ~Observed(c)
  PROVE  UNCHANGED mapped
<1>0. TypeOK
  BY DEF IInv
<1>1. UNCHANGED <<charges, port>>
  BY <1>0, StepKeeps DEF given, service
<1>2. \A d \in Calls : d # c => pc'[d] = pc[d] /\ outcome'[d] = outcome[d]
  BY <1>0, StepKeeps
<1>3. stageOf' = stageOf
  <2>1. ASSUME NEW d \in Calls, d # c PROVE stageOf'[d] = stageOf[d]
    <3>1. pc[d] \in Phases
      BY <1>0 DEF TypeOK, Phases
    <3>2. QED
      BY <1>1, <1>2, <2>1, <3>1 DEF stageOf, Observed, Phases
  <2>2. stageOf'[c] = "open" /\ stageOf[c] = "open"
    BY <1>1 DEF stageOf, Observed
  <2>3. QED
    BY <2>1, <2>2 DEF stageOf
<1>4. \A d \in Calls : d # c => InFlight(d)' = InFlight(d)
  BY <1>0, StepKeeps DEF InFlight
<1>5. moneyOf' = moneyOf
  BY <1>1, <1>4 DEF moneyOf, ChargedBy, Observed
<1>6. QED
  BY <1>3, <1>5 DEF mapped

LEMMA ServeSimulates ==
  ASSUME IInv, NEW q \in wire, Serve(q)
  PROVE  [Promise!ContractNext]_mapped
<1> DEFINE c == q.call
<1>1. /\ c \in Calls /\ wire' = wire \ {q}
      /\ UNCHANGED <<key, port, pc, thrown, outcome>>
  BY Served DEF IInv, given
<1>2. stageOf' = stageOf
  BY <1>1 DEF stageOf, Observed
<1>3. InFlight(c)
  BY DEF InFlight
<1>4. \A d \in Calls : d # c => InFlight(d)' = InFlight(d)
  BY <1>1 DEF InFlight
<1>python. CASE ~Observed(c)
  <2>1. \A d \in Calls : d # c => ChargedBy(d)' = ChargedBy(d)
    BY Served DEF IInv, ChargedBy, NewCharge
  <2>2. moneyOf' = moneyOf
    BY <1>1, <1>4, <1>python, <2>1 DEF moneyOf, Observed
  <2>3. QED
    BY <1>2, <2>2 DEF mapped
<1>5. CASE UNCHANGED charges /\ Observed(c)
  <2>1. \A d \in Calls : ChargedBy(d)' = ChargedBy(d)
    BY <1>5 DEF ChargedBy
  <2>2. CASE ChargedBy(c) \/ InFlight(c)'
    <3>1. moneyOf' = moneyOf
      BY <1>1, <1>3, <1>4, <2>1, <2>2 DEF moneyOf, Observed
    <3>2. QED
      BY <1>2, <3>1 DEF mapped
  <2>3. CASE ~ChargedBy(c) /\ ~InFlight(c)'
    <3>1. moneyOf[c] = "exposed" /\ moneyOf' = [moneyOf EXCEPT ![c] = "safe"]
      BY <1>1, <1>3, <1>4, <1>5, <2>1, <2>3 DEF moneyOf, Observed
    <3>2. Promise!Release(c)
      BY <1>2, <3>1 DEF Promise!Release
    <3>3. QED
      BY <1>1, <3>2 DEF Promise!ContractNext
  <2>4. QED
    BY <2>2, <2>3
<1>6. CASE /\ charges' = charges \cup {NewCharge(c)}
           /\ ChargesOf(key[c]) = {} /\ Observed(c)
  <2>1. ~ChargedBy(c)
    BY <1>6 DEF IInv, Owned, ChargedBy, ChargesOf
  <2>2. ChargedBy(c)' /\ \A d \in Calls : d # c => ChargedBy(d)' = ChargedBy(d)
    <3>1. NewCharge(c) \in charges' /\ NewCharge(c).call = c
      BY <1>6 DEF NewCharge
    <3>2. QED
      BY <1>6, <3>1 DEF ChargedBy
  <2>3. moneyOf[c] = "exposed" /\ moneyOf' = [moneyOf EXCEPT ![c] = "charged"]
    BY <1>1, <1>3, <1>4, <1>6, <2>1, <2>2 DEF moneyOf, Observed
  <2>4. Promise!Charge(c)
    BY <1>2, <2>3 DEF Promise!Charge
  <2>5. QED
    BY <1>1, <2>4 DEF Promise!ContractNext
<1>7. QED
  BY <1>python, <1>5, <1>6, Served DEF IInv

\* The ports with a beforePayment (Go, Rust, Ruby, PHP, Swift, Dart, .NET and
\* Java) keep the promise of the TypeScript client, whatever their rail sends
\* and throws and whatever calls of Python share their keys: money moves after
\* beforePayment, one charge for a call, no error with money behind it
\* (go/client.go:226-255, rust/ausca/src/lib.rs:311-350).
THEOREM Implements == Spec => ImplementsContract
<1>1. Init => Promise!ContractInit
  BY DEF Init, Promise!ContractInit, stageOf, moneyOf, ChargedBy, InFlight
<1>2. ASSUME IInv, IInv', [Next]_vars PROVE [Promise!ContractNext]_mapped
  <2>1. CASE Republish
    BY <2>1 DEF Republish, given, mapped, stageOf, moneyOf, ChargedBy, InFlight,
                Observed
  <2>2. CASE UNCHANGED vars
    BY <2>2 DEF vars, given, service, mapped, stageOf, moneyOf, ChargedBy,
                InFlight, Observed
  <2>3. ASSUME NEW c \in Calls, Step(c) PROVE [Promise!ContractNext]_mapped
    BY <1>2, <2>3, StepSimulates, PythonStutters
  <2>4. QED
    BY <1>2, <2>1, <2>2, <2>3, Steps, ServeSimulates
<1>3. QED
  BY <1>1, <1>2, Invariant, PTL
     DEF Spec, ImplementsContract, Promise!Contract, Promise!cvars, mapped
=============================================================================
