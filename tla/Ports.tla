------------------------------- MODULE Ports -------------------------------
(***************************************************************************)
(* invoke() of the clients in the other languages: Go, Rust, Ruby, PHP,    *)
(* Swift, Dart, .NET, Java and Python.  They share one protocol and differ *)
(* in what they make of the answer.  The payment is a port of each: it     *)
(* performs the whole exchange, challenge, signature and retry, and it is  *)
(* the caller's own code everywhere but in Python, whose local-key rail is *)
(* one more that fits.  So any rail is modelled: it sends signed requests, *)
(* returns the answer to the last one, or throws.                          *)
(*                                                                         *)
(* Every call is a process and a client of its own; calls of several       *)
(* languages may share a purchase key.                                     *)
(***************************************************************************)
EXTENDS Naturals

CONSTANTS Calls,         \* the invocations
          Keys,          \* purchase keys of the callers
          MaxRevision,   \* bound: catalogs published
          MaxSends       \* bound: signed requests of a call

\* "other": Rust, Ruby, PHP, Swift, Dart, .NET and Java, which agree.
Ports == {"go", "other", "python"}

ASSUME PortsAssumption ==
  MaxRevision \in Nat \ {0} /\ MaxSends \in Nat \ {0}

VARIABLES port, key,    \* what each call was made with
          live,         \* the catalog revision the service has
          charges,      \* what it took
          pc,
          binding,      \* the revision of the envelope, 0 before there is one
          sends,        \* signed requests of the call so far
          reply,        \* the answer to the last of them
          thrown,       \* what its rail threw
          outcome,
          wire          \* signed requests not served yet

given == <<port, key>>
service == <<live, charges>>
vars == <<given, service, pc, binding, sends, reply, thrown, outcome, wire>>

Revisions == 1..MaxRevision

\* Statuses below 400: a JSON result, one whose receipt is malformed, a text.
\* From 400: a refusal in JSON, or the page of a proxy.
Accepted == {"result", "bad receipt", "text"}
Declined == {"refusal", "page"}
NoAnswer == "none"

\* What a rail throws: an exception of the client's own HTTP stack (in Python
\* httpx.TransportError, timeouts included); the broken connection of a delegated
\* executor that performs its own transport; a refusal to sign, an answer that
\* cannot be decoded, too many redirects.
Thrown == {"transport", "foreign", "other"}
Requests == [call : Calls, n : 1..MaxSends]

TypeOK ==
  /\ port \in [Calls -> Ports]
  /\ key \in [Calls -> Keys]
  /\ live \in Revisions
  /\ charges \subseteq [call : Calls, key : Keys, revision : Revisions]
  /\ pc \in [Calls -> {"idle", "bound", "paying", "returned", "done", "crashed"}]
  /\ binding \in [Calls -> 0..MaxRevision]
  /\ sends \in [Calls -> 0..MaxSends]
  /\ reply \in [Calls -> Accepted \cup Declined \cup {NoAnswer}]
  /\ thrown \in [Calls -> Thrown \cup {"nothing"}]
  /\ outcome \in [Calls -> {"none", "result", "refusal", "uncertain", "error"}]
  /\ wire \subseteq Requests

Init ==
  /\ port \in [Calls -> Ports]
  /\ key \in [Calls -> Keys]
  /\ live = 1 /\ charges = {}
  /\ pc = [c \in Calls |-> "idle"]
  /\ binding = [c \in Calls |-> 0]
  /\ sends = [c \in Calls |-> 0]
  /\ reply = [c \in Calls |-> NoAnswer]
  /\ thrown = [c \in Calls |-> "nothing"]
  /\ outcome = [c \in Calls |-> "none"]
  /\ wire = {}
-----------------------------------------------------------------------------
Goto(c, l) == pc' = [pc EXCEPT ![c] = l]
End(c, o) == Goto(c, "done") /\ outcome' = [outcome EXCEPT ![c] = o]

\* The offer is bound to the catalog of the moment.
Bind(c) ==
  /\ pc[c] = "idle"
  /\ Goto(c, "bound")
  /\ binding' = [binding EXCEPT ![c] = live]
  /\ UNCHANGED <<given, service, sends, reply, thrown, outcome, wire>>

\* No payment authority, no catalog, no active offer, no clean key; or the
\* caller's beforePayment throws, which Python does not have.
Refuses(c) ==
  /\ \/ pc[c] = "idle"
     \/ pc[c] = "bound" /\ port[c] # "python"
  /\ End(c, "error")
  /\ UNCHANGED <<given, service, binding, sends, reply, thrown, wire>>

\* beforePayment has stored the identity; Python pays without asking anybody.
Pay(c) ==
  /\ pc[c] = "bound"
  /\ Goto(c, "paying")
  /\ UNCHANGED <<given, service, binding, sends, reply, thrown, outcome, wire>>

RailSends(c) ==
  /\ pc[c] = "paying" /\ sends[c] < MaxSends
  /\ sends' = [sends EXCEPT ![c] = @ + 1]
  /\ reply' = [reply EXCEPT ![c] = NoAnswer]
  /\ wire' = wire \cup {[call |-> c, n |-> sends[c] + 1]}
  /\ UNCHANGED <<given, service, pc, binding, thrown, outcome>>

\* Mutation of Failed: every port names the exceptions of its own transport.
FailedNarrow(p, kind) == IF kind = "transport" THEN "uncertain" ELSE "error"

\* Python catches httpx.TransportError only; the others catch whatever it is.
Failed(p, kind) ==
  IF p = "python" /\ kind # "transport" THEN "error" ELSE "uncertain"

RailThrows(c) ==
  /\ pc[c] = "paying"
  /\ \E kind \in Thrown :
       /\ thrown' = [thrown EXCEPT ![c] = kind]
       /\ End(c, Failed(port[c], kind))
  /\ UNCHANGED <<given, service, binding, sends, reply, wire>>

ChargesOf(k) == {ch \in charges : ch.key = k}
IsReplay(c) == \E ch \in ChargesOf(key[c]) : ch.revision = binding[c]

\* The answer to its last request, or to an unsigned one if it has not paid:
\* that is declined, with a challenge or otherwise, unless it is a replay.
RailReturns(c) ==
  /\ pc[c] = "paying"
  /\ \/ reply[c] # NoAnswer /\ UNCHANGED reply
     \/ /\ sends[c] = 0
        /\ \E a \in Declined \cup (IF IsReplay(c) THEN Accepted ELSE {}) :
             reply' = [reply EXCEPT ![c] = a]
  /\ Goto(c, "returned")
  /\ UNCHANGED <<given, service, binding, sends, thrown, outcome, wire>>

\* Mutation of Outcome: a JSON body is a result, whatever the status.
OutcomeAnyJson(p, a) ==
  IF a \in {"text", "page"} THEN "uncertain"
  ELSE IF a = "refusal" /\ p # "other" THEN "refusal" ELSE "result"

\* Mutation of Outcome: Python lets the exception of a bad receipt out.
OutcomeBare(p, a) ==
  IF p = "python" /\ a = "bad receipt" THEN "error"
  ELSE IF a \in Declined THEN "refusal"
  ELSE IF a = "bad receipt" /\ p = "python" THEN "uncertain" ELSE "result"

\* Go asks for the status first, the others for a JSON body; Python takes any
\* body, and wants a sound receipt.
Outcome(p, a) ==
  CASE p = "python" -> IF a \in Declined THEN "refusal"
                       ELSE IF a = "bad receipt" THEN "uncertain" ELSE "result"
    [] p = "go" -> IF a \in Declined THEN "refusal"
                   ELSE IF a = "text" THEN "uncertain" ELSE "result"
    [] p = "other" -> IF a \in {"text", "page"} THEN "uncertain"
                      ELSE IF a = "refusal" THEN "refusal" ELSE "result"

\* Mutation of Decode: an answer that is no JSON ends in an exception.
DecodeRaises(c) ==
  /\ pc[c] = "returned"
  /\ Goto(c, IF reply[c] \in {"text", "page"} THEN "raised" ELSE "done")
  /\ outcome' = [outcome EXCEPT ![c] = Outcome(port[c], reply[c])]
  /\ UNCHANGED <<given, service, binding, sends, reply, thrown, wire>>

Decode(c) ==
  /\ pc[c] = "returned"
  /\ End(c, Outcome(port[c], reply[c]))
  /\ UNCHANGED <<given, service, binding, sends, reply, thrown, wire>>

\* The caller's process dies; what is on the wire stays there.
Dies(c) ==
  /\ pc[c] \in {"bound", "paying", "returned"}
  /\ Goto(c, "crashed")
  /\ UNCHANGED <<given, service, binding, sends, reply, thrown, outcome, wire>>
-----------------------------------------------------------------------------
(***************************************************************************)
(* The service, as in Client: one charge for a key, and only at the live   *)
(* revision.                                                               *)
(***************************************************************************)
\* The answer reaches the call if its rail still waits for it.
Answer(q, answers) ==
  IF pc[q.call] = "paying" /\ q.n = sends[q.call]
  THEN \E a \in answers : reply' = [reply EXCEPT ![q.call] = a]
  ELSE UNCHANGED reply

Replay(q) ==
  /\ ChargesOf(key[q.call]) # {}
  /\ IF IsReplay(q.call)
     THEN Answer(q, Accepted) ELSE Answer(q, Declined)
  /\ UNCHANGED charges

Admit(q) ==
  /\ ChargesOf(key[q.call]) = {} /\ binding[q.call] = live
  /\ charges' = charges \cup {[call |-> q.call, key |-> key[q.call],
                               revision |-> binding[q.call]]}
  /\ Answer(q, Accepted \cup Declined)   \* 5xx: its answer went wrong

Refuse(q) ==
  /\ ChargesOf(key[q.call]) = {}
  /\ Answer(q, Declined)
  /\ UNCHANGED charges

Serve(q) ==
  /\ \/ Replay(q) \/ Refuse(q) \/ Admit(q)
  /\ wire' = wire \ {q}
  /\ UNCHANGED <<given, live, pc, binding, sends, thrown, outcome>>

Republish ==
  /\ live < MaxRevision
  /\ live' = live + 1
  /\ UNCHANGED <<given, charges, pc, binding, sends, reply, thrown, outcome, wire>>

Rest == (\A c \in Calls : pc[c] \in {"done", "crashed"}) /\ UNCHANGED vars
-----------------------------------------------------------------------------
Step(c) == \/ Bind(c) \/ Refuses(c) \/ Pay(c) \/ RailSends(c) \/ RailThrows(c)
           \/ RailReturns(c) \/ Decode(c) \/ Dies(c)

Next == \/ \E c \in Calls : Step(c)
        \/ \E q \in wire : Serve(q)
        \/ Republish \/ Rest

Spec == Init /\ [][Next]_vars
-----------------------------------------------------------------------------
ChargedBy(c) == \E ch \in charges : ch.call = c
InFlight(c) == \E q \in wire : q.call = c

\* The ports with a beforePayment.  Python has none: it hands the identity to
\* nobody before it pays, so it cannot keep the contract and is checked apart.
Observed(c) == port[c] # "python"

stageOf == [c \in Calls |->
  CASE ~Observed(c) \/ pc[c] \in {"idle", "bound"} -> "open"
    [] Observed(c) /\ pc[c] \in {"paying", "returned"} -> "cleared"
    [] Observed(c) /\ pc[c] = "crashed" -> "crashed"
    [] Observed(c) /\ pc[c] = "done" ->
         IF outcome[c] = "error" THEN "error" ELSE "kept"]

moneyOf == [c \in Calls |-> IF ~Observed(c) THEN "safe"
                            ELSE IF ChargedBy(c) THEN "charged"
                            ELSE IF InFlight(c) THEN "exposed" ELSE "safe"]

Promise == INSTANCE InvocationContract WITH stage <- stageOf, money <- moneyOf

\* Whatever rail is plugged in and whatever it throws, the ports that have a
\* beforePayment keep the promise of the TypeScript client, next to calls of
\* Python that may share their keys: no money before beforePayment has run, one
\* charge for a call, and none behind an error without the identity
\* (go/client.go:230-231, rust/ausca/src/lib.rs:318-334 and their like).
ImplementsContract == Promise!Contract

Forgotten(c) == outcome[c] = "error" /\ (ChargedBy(c) \/ InFlight(c))

\* An error without the identity has a charge or a request in flight behind it
\* only in Python, and there only when what the rail threw is no
\* httpx.TransportError: an exception on the way to the request, a timeout, and
\* an answer that has arrived, whatever is wrong with it or its receipt, all
\* leave the caller with the identity (python/ausca/src/ausca/client.py:248-261).
OnlyForeignForgets ==
  \A c \in Calls : Forgotten(c) =>
    port[c] = "python" /\ thrown[c] \in {"foreign", "other"}

\* What python/ausca/README.md:58-59 says: "`InvocationUncertainError.identity`
\* retains recovery identity on transport failure".  A delegated executor of
\* payment.py:5-6 that performs its own transport fails in its own way, which
\* client.py:252 does not catch.
PythonKeepsIdentity ==
  \A c \in Calls : port[c] = "python" /\ thrown[c] \in {"transport", "foreign"}
                   => ~Forgotten(c)

\* A call that ends in a result was admitted, or is the replay of a call, maybe
\* of another language, that was admitted for its key and its own envelope: no
\* answer of status 400 or above passes for one, JSON or a page, in whichever
\* order a port looks at status and body, and however often its rail sent.  That
\* a status below 400 is the service's and stands for an admission is assumed of
\* it (Replay, Refuse, Admit); Python takes any such body for a result
\* (client.py:285-293).
ResultIsPaid ==
  \A c \in Calls : outcome[c] = "result" =>
    \E ch \in charges : ch.key = key[c] /\ ch.revision = binding[c]
=============================================================================
