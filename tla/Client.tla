------------------------------- MODULE Client -------------------------------
(***************************************************************************)
(* The TypeScript SDK client (packages/sdk/src/client.ts): several         *)
(* concurrent invoke() calls and catalog refreshes over one AuscaClient,   *)
(* its payment authority, a transport that loses and delays, and a crash   *)
(* of the buyer's process.                                                 *)
(*                                                                         *)
(* JavaScript runs one turn at a time, so a step of the model is the code  *)
(* between two awaits that yield to the network, to the observer or to the *)
(* authority.  The service is not part of the repository: ServeCatalog and *)
(* Serve are what the clients, their testkit and their docs say of it, an  *)
(* admission that is idempotent by key and bound to a catalog revision.    *)
(***************************************************************************)
EXTENDS Naturals, FiniteSets

CONSTANTS Rails,        \* the payment authorities considered
          Calls,        \* invocations of AuscaClient.invoke
          Refreshers,   \* callers of catalog({ refresh: true })
          Keys,         \* idempotency keys
          CleanKeys,    \* those of 16 to 128 clean UTF-8 bytes
          Observed,     \* the calls that pass an onTrace callback
          MaxRevision,  \* catalog revisions are 1..MaxRevision
          ActiveIn,     \* the revisions that list the offer
          Amounts,      \* what a 402 challenge may ask for
          Cap,          \* the authority's per-call cap
          MaxSends,     \* requests one call's authority may send
          MaxCrashes    \* crashes of the buyer's process

ASSUME ClientAssumption ==
         /\ Rails \subseteq {"inert", "localKey", "custom"}
         /\ Calls \cap Refreshers = {}
         /\ CleanKeys \subseteq Keys
         /\ MaxRevision \in Nat \ {0}
         /\ ActiveIn \subseteq 1..MaxRevision
         /\ Amounts \subseteq Nat \ {0}
         /\ Cap \in Nat \ {0}
         /\ MaxSends \in Nat
         /\ MaxCrashes \in Nat

VARIABLES rail,         \* the payment authority the client was built with
          key,          \* [Calls -> Keys]: supplied by the caller, or minted
          live,         \* the revision the service sells now
          catalogDocument,  \* this.catalogDocument: a revision, 0 for null
          document,     \* the revision a catalog answer carried, 0 for none
          pc,           \* where each call or refresh awaits
          binding,      \* the offer revision the call read
          frame,        \* the locals of invoke and of the authority below it
          reply,        \* the answer on its way back to the call
          outcome,
          shown,        \* identities the observers have accepted
          wire,         \* requests the service has not answered
          charges,      \* what the service has taken
          crashes

client == <<rail, key, crashes>>          \* what only a crash or Init sets
catalog == <<catalogDocument, document>>
service == <<live, charges>>
vars == <<client, catalog, service, pc, binding, frame, reply, outcome, shown,
          wire>>

Revisions == 1..MaxRevision
Fetchers == Calls \cup Refreshers
Null == 0
Lost == 1                         \* what the authority sees when fetch throws
Statuses == {200, 402, 409, 500}
Phases == {"idle", "fetching", "parsing", "tracing", "authority", "sent",
           "observing", "body", "uncertain", "done", "crashed"}
Kept == {"success", "refusal", "uncertain"}
Outcomes == Kept \cup {"none", "error"}
\* sends: requests put on the wire; last: the status the authority holds;
\* quote: the amount a challenge asked for.
Frames == [sends : 0..MaxSends, last : Statuses \cup {Null, Lost},
           quote : Amounts \cup {Null}, transportFailed : BOOLEAN,
           responseMayHaveExecuted : BOOLEAN]
NoFrame == [sends |-> 0, last |-> Null, quote |-> Null,
            transportFailed |-> FALSE, responseMayHaveExecuted |-> FALSE]
Requests == [call : Calls, n : 1..MaxSends, key : Keys, revision : Revisions,
             signed : BOOLEAN, amount : Amounts \cup {Null}]
Charges == [call : Calls, key : Keys, revision : Revisions, amount : Amounts]
Replies == [status : Statuses \cup {Null}, amount : Amounts \cup {Null}]
NoReply == [status |-> Null, amount |-> Null]

ok(status) == status = 200

TypeOK == /\ rail \in Rails
          /\ key \in [Calls -> Keys]
          /\ live \in Revisions
          /\ catalogDocument \in Revisions \cup {Null}
          /\ document \in [Fetchers -> Revisions \cup {Null}]
          /\ pc \in [Fetchers -> Phases]
          /\ binding \in [Calls -> Revisions \cup {Null}]
          /\ frame \in [Calls -> Frames]
          /\ reply \in [Calls -> Replies]
          /\ outcome \in [Calls -> Outcomes]
          /\ shown \subseteq [call : Calls, key : Keys, revision : Revisions]
          /\ wire \subseteq Requests
          /\ charges \subseteq Charges
          /\ crashes \in 0..MaxCrashes

Init == /\ rail \in Rails
        /\ key \in [Calls -> Keys]
        /\ live = 1
        /\ catalogDocument = Null
        /\ document = [f \in Fetchers |-> Null]
        /\ pc = [f \in Fetchers |-> "idle"]
        /\ binding = [c \in Calls |-> Null]
        /\ frame = [c \in Calls |-> NoFrame]
        /\ reply = [c \in Calls |-> NoReply]
        /\ outcome = [c \in Calls |-> "none"]
        /\ shown = {}
        /\ wire = {}
        /\ charges = {}
        /\ crashes = 0
-----------------------------------------------------------------------------
(***************************************************************************)
(* How a step of invoke leaves the call.  The locals go when it ends.      *)
(***************************************************************************)
End(c, o) == /\ pc' = [pc EXCEPT ![c] = "done"]
             /\ outcome' = [outcome EXCEPT ![c] = o]
             /\ frame' = [frame EXCEPT ![c] = NoFrame]

Goto(c, phase, f) == /\ pc' = [pc EXCEPT ![c] = phase]
                     /\ frame' = [frame EXCEPT ![c] = f]
                     /\ UNCHANGED outcome

\* Mutation of Caught: a response that may have executed is forgotten.
CaughtByTransportAlone(c) == IF ~frame[c].transportFailed
                             THEN End(c, "error")
                             ELSE Goto(c, "uncertain", frame[c])

\* Mutation of Caught: whatever the authority threw is rethrown.
Rethrown(c) == End(c, "error")

\* The catch around the authority and the body read: a failure nothing can
\* have executed behind is the caller's own error, any other is uncertain.
Caught(c) == IF ~frame[c].transportFailed /\ ~frame[c].responseMayHaveExecuted
             THEN End(c, "error")
             ELSE Goto(c, "uncertain", frame[c])
-----------------------------------------------------------------------------
(***************************************************************************)
(* The catalog, and the binding a call takes from it.                      *)
(***************************************************************************)
\* offer() and envelope(): what remains of invoke before the first trace.
Bind(c, revision) ==
  /\ binding' = [binding EXCEPT ![c] = revision]
  /\ IF revision \in ActiveIn /\ key[c] \in CleanKeys
     THEN Goto(c, "tracing", NoFrame)
     ELSE End(c, "error")

Invoke(c) ==
  /\ pc[c] = "idle"
  /\ IF catalogDocument = Null
     THEN Goto(c, "fetching", NoFrame) /\ UNCHANGED binding
     ELSE Bind(c, catalogDocument)
  /\ UNCHANGED <<client, catalog, service, reply, shown, wire>>

Refresh(r) ==
  /\ pc[r] = "idle"
  /\ pc' = [pc EXCEPT ![r] = "fetching"]
  /\ UNCHANGED <<client, catalog, service, binding, frame, reply, outcome,
                 shown, wire>>

\* The answer is made when the service is asked: it carries the revision sold
\* then, or nothing usable (an error status, a broken body, no offers array).
ServeCatalog(f) ==
  /\ pc[f] = "fetching"
  /\ pc' = [pc EXCEPT ![f] = "parsing"]
  /\ \E d \in {Null, live} : document' = [document EXCEPT ![f] = d]
  /\ UNCHANGED <<client, catalogDocument, service, binding, frame, reply,
                 outcome, shown, wire>>

\* Mutation of CatalogArrives: the cache is emptied before the answer is read.
CatalogDropped(f) ==
  /\ pc[f] = "parsing"
  /\ document' = [document EXCEPT ![f] = Null]
  /\ catalogDocument' = document[f]
  /\ IF f \in Calls THEN End(f, "error")
     ELSE pc' = [pc EXCEPT ![f] = "done"] /\ UNCHANGED <<frame, outcome>>
  /\ UNCHANGED <<client, service, binding, reply, shown, wire>>

\* catalog() after its last await: this.catalogDocument is assigned only here.
CatalogArrives(f) ==
  /\ pc[f] = "parsing"
  /\ document' = [document EXCEPT ![f] = Null]
  /\ catalogDocument' = IF document[f] = Null THEN catalogDocument
                        ELSE document[f]
  /\ \/ /\ f \in Refreshers
        /\ pc' = [pc EXCEPT ![f] = "done"]
        /\ UNCHANGED <<binding, frame, outcome>>
     \/ /\ f \in Calls
        /\ IF document[f] = Null
           THEN End(f, "error") /\ UNCHANGED binding
           ELSE Bind(f, document[f])
  /\ UNCHANGED <<client, service, reply, shown, wire>>
-----------------------------------------------------------------------------
(***************************************************************************)
(* await trace("request"): the caller stores the identity or stops.        *)
(***************************************************************************)
Identity(c) == [call |-> c, key |-> key[c], revision |-> binding[c]]

\* Mutation of RequestTraced: the observer's promise is not awaited.
RequestNotAwaited(c) ==
  /\ pc[c] = "tracing"
  /\ Goto(c, "authority", frame[c])
  /\ UNCHANGED <<client, catalog, service, binding, reply, shown, wire>>

RequestTraced(c) ==
  /\ pc[c] = "tracing"
  /\ shown' = IF c \in Observed THEN shown \cup {Identity(c)} ELSE shown
  /\ Goto(c, "authority", frame[c])
  /\ UNCHANGED <<client, catalog, service, binding, reply, wire>>

ObserverRefuses(c) ==
  /\ pc[c] = "tracing"
  /\ c \in Observed
  /\ End(c, "error")
  /\ UNCHANGED <<client, catalog, service, binding, reply, shown, wire>>
-----------------------------------------------------------------------------
(***************************************************************************)
(* The fetch that invoke gives to payment.wrapFetch.                       *)
(***************************************************************************)
\* Mutation of BaseFetch: the bytes are sent as the authority hands them over.
BaseFetchUnchecked(c, revision, signed, amount) ==
  /\ Goto(c, "sent", [frame[c] EXCEPT !.sends = @ + 1])
  /\ wire' = wire \cup {[call |-> c, n |-> frame[c].sends + 1,
                          key |-> key[c], revision |-> revision,
                          signed |-> signed, amount |-> amount]}

\* The authority hands over bytes; only the ones invoke serialized leave. For
\* others it gets an exception, thrown before a flag is set (client.ts:287): one
\* that swallows it is where it was.
BaseFetch(c, revision, signed, amount) ==
  IF revision # binding[c]
  THEN Caught(c) /\ UNCHANGED wire
  ELSE /\ Goto(c, "sent", [frame[c] EXCEPT !.sends = @ + 1])
       /\ wire' = wire \cup {[call |-> c, n |-> frame[c].sends + 1,
                              key |-> key[c], revision |-> revision,
                              signed |-> signed, amount |-> amount]}

\* fetch throws. The request may be lost, still on its way, or answered.
TransportFails(c) ==
  /\ pc[c] = "sent"
  /\ Goto(c, "authority", [frame[c] EXCEPT !.transportFailed = TRUE,
                                           !.last = Lost])
  /\ reply' = [reply EXCEPT ![c] = NoReply]
  /\ UNCHANGED <<client, catalog, service, binding, shown, wire>>

\* Mutation of ResponseArrives: each attempt starts with clean flags.
ResponseResetsFlags(c) ==
  LET status == reply[c].status IN
  /\ pc[c] = "sent"
  /\ status # Null
  /\ Goto(c, "observing",
          [frame[c] EXCEPT !.transportFailed = FALSE,
                           !.responseMayHaveExecuted = ok(status),
                           !.last = status, !.quote = reply[c].amount])
  /\ reply' = [reply EXCEPT ![c] = NoReply]
  /\ UNCHANGED <<client, catalog, service, binding, shown, wire>>

\* fetch answers: the flag is set before the response trace is awaited.
ResponseArrives(c) ==
  LET status == reply[c].status IN
  /\ pc[c] = "sent"
  /\ status # Null
  /\ Goto(c, "observing",
          [frame[c] EXCEPT
             !.responseMayHaveExecuted = @ \/ ok(status) \/ status >= 500,
             !.last = status,
             !.quote = IF reply[c].amount = Null THEN @ ELSE reply[c].amount])
  /\ reply' = [reply EXCEPT ![c] = NoReply]
  /\ UNCHANGED <<client, catalog, service, binding, shown, wire>>

\* trace("response") settles, either way: its failure is swallowed.
ResponseTraced(c) ==
  /\ pc[c] = "observing"
  /\ Goto(c, "authority", frame[c])
  /\ UNCHANGED <<client, catalog, service, binding, reply, shown, wire>>
-----------------------------------------------------------------------------
(***************************************************************************)
(* The payment authority.  "localKey" is the x402 client: one unsigned     *)
(* request, and after a 402 it accepts exactly one signed one.  "inert" is *)
(* the fetch it was given and hands a 402 back.  "custom" is any other     *)
(* implementation of the port: it may alter the bytes, send again after a  *)
(* lost or failed answer, or throw.                                        *)
(***************************************************************************)
BytesOf(c) == IF rail = "custom" THEN Revisions ELSE {binding[c]}

\* Mutation of AuthorityProbes: it asks again whatever it was answered.
AuthorityProbesForever(c) ==
  /\ pc[c] = "authority"
  /\ BaseFetch(c, binding[c], FALSE, Null)
  /\ UNCHANGED <<client, catalog, service, binding, reply, shown>>

AuthorityProbes(c) ==
  /\ pc[c] = "authority"
  /\ frame[c].last = Null
  /\ frame[c].sends < MaxSends
  /\ \E revision \in BytesOf(c) : BaseFetch(c, revision, FALSE, Null)
  /\ UNCHANGED <<client, catalog, service, binding, reply, shown>>

WithinCap(c) == frame[c].quote # Null /\ frame[c].quote <= Cap

AuthoritySigns(c) ==
  /\ pc[c] = "authority"
  /\ rail # "inert"
  /\ frame[c].last = 402
  /\ rail = "localKey" => frame[c].sends = 1
  /\ WithinCap(c)
  /\ frame[c].sends < MaxSends
  /\ \E revision \in BytesOf(c) : BaseFetch(c, revision, TRUE, frame[c].quote)
  /\ UNCHANGED <<client, catalog, service, binding, reply, shown>>

AuthorityResends(c) ==
  /\ pc[c] = "authority"
  /\ rail = "custom"
  /\ frame[c].last \in {Lost, 500}
  /\ frame[c].sends < MaxSends
  /\ \/ WithinCap(c) /\ BaseFetch(c, binding[c], TRUE, frame[c].quote)
     \/ BaseFetch(c, binding[c], FALSE, Null)
  /\ UNCHANGED <<client, catalog, service, binding, reply, shown>>

\* Mutation of AuthorityThrows: a lost answer is swallowed.
AuthoritySwallows(c) ==
  /\ pc[c] = "authority"
  /\ rail # "inert" /\ frame[c].last = 402
  /\ rail = "localKey" => frame[c].sends = 1
  /\ Caught(c)
  /\ UNCHANGED <<client, catalog, service, binding, reply, shown, wire>>

\* A lost answer is rethrown; a 402 above the cap, or that no scheme of the
\* wallet fits, is refused before signing.
AuthorityThrows(c) ==
  /\ pc[c] = "authority"
  /\ \/ frame[c].last = Lost
     \/ rail = "localKey" /\ frame[c].last = 402 /\ frame[c].sends = 1
     \/ rail = "custom"
  /\ Caught(c)
  /\ UNCHANGED <<client, catalog, service, binding, reply, shown, wire>>

AuthorityReturns(c) ==
  /\ pc[c] = "authority"
  /\ frame[c].last \in Statuses
  /\ rail = "localKey" => frame[c].last # 402 \/ frame[c].sends = 2
  /\ Goto(c, "body", frame[c])
  /\ UNCHANGED <<client, catalog, service, binding, reply, shown, wire>>
-----------------------------------------------------------------------------
(***************************************************************************)
(* What invoke makes of the response.                                      *)
(***************************************************************************)
BodyLost(c) ==
  /\ pc[c] = "body"
  /\ Caught(c)
  /\ UNCHANGED <<client, catalog, service, binding, reply, shown, wire>>

\* Mutation of BodyRead: the status is not looked at.
AnyBodyIsAResult(c) ==
  /\ pc[c] = "body"
  /\ End(c, "success")
  /\ UNCHANGED <<client, catalog, service, binding, reply, shown, wire>>

BodyRead(c) ==
  /\ pc[c] = "body"
  /\ \/ ~ok(frame[c].last) /\ End(c, "refusal")
     \/ ok(frame[c].last) /\ End(c, "success")
     \/ ok(frame[c].last) /\ Goto(c, "uncertain", frame[c])  \* no receipt
  /\ UNCHANGED <<client, catalog, service, binding, reply, shown, wire>>

\* Mutation of UncertainTraced: the original error is thrown instead.
UncertainRethrown(c) ==
  /\ pc[c] = "uncertain"
  /\ End(c, "error")
  /\ UNCHANGED <<client, catalog, service, binding, reply, shown, wire>>

\* trace("uncertain") settles, either way, and the identity is thrown.
UncertainTraced(c) ==
  /\ pc[c] = "uncertain"
  /\ End(c, "uncertain")
  /\ UNCHANGED <<client, catalog, service, binding, reply, shown, wire>>
-----------------------------------------------------------------------------
(***************************************************************************)
(* The service, as the clients use it, and the buyer's process.            *)
(***************************************************************************)
ChargesOf(k) == {ch \in charges : ch.key = k}

Awaited(q) == pc[q.call] = "sent" /\ q.n = frame[q.call].sends

Answer(q, status, amount) ==
  reply' = IF Awaited(q)
           THEN [reply EXCEPT ![q.call] = [status |-> status, amount |-> amount]]
           ELSE reply

\* A key that was admitted is replayed for the same binding and refused for
\* another; a new one is challenged, or admitted once it is paid for.
Replay(q) ==
  /\ ChargesOf(q.key) # {}
  /\ IF \E ch \in ChargesOf(q.key) : ch.revision = q.revision
     THEN Answer(q, 200, Null)
     ELSE Answer(q, 409, Null)
  /\ UNCHANGED charges

Challenge(q) ==
  /\ ChargesOf(q.key) = {} /\ q.revision = live /\ ~q.signed
  /\ \E a \in Amounts : Answer(q, 402, a)
  /\ UNCHANGED charges

Admit(q) ==
  /\ ChargesOf(q.key) = {} /\ q.revision = live /\ q.signed
  /\ \E status \in {200, 500} : Answer(q, status, Null)
  /\ charges' = charges \cup {[call |-> q.call, key |-> q.key,
                               revision |-> q.revision, amount |-> q.amount]}

Refuse(q) ==
  /\ ChargesOf(q.key) = {}
  /\ \/ q.revision # live /\ Answer(q, 409, Null)
     \/ q.signed /\ Answer(q, 402, Null)
     \/ Answer(q, 500, Null)
  /\ UNCHANGED charges

Serve(q) ==
  /\ Replay(q) \/ Challenge(q) \/ Admit(q) \/ Refuse(q)
  /\ wire' = wire \ {q}
  /\ UNCHANGED <<client, catalog, live, pc, binding, frame, outcome, shown>>

Republish ==
  /\ live < MaxRevision
  /\ live' = live + 1
  /\ UNCHANGED <<client, catalog, charges, pc, binding, frame, reply, outcome,
                 shown, wire>>

\* Everything in memory goes; what the observers stored, what is on the wire
\* and what the service holds stay. Calls not yet begun run in a new process.
Crash ==
  /\ crashes < MaxCrashes
  /\ crashes' = crashes + 1
  /\ pc' = [f \in Fetchers |-> IF pc[f] \in {"idle", "done"}
                               THEN pc[f] ELSE "crashed"]
  /\ catalogDocument' = Null
  /\ document' = [f \in Fetchers |-> Null]
  /\ frame' = [c \in Calls |-> NoFrame]
  /\ reply' = [c \in Calls |-> NoReply]
  /\ UNCHANGED <<rail, key, service, binding, outcome, shown, wire>>

\* The only place the system comes to rest: every call and refresh is over.
Rest == /\ \A f \in Fetchers : pc[f] \in {"done", "crashed"}
        /\ UNCHANGED vars
-----------------------------------------------------------------------------
CallStep(c) ==
  \/ Invoke(c) \/ RequestTraced(c) \/ ObserverRefuses(c)
  \/ AuthorityProbes(c) \/ AuthoritySigns(c) \/ AuthorityResends(c)
  \/ AuthorityThrows(c) \/ AuthorityReturns(c)
  \/ TransportFails(c) \/ ResponseArrives(c) \/ ResponseTraced(c)
  \/ BodyLost(c) \/ BodyRead(c) \/ UncertainTraced(c)

FetchStep(f) == ServeCatalog(f) \/ CatalogArrives(f)

Next == \/ \E c \in Calls : CallStep(c)
        \/ \E r \in Refreshers : Refresh(r)
        \/ \E f \in Fetchers : FetchStep(f)
        \/ \E q \in wire : Serve(q)
        \/ Republish
        \/ Crash
        \/ Rest

Spec == Init /\ [][Next]_vars

(***************************************************************************)
(* Fairness.  A call that is scheduled runs: the event loop is fair, fetch *)
(* settles (the runtime times a silent connection out) and an observer     *)
(* that was given an event settles.  Nothing is assumed of the service or  *)
(* of the network beyond that.                                             *)
(***************************************************************************)
Fairness == /\ \A c \in Calls : WF_vars(CallStep(c))
            /\ \A f \in Fetchers : WF_vars(FetchStep(f))

FairSpec == Spec /\ Fairness
-----------------------------------------------------------------------------
(***************************************************************************)
(* Properties.                                                             *)
(***************************************************************************)
ChargedBy(c) == \E ch \in charges : ch.call = c
SignedInFlight(c) == \E q \in wire : q.call = c /\ q.signed

\* No money can move for a call before its own observer has accepted exactly
\* the key and the revision being paid for, and never above the cap: whatever
\* a refresh, another call or the authority does between the request trace
\* (client.ts:279) and the signed request, and across a crash.
SignedOnlyAsShown ==
  \A m \in charges \cup {q \in wire : q.signed} :
    /\ m.call \in Observed =>
         [call |-> m.call, key |-> m.key, revision |-> m.revision] \in shown
    /\ m.amount <= Cap

\* The two flags of invoke (client.ts:282-283, 311) never lose a purchase: a
\* call that rethrew a bare error, which carries no identity, has been charged
\* nothing, and no signed request of it can still reach the service.
NoMoneyBehindAnError ==
  \A c \in Calls : outcome[c] = "error" => ~ChargedBy(c) /\ ~SignedInFlight(c)

\* invoke resolves (client.ts:330) only for an admission the service holds
\* under the call's own key and the binding the call read.
SuccessIsAdmitted ==
  \A c \in Calls : outcome[c] = "success" =>
    \E ch \in charges : ch.key = key[c] /\ ch.revision = binding[c]

\* A refresh that fails, or loses a race, never leaves a running client
\* without the catalog it had (client.ts:171-185).
CatalogKept ==
  [][catalogDocument # Null /\ crashes' = crashes
       => catalogDocument' # Null]_vars

\* client.ts:170 says the catalog is "fetched once and cached": as long as
\* nobody asks for a refresh, what the client holds is what it first fetched.
CatalogFetchedOnce ==
  [][catalogDocument # Null => catalogDocument' = catalogDocument]_vars

\* packages/sdk/README.md:37 says the identity is retained "if transport
\* fails": a call whose response was already coming back ends with it.
TransportFailureKeepsIdentity ==
  [][\A c \in Calls : pc[c] = "body" /\ pc'[c] = "done"
                         => outcome'[c] \in Kept]_vars

\* Every invoke that was begun settles: no ending of the authority, the
\* transport or a diagnostic leaves its promise pending.
CallsSettle ==
  \A c \in Calls : pc[c] # "idle" ~> pc[c] \in {"done", "crashed"}

\* A charge reaches its buyer: the call that was charged ends with its
\* identity in the outcome, unless the process that made it is gone.
ChargeIsReported ==
  \A c \in Calls : ChargedBy(c) ~> outcome[c] \in Kept \/ pc[c] = "crashed"
-----------------------------------------------------------------------------
(***************************************************************************)
(* The client implements the invocation contract.                          *)
(***************************************************************************)
stageOf == [c \in Calls |->
  IF pc[c] \in {"idle", "fetching", "parsing", "tracing"} THEN "open"
  ELSE IF pc[c] = "crashed" THEN "crashed"
  ELSE IF pc[c] = "done" THEN IF outcome[c] \in Kept THEN "kept" ELSE "error"
  ELSE "cleared"]

moneyOf == [c \in Calls |-> IF ChargedBy(c) THEN "charged"
                            ELSE IF SignedInFlight(c) THEN "exposed"
                            ELSE "safe"]

Contract == INSTANCE InvocationContract WITH stage <- stageOf, money <- moneyOf

\* A call is charged only after it was cleared, at most once, and an ending
\* without identity leaves nothing exposed or charged, then or later.
ImplementsContract == Contract!Contract
=============================================================================
