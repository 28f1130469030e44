----------------------------- MODULE FrontDoor -----------------------------
(***************************************************************************)
(* The front door (packages/ausca/src): the local MCP server, whose tools  *)
(* are derived once from a catalog that moves on, and the CLI, a process   *)
(* and a client of its own per verb.  Both take a signing key and a cap    *)
(* from the environment only, and a purchase key from the caller only.     *)
(*                                                                         *)
(* client.invoke is taken at its contract (InvocationContract): a result,  *)
(* or an error, and behind an error the request may still be admitted.     *)
(* The verbs and tools that only read, and the artifact commit, change     *)
(* nothing here: of them only the cached catalog they look at is kept.     *)
(***************************************************************************)
EXTENDS Naturals, Sequences, SequencesExt

CONSTANTS Calls,          \* tool calls of one MCP server, or CLI processes
          CatalogOrder,   \* the active offers, in the order of the catalog
          Names,          \* names the catalog's MCP projection may give them
          Keys,           \* purchase keys a caller may save
          MaxArguments,   \* bound: arguments of `ausca invoke`
          MaxRevision,    \* bound: catalogs published
          None            \* an argument, a key or a tool that is not there

Offers == ToSet(CatalogOrder)
Flag == "--idempotency-key"
Blank == ""
Builtins == {"ausca_catalog", "ausca_price", "ausca_commit_artifact"}

ASSUME FrontDoorAssumption ==
  /\ CatalogOrder \in Seq(Offers) /\ Names # {}
  /\ MaxRevision \in Nat \ {0} /\ MaxArguments \in Nat
  /\ None \notin Offers \cup Names \cup Keys \cup {Flag, Blank}

VARIABLES front,          \* "mcp" or "cli"
          env,            \* "none": no key; "capped": a key and a cap;
                          \* "uncapped": a key and no valid cap
          projection,     \* [Offers -> Names]: the tools the catalog projects
          schema,         \* [Offers -> {"object", "unfit"}]: the input schemas
          live,           \* the catalog revision the service has
          server,         \* where the MCP server is
          cached,         \* the catalog of its client, 0 for none
          tools,          \* what it lists
          pc,             \* where each call is
          request,        \* what its caller asked for
          binding,        \* the offer and revision it invokes
          outcome,
          wire, charges   \* paid requests unserved; what the service took

config == <<front, env, projection, schema>>
mcp == <<server, cached, tools>>
call == <<pc, request, binding, outcome>>
vars == <<config, live, mcp, call, wire, charges>>

Strings == Offers \cup Keys \cup {Flag, Blank}
Requests == [target : Names \cup Builtins \cup Strings \cup {None},
             key : Strings \cup {None}, input : Strings \cup {None},
             argv : Seq(Strings)]
NoRequest == [target |-> None, key |-> None, input |-> None, argv |-> <<>>]
Bindings == [offer : Offers, revision : 1..MaxRevision]
NoBinding == [offer |-> None, revision |-> 0]
Tools == [name : Names, offer : Offers, revision : 1..MaxRevision]
Paid == [call : Calls, key : Strings \cup Calls, offer : Offers,
         revision : 1..MaxRevision]

TypeOK ==
  /\ front \in {"mcp", "cli"} /\ env \in {"none", "capped", "uncapped"}
  /\ projection \in [Offers -> Names]
  /\ schema \in [Offers -> {"object", "unfit"}]
  /\ live \in 1..MaxRevision /\ cached \in 0..MaxRevision
  /\ server \in {"down", "fetching", "deriving", "serving", "failed", "dead"}
  /\ tools \in Seq(Tools) /\ Len(tools) <= Len(CatalogOrder)
  /\ pc \in [Calls -> {"idle", "paying", "done", "lost"}]
  /\ request \in [Calls -> Requests]
  /\ binding \in [Calls -> Bindings \cup {NoBinding}]
  /\ outcome \in [Calls -> {"none", "result", "error"}]
  /\ wire \subseteq Paid /\ charges \subseteq Paid

\* The projection and the schemas matter to the server alone.
Init ==
  /\ front \in {"mcp", "cli"}
  /\ env \in {"none", "capped", "uncapped"}
  /\ projection \in IF front = "mcp" THEN [Offers -> Names]
                    ELSE {[o \in Offers |-> CHOOSE n \in Names : TRUE]}
  /\ schema \in IF front = "mcp" THEN [Offers -> {"object", "unfit"}]
                ELSE {[o \in Offers |-> "object"]}
  /\ live = 1
  /\ server = "down" /\ cached = 0 /\ tools = <<>>
  /\ pc = [c \in Calls |-> "idle"]
  /\ request = [c \in Calls |-> NoRequest]
  /\ binding = [c \in Calls |-> NoBinding]
  /\ outcome = [c \in Calls |-> "none"]
  /\ wire = {} /\ charges = {}
-----------------------------------------------------------------------------
\* Mutation of paymentFromEnvironment: a key without a cap pays.
PaymentWithoutCap == IF env = "none" THEN "null" ELSE "authority"

\* A key without a positive cap is refused: no spend limit is guessed.
paymentFromEnvironment == CASE env = "none" -> "null"
                            [] env = "capped" -> "authority"
                            [] env = "uncapped" -> "throws"

\* A client without an authority is inert; a verb that pays refuses to have one.
clientFromEnvironment(requirePayment) ==
  IF paymentFromEnvironment = "null"
  THEN IF requirePayment THEN "throws" ELSE "inert"
  ELSE paymentFromEnvironment

\* envelope(): a key that is not given is minted, the call's own; one that is
\* has 16 to 128 clean bytes.
CleanKeys == Keys \cup {Flag}
EnvelopeKey(c, r) == IF r.key = None THEN c ELSE r.key

\* client.invoke sends, for offer o at the revision of the client's catalog.
Invoke(c, r, o, revision) ==
  /\ r.key \in CleanKeys \cup {None}
  /\ pc' = [pc EXCEPT ![c] = "paying"]
  /\ request' = [request EXCEPT ![c] = r]
  /\ binding' = [binding EXCEPT ![c] = [offer |-> o, revision |-> revision]]
  /\ wire' = wire \cup {[call |-> c, key |-> EnvelopeKey(c, r), offer |-> o,
                         revision |-> revision]}
  /\ UNCHANGED outcome

\* A text result, or an exit code and a line.
Answers(c, o) == /\ pc' = [pc EXCEPT ![c] = "done"]
                 /\ outcome' = [outcome EXCEPT ![c] = o]
                 /\ UNCHANGED <<request, binding>>
-----------------------------------------------------------------------------
(***************************************************************************)
(* The MCP server: buildMcpServer, deriveTools.                            *)
(***************************************************************************)
StartServer ==
  /\ front = "mcp" /\ server = "down"
  /\ server' = IF clientFromEnvironment(FALSE) = "throws" THEN "failed" ELSE "fetching"
  /\ UNCHANGED <<config, live, cached, tools, call, wire, charges>>

CatalogFetched ==
  /\ server = "fetching"
  /\ server' = "deriving" /\ cached' = live
  /\ UNCHANGED <<config, live, tools, call, wire, charges>>

\* Mutation of CatalogFails: the server starts without a catalog.
CatalogFailureIgnored ==
  /\ server = "fetching"
  /\ server' = "deriving"
  /\ UNCHANGED <<config, live, cached, tools, call, wire, charges>>

CatalogFails ==
  /\ server = "fetching"
  /\ server' = "failed"
  /\ UNCHANGED <<config, live, cached, tools, call, wire, charges>>

DerivedOffer == CatalogOrder[Len(tools) + 1]
ListTool(o) == tools' = Append(tools, [name |-> projection[o], offer |-> o,
                                       revision |-> cached])

\* An object schema without a property of the key's name.
withInvocationIdentity(o) == schema[o] = "object"

\* A schema the key cannot be added to keeps the server from starting.
SchemaFetched ==
  /\ server = "deriving" /\ Len(tools) < Len(CatalogOrder)
  /\ IF withInvocationIdentity(DerivedOffer)
     THEN ListTool(DerivedOffer) /\ UNCHANGED server
     ELSE server' = "failed" /\ UNCHANGED tools
  /\ UNCHANGED <<config, live, cached, call, wire, charges>>

\* The schema cannot be read: a permissive one stands in, the service validates.
SchemaMissing ==
  /\ server = "deriving" /\ Len(tools) < Len(CatalogOrder)
  /\ ListTool(DerivedOffer)
  /\ UNCHANGED <<config, live, server, cached, call, wire, charges>>

\* Mutation of Serve: the server is connected while tools are derived.
ServeEarly ==
  /\ server = "deriving"
  /\ server' = "serving"
  /\ UNCHANGED <<config, live, cached, tools, call, wire, charges>>

\* The built-in tools are pushed and the handlers are set.
Serve ==
  /\ server = "deriving" /\ Len(tools) = Len(CatalogOrder)
  /\ server' = "serving"
  /\ UNCHANGED <<config, live, cached, tools, call, wire, charges>>

(***************************************************************************)
(* callTool.  The first tool of the name is the one that is found; a tool  *)
(* of a built-in name is the built-in one, whoever listed it.              *)
(***************************************************************************)
Listed(name) == {i \in DOMAIN tools : tools[i].name = name}
Found(name) == tools[CHOOSE i \in Listed(name) :
                       \A j \in Listed(name) : i <= j]

Called(c) == server = "serving" /\ pc[c] = "idle"

\* Mutation of CatalogTool: the listing is the live one.
CatalogToolRefreshes(c) ==
  /\ Called(c)
  /\ Answers(c, "result")
  /\ cached' = live
  /\ UNCHANGED <<config, live, server, tools, wire, charges>>

\* ausca_catalog, ausca_price and ausca_commit_artifact: the cached catalog.
CatalogTool(c) ==
  /\ Called(c)
  /\ Answers(c, "result") \/ Answers(c, "error")
  /\ UNCHANGED <<config, live, mcp, wire, charges>>

\* A caller may always ask for what is refused: no tool of the name; a server
\* that cannot pay; a key that is no string.
ToolRefused(c) ==
  /\ Called(c)
  /\ Answers(c, "error")
  /\ UNCHANGED <<config, live, mcp, wire, charges>>

\* Mutation of PaidTool: the key is left to the client.
PaidToolKeyless(c) ==
  /\ Called(c) /\ paymentFromEnvironment # "null"
  /\ \E name \in Names \ Builtins, k \in Keys \cup {None} :
       /\ Listed(name) # {}
       /\ Invoke(c, [NoRequest EXCEPT !.target = name, !.key = k],
                 Found(name).offer, cached)
  /\ UNCHANGED <<config, live, mcp, charges>>

PaidTool(c) ==
  /\ Called(c) /\ paymentFromEnvironment # "null"
  /\ \E name \in Names \ Builtins, k \in Keys :
       /\ Listed(name) # {}
       /\ Invoke(c, [NoRequest EXCEPT !.target = name, !.key = k],
                 Found(name).offer, cached)
  /\ UNCHANGED <<config, live, mcp, charges>>
-----------------------------------------------------------------------------
(***************************************************************************)
(* The CLI: `ausca invoke`.                                                *)
(***************************************************************************)
Argument(s, t) ==
  IF s.valueDue
  THEN [s EXCEPT !.valueDue = FALSE, !.key = t, !.ok = t # Blank]
  ELSE IF t = Flag
  THEN [s EXCEPT !.valueDue = TRUE, !.ok = s.key = None]
  ELSE [s EXCEPT !.input = t, !.ok = s.input = None]

NothingParsed == [ok |-> TRUE, valueDue |-> FALSE, key |-> None, input |-> None]

\* Mutation of invocationArguments: the value of the flag is not stepped over.
ArgumentKept(s, t) ==
  IF s.valueDue
  THEN [s EXCEPT !.valueDue = FALSE, !.key = t, !.input = t, !.ok = t # Blank]
  ELSE Argument(s, t)
invocationArgumentsKept(argv) ==
  FoldLeft(LAMBDA s, t : IF s.ok THEN ArgumentKept(s, t) ELSE s,
           NothingParsed, Tail(argv))

\* The arguments after the offer, from left to right; the first that does not
\* fit is thrown.
invocationArguments(argv) ==
  LET parsed[i \in DOMAIN argv] ==
        IF i = 1 THEN NothingParsed
        ELSE IF parsed[i - 1].ok THEN Argument(parsed[i - 1], argv[i])
        ELSE parsed[i - 1]
  IN parsed[Len(argv)]

\* A usage error, no authority, no key, an input that cannot be read, an offer
\* that is not active.
VerbRefused(c) ==
  /\ front = "cli" /\ pc[c] = "idle"
  /\ Answers(c, "error")
  /\ UNCHANGED <<config, live, mcp, wire, charges>>

\* The verbs that read, `commit` and `help`: a client of their own, no payment.
ReadVerb(c) ==
  /\ front = "cli" /\ pc[c] = "idle"
  /\ Answers(c, "result") \/ Answers(c, "error")
  /\ UNCHANGED <<config, live, mcp, wire, charges>>

\* Inline JSON, a file, @file or stdin: no input is to be had from a blank.
resolveInput(argument) == argument # Blank

\* A client of its own: it binds the catalog the service has at the time.
InvokeVerb(c) ==
  /\ front = "cli" /\ pc[c] = "idle"
  /\ clientFromEnvironment(TRUE) # "throws"
  /\ \E argv \in SeqOf(Strings, MaxArguments) :
       /\ argv # <<>> /\ argv[1] \in Offers
       /\ LET parsed == invocationArguments(argv)
          IN /\ parsed.ok /\ ~parsed.valueDue
             /\ parsed.key # None /\ resolveInput(parsed.input)
             /\ Invoke(c, [target |-> argv[1], key |-> parsed.key,
                           input |-> parsed.input, argv |-> argv], argv[1], live)
  /\ UNCHANGED <<config, live, mcp, charges>>
-----------------------------------------------------------------------------
(***************************************************************************)
(* How client.invoke ends, and the service.                                *)
(***************************************************************************)
PaidRequest(c) == [call |-> c, key |-> EnvelopeKey(c, request[c]),
                   offer |-> binding[c].offer, revision |-> binding[c].revision]

\* An outcome needs the purchase, charged to this call or to an earlier one.
InvokeReturns(c) ==
  /\ pc[c] = "paying"
  /\ \E ch \in charges : [ch EXCEPT !.call = c] = PaidRequest(c)
  /\ Answers(c, "result")
  /\ UNCHANGED <<config, live, mcp, wire, charges>>

\* Refused, uncertain, or never sent: the server and the CLI tell the caller.
InvokeThrows(c) ==
  /\ pc[c] = "paying"
  /\ Answers(c, "error")
  /\ UNCHANGED <<config, live, mcp, wire, charges>>

Admit(q) == /\ q.revision = live
            /\ \A ch \in charges : ch.key # q.key
            /\ charges' = charges \cup {q}

\* A replay, or a request that is refused or lost.
Decline(q) == UNCHANGED charges

ServeRequest(q) == /\ Admit(q) \/ Decline(q)
                   /\ wire' = wire \ {q}
                   /\ UNCHANGED <<config, live, mcp, call>>

Republish == /\ live < MaxRevision
             /\ live' = live + 1
             /\ UNCHANGED <<config, mcp, call, wire, charges>>

\* The server's process dies with the calls it has, or one CLI process does.
Dies ==
  /\ \/ server \notin {"down", "failed", "dead"} /\ server' = "dead"
     \/ front = "cli" /\ UNCHANGED server
  /\ \E lost \in SUBSET {c \in Calls : pc[c] = "paying"} :
       /\ front = "mcp" => lost = {c \in Calls : pc[c] = "paying"}
       /\ front = "cli" => lost # {}
       /\ pc' = [c \in Calls |-> IF c \in lost THEN "lost" ELSE pc[c]]
  /\ UNCHANGED <<config, live, cached, tools, request, binding, outcome, wire,
                 charges>>

Rest == /\ \/ server \in {"failed", "dead"}
           \/ \A c \in Calls : pc[c] \in {"done", "lost"}
        /\ UNCHANGED vars
-----------------------------------------------------------------------------
Startup == \/ StartServer \/ CatalogFetched \/ CatalogFails \/ SchemaFetched
           \/ SchemaMissing \/ Serve

Step(c) == \/ CatalogTool(c) \/ ToolRefused(c) \/ PaidTool(c)
           \/ VerbRefused(c) \/ ReadVerb(c) \/ InvokeVerb(c)
           \/ InvokeReturns(c) \/ InvokeThrows(c)

Next == \/ Startup \/ Republish \/ Dies \/ Rest
        \/ \E c \in Calls : Step(c)
        \/ \E q \in wire : ServeRequest(q)

Spec == Init /\ [][Next]_vars
-----------------------------------------------------------------------------
\* Of several tools of one name, an agent is answered for the first.
FirstListed(tool) ==
  \E i \in DOMAIN tools : /\ tools[i] = tool
                          /\ \A j \in 1..(i - 1) : tools[j].name # tool.name

\* What a tool call pays is what the server listed under the tool's name: its
\* offer, and the revision whose price and description the agent was shown,
\* however often the catalog was republished since (mcp.ts:18-23, 93-118, 248);
\* where two offers share the name, that of the first (mcp.ts:201).
PaidAsListed ==
  front = "mcp" => \A ch \in charges :
    FirstListed([name |-> request[ch.call].target, offer |-> ch.offer,
                 revision |-> ch.revision])

\* "Reuse the same key and input to recover; a new key buys again" (mcp.ts:246,
\* cli.ts:181): calls and processes that were given the same key are charged
\* once, although the first may have ended in an error with its request still on
\* its way.
RetryBuysOnce ==
  \A a, b \in charges :
    request[a.call].key = request[b.call].key => a = b

\* Nothing is paid on an environment without a cap, by the server or the CLI:
\* "Refusing to guess a spend limit is deliberate" (env.ts:8-11).
NoCapNoPayment == charges # {} => env = "capped"

\* "One per active offer" (packages/ausca/README.md:54-55): a server that serves
\* lists every offer once, in the order of the catalog, also when schemas could
\* not be fetched.
EveryOfferListed ==
  server = "serving" => [i \in DOMAIN tools |-> tools[i].offer] = CatalogOrder

\* A CLI purchase is the one that was typed: the offer is the first argument,
\* the key is the value of the only flag, and the input is the one argument that
\* is left, or stdin (cli.ts:66-90, 177-189).
CliPaysAsTyped ==
  front = "cli" => \A ch \in charges :
    LET argv == request[ch.call].argv
        rest == 2..Len(argv)
    IN \E i \in rest :
         /\ argv[i] = Flag /\ i + 1 \in rest /\ argv[i + 1] = ch.key
         /\ \A j \in rest \ {i, i + 1} :
              argv[j] # Flag /\ request[ch.call].input = argv[j]
         /\ rest = {i, i + 1} => request[ch.call].input = None
         /\ ch.offer = argv[1]
=============================================================================
