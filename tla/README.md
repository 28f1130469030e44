# Ausca clients: a verification development

TLA+ models of the code in this repository, TLC configurations that check them
on small instances, and TLAPS proofs. Ausca sells API calls over HTTP 402
(x402): a buyer reads a catalog of offers, invokes one under an idempotency key,
pays the challenge and receives a result with a receipt. The repository holds
the buyers' side only: SDKs in ten languages, a front door (CLI and MCP server),
framework adapters, examples and release scripts. The service that sells is not
part of it; where a model needs the service, its actions are what the clients,
their tests and their documents say of it, and they are marked external.

What makes this code hard is money over an unreliable channel. A paid request
may be lost, late or answered by something that cannot be read; retrying it
with another key pays twice; forgetting its key loses the purchase. Every
module asks the same question of one part: *whatever happens, does the buyer
still hold what he paid for, or the identity to claim it, and was he charged no
more than once, for what he was shown?*

## 1. Inventory

| Component | State it keeps | Operations | Hard behaviour | What makes it correct |
|---|---|---|---|---|
| **TypeScript SDK client** `packages/sdk/src/client.ts`, `digest.ts` | the cached catalog document; per call: key, binding (offer revision), two flags, the awaited response | `catalog`, `probe`, `invoke`, `invocation`, `commit`, `artifactAccess` | calls and refreshes interleave at every `await`; fetch throws with the request lost, on its way or admitted; the authority calls the wrapped fetch several times; the observer throws; the process dies | nothing is signed that the observer had not accepted; an error without identity has no money behind it; a result is an admission of the call's own key and binding; the cache never loses a catalog; every call settles |
| **Payment authorities** `packages/sdk/src/payment.ts` | none (the wallet is outside) | `wrapFetch` of the inert, local-key (x402) and caller-supplied authorities | a 402 above the cap, a second 402, other bytes handed back than were serialized | at most one signed request per call on the built-in rails, never above the cap |
| **Payable kernel** `packages/payable/src/index.ts` | none | `createPayableFetch`, `payableCall`, `paymentReceipt` | the receipt is decoded after the payment | a paid result is not lost to a malformed header |
| **TypeScript adapters** `packages/ai-sdk`, `packages/langchain-ausca` | none | one tool call with `onPayment` | the callback throws after the payment | a completed payment is not reported as a failed call |
| **Artifact store** `packages/sdk/src/artifacts.ts` | none; the operation key of an upload is given or minted per call | `commit` | an upload whose answer was lost is stored later; one key is given to two contents | a commitment is about the call's own bytes; uploads share an operation key only if the callers saved it |
| **Testkit** `packages/sdk/src/testkit.ts` | a fixture route with a paid flag | `payableRoute` and fixtures | | describes the service's challenge and admission |
| **Purchase example** `examples/purchase.mjs` | key, copy of the invocation, deadline | `purchase()`: invoke, one recovery, polling, the claiming replay | three paid calls for one purchase; the copy of the state is stale when it is acted on; two runs of one saved key | charged once; what is returned succeeded and has its receipt and capability; it ends |
| **Journeys example** `examples/journeys.mjs` | a leased browser or inbox, a mail cursor | the browser, inbox, document and transcription journeys | a throw between the lease and the `try` whose `finally` closes it; a failing close hides the result; mail arrives between a page and its reads; the same journey run twice with its saved keys | every lease whose authority was had is closed; no acceptable message is passed over; one artifact per document; it ends |
| **Browser wallet example** `examples/browser-wallet.mjs` | none | builds a client | | |
| **Front door** `packages/ausca/src/{cli,env,bin,mcp}.ts` | tools derived once from a catalog | CLI verbs; MCP `listTools`, `callTool` | the catalog moves on, the tools do not; two offers project to one name, or to a built-in one; an agent repeats a call whose request is still on its way | what is paid is what was listed or typed, once per saved key, never without a cap |
| **Python client** `python/ausca` | catalog cache (sync and async clients), artifact store | as the TypeScript client | only `httpx.TransportError` is caught around the paid request | every failure after the payment carries the identity |
| **Python adapters** `python/langchain-ausca`, `python/llama-index-tools-ausca` | none | as the TypeScript adapters | as there | as there |
| **Go, Rust clients** `go/client.go`, `rust/ausca/src/lib.rs` | catalog cache behind a lock | `Catalog`, `RefreshCatalog`, `Invoke` | test under one lock, fetch outside it, write under another | the cache never loses a catalog; refused vs. uncertain |
| **Ruby, PHP, Swift, Dart, .NET, Java clients** | catalog cache | `catalog`, `invoke` | the body is parsed before the status is read; a Swift actor is reentrant at its awaits | refused vs. uncertain; identity before the request |
| **npm promotion** `scripts/promote-npm.mjs`, `.github/workflows/npm.yml` | registry tags, read through lagging replicas | admit the set, write tags in order, read back | stops between two writes; reruns; a write left out on what a lagging replica said | the front door's tag is never moved before the SDK's; nothing is written unless all is admitted; "verified" is true |
| **Repository checks** `scripts/{sync-skills,verify-metadata,verify-wire-authority}.mjs` | none | one-shot textual checks | | |
| **Skills, docs** | none | prose | | |

How they interact. Adapters, CLI, MCP server and examples *call* a client;
`invoke` calls the observer (`onTrace`) and awaits it, hands its own `fetch` to
the payment authority and is *called back* by it once per attempt; a client and
the service exchange HTTP *messages*; concurrent calls of one client *share* the
cached catalog; two runs of a purchase share nothing but the saved key, through
the service. The language ports repeat the client's protocol; they do not talk
to one another.

The hazards of this code, each at its line and with the properties that would
catch it, are listed in `PROJECT.json`.

## 2. Plan

| | Module | Status | Composes / implements |
|---|---|---|---|
| 1 | `InvocationContract` | done | abstract: what `invoke` promises its caller |
| 2 | `Client` | done | catalog + authorities + invoke + transport + crash; implements 1 |
| 3 | `ClientInvariant`, `ClientTyping`, `ClientProofs`, `ContractProofs` | done | inductive invariant of 2, its proofs, and the proof that 2 implements 1 |
| 4 | `Purchase` | done | uses `invoke` at contract 1 |
| 5 | `PurchaseContract` | done | abstract: what `purchase()` promises its caller; implemented by 4 |
| 6 | `Artifacts` | done | upload and commit with a saved or a minted key, over an external ingress |
| 7 | `Journeys` | done | composes 5 and 6 with leases, mail and deadlines |
| 8 | `FrontDoor` | done | MCP tools over a moving catalog, CLI verbs; uses `invoke` at contract 1 |
| 9 | `Promotion` | done | npm tags, replicas, reruns |
| 10 | `Ports` | done | `invoke` of the nine other languages; implements 1 |
| 11 | `PurchaseProofs` | done | inductive invariant of 4, and the proof that 4 implements 5 |
| 12 | `PortsProofs` | done | inductive invariant of 10, and the proof that 10 implements 1 |
| 13 | `PromotionProofs` | done | inductive invariant of 9, and its two action properties |
| 14 | `JourneysProofs` | done | inductive invariant of 7 and of the 6 it composes |
| 15 | `FrontDoorProofs` | done | inductive invariant of 8, and its parser for any command line |

Every safety invariant, action property and refinement that a run checks is now
a theorem; what is left to TLC is named at the end of section 5.

## 3. The models

### InvocationContract

A call is `open` until its identity has been handed to the caller's observer,
then `cleared`, then over: `kept` (a result, a refusal or an uncertain answer,
all of which carry the identity), `error` (anything else) or `crashed`. Money is
`safe`, `exposed` (a signed request can still be admitted) or `charged`. Money
moves only for a cleared call, a call ends in `error` only while its money is
safe and it stays so, and a charge is neither repeated nor undone.

### Client

One `AuscaClient`, several concurrent `invoke` calls (`Calls`), callers of
`catalog({refresh: true})` (`Refreshers`), a payment authority (`rail`), the
network (`wire`, `reply`) and the service (`live`, `charges`). JavaScript runs
one turn at a time, so an action is the code between two awaits that yield.

| Action | Code |
|---|---|
| `Invoke`, `Refresh` | `invoke` up to the catalog's `await`, or, with a cached catalog, up to the first trace; `catalog()` up to its `await` |
| `CatalogArrives` | `catalog()` after its last `await`: the only assignment of `this.catalogDocument`; for a call also `offer()` and `envelope()` |
| `RequestTraced`, `ObserverRefuses` | `await trace("request")` resolves or rejects |
| `AuthorityProbes`, `AuthoritySigns`, `AuthorityResends` + `BaseFetch` | the authority calls the wrapped fetch; the byte check before anything leaves |
| `ResponseArrives`, `TransportFails`, `ResponseTraced` | the wrapped fetch after its `await`: the flags, then the response trace |
| `AuthorityThrows`, `AuthorityReturns` + `Caught` | how `wrapFetch` ends, and the catch that reads the two flags |
| `BodyLost`, `BodyRead`, `UncertainTraced` | the body, the status, the receipt, and the uncertain trace before the throw |
| `ServeCatalog`, `Serve` (`Replay`, `Challenge`, `Admit`, `Refuse`), `Republish` | external: the service |
| `Crash` | the buyer's process dies: memory goes, requests on the wire and the observers' stores stay |

State: `catalogDocument` is the cache (a revision, 0 for `null`); `binding` is
the revision a call read; `frame` holds the two flags (`transportFailed`,
`responseMayHaveExecuted`) and what the authority below them knows (requests
sent, last status, amount quoted); `shown` is what observers have accepted.

Abstracted: offers are one offer at several revisions; input and envelope bytes
are named by the revision and key they carry; the digest is an injective name of
the bytes; a key is clean or not (`CleanKeys`); a status stands for its class
(200, 402, 409 for the other 4xx, 500). A request that fails in transport may
still be on the wire, and is answered to nobody.

### DelegatedRail

`Client` with the authority's actions replaced by those of an executor that
never calls the fetch it was given. It exists for one finding.

### Purchase

`purchase()` of `examples/purchase.mjs`. `client.invoke` is taken at its
contract: `Uncertain` leaves its request where it is (on the wire or admitted),
`Refusal` and `BareError` end with nothing paid by that request. `Admission`,
`Loop`, `Read`, `ReadFails`, `Finish`, `Claimed` are the rest of the function
between its awaits, `Deadline` the clock, `Crash` the end of one process. Two
runs may hold one saved key, which is how a pending or crashed purchase is run
again. `Admit`, `Replay`, `Refuse`, `ServeRead`, `Progress` are the service.

### PurchaseContract

A run is `idle`, `buying`, or ended: `bought`, `pending`, `threw` or `crashed`.
The account of a saved key is `open`, `taken` (charged) and at last `settled` or
`lost`. A key is charged once and only after a run was given it; `bought` is
returned of a settled key only, `pending` of a charged one; a run that threw or
crashed may have its key charged later. `Purchase` implements it: the mapping
forgets the invokes, so the recovery, the polling and the claiming replay are
stutters, and a late admission is `Charge`.

### Artifacts

`commit()` of `artifacts.ts`: `Commit` up to the `await` of the upload,
`CommitAnswered` (JSON, status, shape, and evidence about the call's own bytes)
and `CommitFails`. The digest names the bytes. `Ingest` and `Reject` are the
external ingress: one artifact per storage identity, an upload that may be stored
although nobody is told. The repository does not settle what that identity is
minted from: `artifacts.ts:57-60` and `python/ausca/README.md:76-77` speak of a
fresh commitment for every call without a saved key, the testkit
(`testkit.ts:146-150`) and `client.test.ts:233-259` mint it from the content's
digest alone. So the model has either (`minting`, chosen at the start), and
`FreshUnlessKeyed` says what the client answers for, that the operation keys on
the wire differ, and what comes of it under each.

### Journeys

Several attempts of one journey of `journeys.mjs`, at once or after a crash, with
the keys the caller saved. `purchase()` is taken at `PurchaseContract`
(`INSTANCE` over attempt and saved key) and `commit()` step by step from
`Artifacts`. `Buy*`, `CommitFirst`, `NotBought`, `Authority`, `BuyAnalysis` are
the steps up to and between purchases; `SessionReady` to `PageRead` the bodies of
the two `try` blocks; `Throws` and `Leave` their exits; `Close` the `finally`,
whose failure replaces the result. `NoAuthority` stands before the `try`, as in
the code: it closes nothing. A lifecycle request is one step; messages are
numbered by arrival and a page ends where the service likes.

### FrontDoor

One MCP server and its calls, or CLI processes, never both at once: they share
nothing. `StartServer` to `Serve` are `buildMcpServer` and `deriveTools` with
their failures; `Found` is the `find` of `callTool`, so of two tools of one name
the first is paid for and an offer projected to a built-in name never is.
`invocationArguments` reads the words of `ausca invoke` from left to right; TLC
gives it every list of up to four words over the offers, a key, the flag and the
empty word, and `FrontDoorProofs` covers lists of any length. `client.invoke` is taken at contract 1: an error says nothing of its
request, which stays on the wire. Republishing moves the live catalog; the
server's is the one it started with, a CLI process has its own.

### Promotion

Runs of `promote-npm.mjs` against a registry with one primary and read replicas
(`Replicate`). `AdmitPackage` reads manifest, version, integrity and tag of one
package; `SkipWrite`, `WriteTag`, `WriteFails` write the next, `TagVerified`,
`DeadlinePasses`, `VerifyExpires` read it back. `Publish` is the workflow's other
job: `npm publish` moves `latest` itself. Two history variables, `writes` and
`disturbed`, are for the properties. The concurrency group of `npm.yml` is not a
guard: any two runs may overlap.

### Ports

`invoke` of the Go, Rust, Ruby, PHP, Swift, Dart, .NET, Java and Python clients:
`Bind`, `Pay` (after `beforePayment`), a rail that sends, throws or returns as it
likes, and the classification of the answer (`Outcome`), which differs in three
ways: Go looks at the status first, seven ports want a JSON body first, Python
takes any body but wants a sound receipt. `Failed` is their other difference:
Python catches `httpx.TransportError` only. `Thrown` tells that from the broken
connection of a delegated executor (`foreign`) and from everything else.

Python is no instance of contract 1: it has no `beforePayment`, so nobody holds
the identity before it pays, and what escapes its clause is a bare error over a
request that may be charged. The mapping shows the contract the other eight
ports, whatever Python does next to them with the same keys; Python is checked
apart, by `OnlyForeignForgets`, which says exactly what escapes and that nothing
else does, and by `ports_python_identity`, which is a finding. That an answer of a status
below 400 comes from the service and stands for an admission is assumed: the
ports ask no more of it, and Python, which takes any body
(`client.py:285-293`), would return an unpaid page of a 200 or a redirect as a result.

## 4. The runs

| Run | Instance | Question |
|---|---|---|
| `client_safety` | 2 calls, 1 refresh, 2 revisions, one clean and one dirty key, inert and local-key rails, 2 sends, 1 crash | types; `SignedOnlyAsShown`; `NoMoneyBehindAnError`; `SuccessIsAdmitted`; `CatalogKept`; the client implements the contract |
| `client_custom_rail` | 2 calls, 1 key, 2 revisions, a foreign authority that uses the fetch it is given, 3 sends | the same for an authority that alters bytes, resends and throws at will |
| `client_liveness` | 2 calls (one observed), all rails, 1 crash, fair | every call settles; every charge reaches an outcome with the identity, or its process is gone |
| `purchase` | 2 runs of one saved key (a document's or an inbox's), fair | types; one charge for the key; what is returned is proven; a pending purchase was admitted; `Purchase` implements `PurchaseContract`; a purchase ends although the service may leave it running |
| `journeys` | 2 attempts of each of 4 journeys, 2 contents, 1 saved artifact key, 2 messages, an ingress that mints by operation or by content, fair | types; leases are closed; no acceptable message is passed; commitments are own, fresh unless keyed, one per document; a journey ends |
| `front_door` | 2 calls, 2 offers, 3 names (one built-in), 2 revisions, argument lists up to 4 | types; `PaidAsListed`, `CliPaysAsTyped`, `RetryBuysOnce`, `NoCapNoPayment`, `EveryOfferListed` |
| `promotion` | 2 runs, 2 packages, 2 replicas, fair | types; the whole set is admitted; no tag written twice; "verified" is true and the SDK first, for runs nobody disturbed; a run ends |
| `ports` | 2 calls of any 2 ports, 2 keys, 2 revisions, 2 sends | types; a result is backed by a charge; an error with money behind it is Python's and foreign; the eight ports with a `beforePayment` implement contract 1 |
| `client_fetched_once` | 2 calls, no refresh | *violated*: see findings |
| `client_body_lost` | 2 calls | *violated*: see findings |
| `client_delegated_rail` | 2 calls, an executor with its own transport | *violated*: see findings |
| `ports_python_identity` | as `ports` | *violated*: see findings |

Bounds, and why they are enough. Two calls with one key between them give every
interaction calls can have: the shared cache, one key used twice, an admission
of one answered to the other. Two revisions give a stale, a current and a
future binding. Amounts 1 and 2 with `Cap = 1` give a challenge within and
above the cap; `client_custom_rail`, whose authority keeps to the cap by
assumption, has one amount. Two sends are all a built-in rail makes (`MaxSends` does not cut
it: the mutant of `TypeOK` shows that a rail that sends more runs into the
bound); the custom rail needs three to have a success, a failure and a loss in
any order around a signed request. One crash at any step; a second adds nothing
a call begun after the first does not meet. `client_liveness` has a single
revision, since refusals for a stale binding are already reached through
`Refuse`. A purchase makes at most three invokes (`MaxInvokes`, which the code
never reaches past: `TypeOK` is the check and its mutant a recovery that
repeats). Symmetry is used for safety runs only, over calls all of which are
observed, and in `Ports`.

`Purchase.cfg` has a state constraint, `OneSavedKey`: both runs hold one key.
Keys are given in `Init` and never change, so it cuts whole behaviours and never
the end of one; runs of different keys share no request, record or charge, and
`PurchaseProofs` proves all but `PurchaseEnds` for any number of both.

Two attempts of a journey give every sharing of a saved key, and a crash of one
before the other; two messages a cursor that may stop before, between and after
them; two contents one key given to both. Two packages are the SDK and the front
door, which the order is about: a third adds another index of the same loop. Two
replicas can disagree. Four words are `invoke`'s offer, flag, key and input; the
lists of four hold every way to misplace one. Two catalog revisions make tools
stale, two calls of one key repeat a purchase. In `Ports`, seven of the nine
languages have one decision table, so three values stand for all, and two sends
let an answer come late.

Deadlock is checked in every run. `Rest` is the one place the systems come to
rest: every call, refresh, attempt or run is over.

Every property has a mutant in `PROJECT.json`: a plausible bug in the mapped
code under which the same run finds the property violated.

### Fairness

`Client`: weak fairness of each call's own steps and of each catalog fetch. The
event loop is fair; `fetch` settles, since the runtime times out a silent
connection (`TransportFails`); an observer given an event settles. The last is
an assumption on the caller: `client.ts` awaits the observer without a timeout,
also after a paid response. Nothing is assumed of the service, of `Serve` or of
`Republish`. `Purchase`: weak fairness of each run's steps and of its clock; the
service may never finish an invocation. `Journeys`: each attempt's steps, its clock, its upload and its
purchases end (`PurchaseEnds`, checked of `Purchase`); the caller's callbacks
settle. No mail need come. `Promotion`: the script and its clock go on;
a replica may lag for good.

### What the runs taught

- `Promotion`: `VerifiedIsLatest` and `SdkFirst` need `~disturbed`. Without it
  TLC shows a run that leaves a write out because a stale replica had the tag,
  and is confirmed by the same replica. And a run back to older versions, which
  the code does not tell from one forward, lowers the SDK before the front door.
- `Journeys`: a second attempt of a document journey with its saved purchase keys
  but no saved artifact key presents those keys with another input;
  `OneArtifactPerDocument` holds for a saved key only.
- `Artifacts`: "Every call is a new temporary commitment" (`artifacts.ts:57-58`)
  and the SDK's own testkit, which gives equal bytes one artifact "exactly as the
  live service does" (`testkit.ts:146-150`), cannot both describe the ingress.
  The client only sees to it that the operation keys differ. If the testkit is
  right, a fresh commit of bytes whose older commitment is about to expire returns
  that one.
- `Ports`: a plain-text refusal is uncertain in seven ports and a refusal in two.
  No port makes a result of it, and the contract allows either.
- `FrontDoor`: of two tools of one name the first is paid for, always, so
  `PaidAsListed` can ask for it; the second is listed and cannot be bought.

### Findings

- `client_fetched_once`: a comment says the catalog is "fetched once and
  cached" (`client.ts:170`). The cache is tested before an await and assigned
  after it, so two calls on an empty cache fetch twice and the answer that
  arrives last wins, newer or older. No purchase is affected: each call keeps the
  binding it read.
- `client_body_lost`: `packages/sdk/README.md:37` says the identity is retained
  "if transport fails". When the body of a 4xx response breaks off, neither flag
  is set and the raw error is thrown. `NoMoneyBehindAnError` shows that no money
  is behind it.
- `client_delegated_rail`: `packages/sdk/src/payment.ts:13-16` admits authorities
  that "perform their own transport inside the wrapper". The two flags are set
  only in the fetch `invoke` gives to the wrapper, so such an authority's broken
  connection is rethrown as if it were the "policy refusal before payment" of
  `client.ts:309`, although the signed request is on its way and may be charged.
  `DelegatedRail` shows it; the theorems of section 5 are about authorities that
  use the fetch they are given.
- `ports_python_identity`: the same executor under the Python client
  (`payment.py:5-6` admits it). `client.py:252` catches `httpx.TransportError`
  only, so the executor's own exception reaches the caller without the identity
  that `python/ausca/README.md:58-59` promises "on transport failure", over a signed request
  that may still be charged. Python has no `beforePayment` that could have kept
  it. The other eight ports catch whatever their rail throws.

## 5. The proofs

Every safety invariant, every action property and every refinement that a
passing run checks is proved for all values of the constants. Each
proof module has the same layout: the inductive invariant `IInv` in named parts,
lemmas that say once what an action does to its actor and leaves of the others,
one lemma per part that it is preserved, then the theorems. TLC had checked each
`IInv` on the run's instance before it was proved. None of the properties is
inductive by itself: they speak of endings and of money taken, and these are
right because of what was true of the wire, of the copies or of the clock before.

| Module | Theorem | Statement (of `Spec`) |
|---|---|---|
| `ClientProofs` | `Invariant`, `TypeCorrect` | `[]IInv`, `[]TypeOK` |
| | `SignedAsShown` | `[]SignedOnlyAsShown` |
| | `NoMoneyLost` | `[]NoMoneyBehindAnError` |
| | `Success` | `[]SuccessIsAdmitted` |
| | `CatalogNeverLost` | `CatalogKept` |
| `ContractProofs` | `Implements` | `ImplementsContract`, of `InvocationContract` |
| `PurchaseProofs` | `Invariant`, `TypeCorrect` | `[]IInv`, `[]TypeOK` |
| | `ChargedOnce` | `[]NoSecondCharge` |
| | `Bought` | `[]BoughtIsProven` |
| | `Pending` | `[]PendingIsAdmitted` |
| | `Implements` | `ImplementsContract`, of `PurchaseContract` |
| `PortsProofs` | `Invariant`, `TypeCorrect` | `[]IInv`, `[]TypeOK` |
| | `ResultBacked` | `[]ResultIsPaid` |
| | `ForeignForgets` | `[]OnlyForeignForgets` |
| | `Implements` | `ImplementsContract`, of `InvocationContract` (the ports with a `beforePayment`) |
| `PromotionProofs` | `Invariant`, `TypeCorrect` | `[]IInv`, `[]TypeOK` |
| | `AdmittedWhole` | `[]WholeSetAdmitted` |
| | `WritesOnce` | `[]WrittenOnce` |
| | `VerifiedTruly` | `VerifiedIsLatest` |
| | `SdkGoesFirst` | `SdkFirst` |
| `JourneysProofs` | `Invariant`, `TypeCorrect` | `[]IInv`, `[]TypeOK` |
| | `ClosesItsLease` | `[]LeaseIsClosed` |
| | `SkipsNoCode` | `[]NoCodeSkipped` |
| | `CommitsOwn` | `[]CommitmentIsOwn` |
| | `FreshOrKeyed` | `[]FreshUnlessKeyed` |
| | `CommitsOnce` | `[]OneArtifactPerDocument` |
| `FrontDoorProofs` | `Invariant`, `TypeCorrect` | `[]IInv`, `[]TypeOK` |
| | `ParserReads` | what `invocationArguments` makes of any command line |
| | `PaysAsListed`, `PaysAsTyped` | `[]PaidAsListed`, `[]CliPaysAsTyped` |
| | `RetriesBuyOnce` | `[]RetryBuysOnce` |
| | `CapBeforePayment` | `[]NoCapNoPayment` |
| | `ListsEveryOffer` | `[]EveryOfferListed` |

### Assumptions

Each module assumes of its constants only what is in its `ASSUME`, which TLC
evaluates in its run. Beyond the types of bounds, these say:

- `ClientAssumption`: the cap is positive; calls and refreshers are apart.
- `PurchaseAssumption`: the keys whose purchase is a resource are keys.
- `PromotionAssumption`: at least two packages, none listed twice
  (`promote-npm.mjs` has a fixed list); a commit has one version of each.
- `JourneysAssumption`: the journeys are among the four of the file; a minted
  upload key, named by the attempt that mints it, is none that a caller saved
  (`randomUUID`), and the absence of a key is neither, nor a content.
- `FrontDoorAssumption`: at least one tool name exists; the absence of an
  argument is no argument.

No finiteness is assumed of calls, runs, keys, replicas, attempts or offers.

### Client

`ClientInvariant` states `IInv` in named parts, and TLC has checked it as an
invariant of the two safety instances.

- `Bound`: what is on the wire or charged names the key and binding of its call,
  which is past its envelope. `Priced`: what is signed is within the cap. Types
  need both: an admission is typed only if its request carries an amount.
- `Traced`: the observer holds a call's identity before anything of it is sent.
  With the first two it gives `SignedOnlyAsShown`.
- `Settled`: outcomes, locals and answers exist only where they should.
- `Numbered`: the awaited request is the last one sent, is sent once, and is off
  the wire when its answer is there. Without it a late answer could be taken for
  the answer to a newer attempt.
- `Flagged`: as long as `transportFailed` is false everything a call sent has
  been answered but for the awaited request; as long as both flags are false the
  call has been charged nothing, except by the request whose 200 or 500 it is
  about to read. This is why both flags are needed and why they must not be
  reset between attempts; it gives `Clean`, that is `NoMoneyBehindAnError`.
- `Granted`: a 200 answers an admission, wherever it is on its way. It gives
  `SuccessIsAdmitted`.

`ClientTyping` proves that each action preserves types; `ClientProofs` first
says what `End`, `Goto`, `Caught`, `BaseFetch` and `Serve` do to the control
state, then proves each part by cases on the actions, and puts them together.
`ContractProofs` proves the refinement: under the mapping `stageOf`, `moneyOf` a
step moves the stage of one call (`StageMoves`; an ending in error is allowed
because `Clean` says its money is safe), or the money of one call (`SendMoves`,
`ServeMoves`), or is a crash.

### Purchase

- `Owned`: a request on the wire and a charge name the saved key of their run.
  `Booked`: the service has a record of a key if and only if it charged it, once.
  Together they are `NoSecondCharge`; the recovery and the claiming replay cannot
  break it because they repeat the run's own key.
- `Copied`: the run's copy and the answer on its way may be old, but a record
  that exists does not vanish, and a terminal one is final. Without it nothing
  could be concluded from the copy the run decides on after its pause.
- `Proven`: a run that looks, or that ended pending, has a record; one that
  claims, or ended bought, has one that succeeded. `Counted` bounds the invokes by
  where the run is, which is why `MaxInvokes` is never cut.

The refinement maps a charge of a key to `Charge`, a terminal record to `Settle`,
the beginning and end of a run to those of the contract, and all else (recovery,
polling, replay, losses) to no step.

### Ports

- `Owned`: what a call sent or was charged was sent after its envelope was
  bound, and a charge is of its key and binding.
- `Granted`: an accepting answer is backed by a charge, from the service to the
  outcome. `OutcomeOf` and `FailedOf` say once what the languages have in common.
- `Clean`: a call that ended in an error has no money behind it, unless it is
  Python's and its rail threw something foreign. It is what the contract asks of
  `error`, and holds because the other ports catch everything from their first
  send on, and Python whatever is wrong with an answer that has arrived.
  `ForeignForgets` is this.

In the refinement a step of a Python call maps to none (`PythonStutters`); a
charge under a key that such a call shares still counts for the call of another
port that sent it.

### Promotion

- `Admitted`: the index of an admitting run bounds what has been admitted; a
  run that writes has admitted everything. `Once`: what is at or after the index
  of a writing run was not written.
- `Known` is about runs nobody disturbs: what the run read of the packages before
  it is still true, and those it left behind have their planned tag, with a
  replica that shows it. It says that while such a run admits, all replicas agree with the
  primary, which is why a write that is left out is rightly left out; `disturbed`
  cannot be dropped from it (section 4).

The two action properties follow from `IInv` before the step.

### Journeys

- `Closes`: whoever has the authority over a lease is inside the `try` or came
  out by the `finally`. `Reads`: no acceptable message is at or before the cursor,
  nor among those looked at on the present page.
- `Keyed`: an upload that was sent carries the key it was given, or the one that
  is its own. So its storage identity is known before it leaves (`Identity`), and
  two uploads share one only under a saved key or, where the ingress mints by
  content, with equal bytes.
- `Stores`: one artifact per storage identity at the ingress; evidence on its way,
  and what a call kept, are about its own identity and stay. `Submits`: a paid
  request carries the one commitment of its attempt. With a saved upload key two
  attempts of one document have one storage identity under either minting, so one
  artifact.

### FrontDoor

- `Derived`: each listed tool is the catalog's offer of that place at the
  revision the client cached, and a server that got this far can pay or is
  inert. It survives republication, since nothing derives again.
- `Bought`: every request on the wire and every charge is what its caller asked
  for (`Asked`): with a key of the caller's, under a cap, as listed or as typed.
  It has to hold of the wire, since an error leaves its request there.

That a CLI purchase is what was typed needs what the parser computes for *every*
list of words. `Scanned` is the loop invariant of `invocationArguments`: no flag
yet, the flag without its value, or the flag with its value, and all other words
so far the one input. `ArgumentScanned` is one turn of the loop. The induction
over the words does not use the library's induction theorems, which take an
operator as parameter: `LeastNumber` (from `WFMin` and
`NatLessThanWellFounded`) gives every nonempty set of numbers a least element, and is
applied to the set of positions at which the claim fails. The same argument
gives `ParserRuns`, that the recursive function exists. The words are bounded in
TLC's run only: `MaxArguments` is any number in the theorem.

### Only model-checked

The liveness properties: `CallsSettle`, `ChargeIsReported`, `PurchaseEnds`,
`JourneyEnds`, `RunEnds`. They rest on fairness, whose proof
needs `ENABLED`, which the installed provers do not have; none of the theorems
uses fairness (`Spec`, not `FairSpec`). The four findings are TLC
counterexamples.

How the modules rest on one another: `Journeys` takes the actions of
`PurchaseContract` and of `Artifacts` themselves, and `PurchaseProofs` proves
that `Purchase` implements the first. `Purchase` and `FrontDoor` write the ways
`client.invoke` may end as actions of their own; that these are the ways
`InvocationContract` allows is for the reader to compare. No module uses
a `RECURSIVE` operator; `invocationArguments` is a recursive function.

## 6. Not modelled

- Cryptography and signing (the x402 libraries), HTTP and JSON themselves,
  wording and formatting, the content of schemas and descriptions.
- `probe` and `artifactAccess` of the TypeScript client: one request each,
  without state or payment.
- `payableCall` and the framework adapters in both languages: one straight-line
  call and a callback, without identity or state. What may go wrong after their
  payment is listed under the hazards; no document promises otherwise, and who
  repeats a failed tool call is decided outside the repository.
- The ports' catalog caches, artifact operations and reads, which repeat the
  protocols of `Client` and `Artifacts`; the Python CLI.
- The browser wallet example, which only builds a client; fixtures of the
  testkits; repository checks and prose, which have no behaviour over time.
- The concurrency group of the promotion workflow, and rerunning a job of an old
  commit: any two runs of any two plans may overlap instead.
