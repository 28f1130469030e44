------------------------------ MODULE Journeys ------------------------------
(***************************************************************************)
(* The journeys of examples/journeys.mjs.  A journey buys what it needs    *)
(* and uses it: a leased browser or an inbox, closed in a finally; or two  *)
(* purchases, or one, over a committed artifact.  Several attempts of the  *)
(* same journey may run, at once or after a crash, with the keys the       *)
(* caller saved.  purchase() is taken at PurchaseContract, commit() step   *)
(* by step from Artifacts.                                                 *)
(*                                                                         *)
(* A lifecycle request (authorizedJson) is one step at the journey: what   *)
(* it is answered was true when it was served, and nothing it is asked     *)
(* for becomes true again later.                                           *)
(***************************************************************************)
EXTENDS Naturals

CONSTANTS Attempts,     \* calls of the journey's function
          Contents, UploadKeys, NoKey,
          Kinds,        \* the journeys to look at
          MaxMail       \* messages the inbox may receive

\* A minted upload key is fresh: it is none that a caller saved.  The absence of
\* a key is nobody's key, and no storage identity.
ASSUME JourneysAssumption ==
  /\ MaxMail \in Nat
  /\ Kinds \subseteq {"browser", "inbox", "document", "transcription"}
  /\ NoKey \notin UploadKeys \cup Attempts \cup Contents
  /\ UploadKeys \cap Attempts = {}

VARIABLES kind,         \* which journey this is
          cleanup,      \* the inbox is to be deleted in the end
          matching,     \* the messages extractCode accepts
          at,           \* where each attempt awaits
          finish,       \* how its try block ended: "result" or "threw"
          held,         \* it entered the try block with the lease's authority
          deleted,      \* its DELETE has been answered, or has failed
          late,         \* its deadline has passed
          cursor,       \* the message its last page ended with
          page,         \* the message its present page ends with
          looked,       \* the last message it gave to extractCode
          code,         \* the message whose code it returns, or 0
          lease,        \* the service: "none", "live", "closed"
          mail,         \* messages received so far
          submitted,    \* artifacts paid requests were made for
          key, stage, account,                                \* PurchaseContract
          given, minting, commit, operation, posts, evidence, committed,
          stored                                              \* Artifacts

Saved == {"first", "second"}
Runs == Attempts \X Saved

INSTANCE PurchaseContract WITH Keys <- Saved
INSTANCE Artifacts WITH Commits <- Attempts

setup == <<kind, cleanup, matching>>
attempt == <<held, deleted, late, cursor, page, looked, code>>
jvars == <<setup, at, finish, attempt, lease, mail, submitted>>
purchases == <<key, stage, account>>
uploads == <<given, minting, commit, operation, posts, evidence, committed, stored>>
vars == <<jvars, purchases, uploads>>

Leases == {"browser", "inbox"}
Media == {"document", "transcription"}
Over == {"returned", "pending", "threw", "crashed"}
InTry == {"checking", "ticketing", "connecting", "requesting", "paging",
          "reading"}
Messages == 1..MaxMail

TypeOK ==
  /\ kind \in Leases \cup Media /\ cleanup \in BOOLEAN
  /\ matching \subseteq Messages
  /\ at \in [Attempts -> Over \cup InTry \cup {"idle", "committing", "buying",
                                               "analysing", "closing"}]
  /\ finish \in [Attempts -> {"none", "returned", "threw"}]
  /\ \A f \in {held, deleted, late} : f \in [Attempts -> BOOLEAN]
  /\ \A f \in {cursor, page, looked, code} : f \in [Attempts -> 0..MaxMail]
  /\ \A a \in Attempts : cursor[a] <= page[a] /\ page[a] <= mail
  /\ lease \in {"none", "live", "closed"}
  /\ mail \in 0..MaxMail
  /\ submitted \subseteq [attempt : Attempts, key : Saved, artifact : ArtifactSet]
  /\ ArtifactsTypeOK

\* The artifact arguments play a part in the media journeys only, the inbox's
\* in the inbox journey: elsewhere they have one value each.
Init ==
  /\ kind \in Kinds
  /\ cleanup \in IF kind = "inbox" THEN BOOLEAN ELSE {TRUE}
  /\ matching \in IF kind = "inbox" THEN SUBSET Messages ELSE {{}}
  /\ \E any \in Contents :
       given \in IF kind \in Media THEN [Attempts -> Arguments]
                 ELSE {[a \in Attempts |-> [content |-> any, key |-> NoKey,
                                            valid |-> TRUE]]}
  /\ minting \in {"operation"} \cup (IF kind \in Media THEN {"content"} ELSE {})
  /\ at = [a \in Attempts |-> "idle"]
  /\ finish = [a \in Attempts |-> "none"]
  /\ held = [a \in Attempts |-> FALSE]
  /\ deleted = held /\ late = held
  /\ cursor = [a \in Attempts |-> 0]
  /\ page = cursor /\ looked = cursor /\ code = cursor
  /\ lease = "none" /\ mail = 0 /\ submitted = {}
  /\ ContractInit /\ key = [p \in Runs |-> p[2]]
  /\ ArtifactsInit
-----------------------------------------------------------------------------
To(a, phase) == at' = [at EXCEPT ![a] = phase]

\* purchaseImpl(client, offer, input, key): the input of a media offer is the
\* commitment of this attempt.
Buy(a, k, phase) ==
  /\ Start(<<a, k>>)
  /\ To(a, phase)
  /\ submitted' = IF kind \in Leases THEN submitted
                  ELSE submitted \cup {[attempt |-> a, key |-> k,
                                        artifact |-> committed[a]]}

\* A function argument that is none; a timeout or a wait that is out of range.
Refused(a) ==
  /\ at[a] = "idle" /\ kind \in Leases
  /\ To(a, "threw")
  /\ UNCHANGED <<setup, finish, attempt, lease, mail, submitted, purchases, uploads>>

BuyBrowser(a) ==
  /\ at[a] = "idle" /\ kind = "browser"
  /\ Buy(a, "first", "buying")
  /\ UNCHANGED <<setup, finish, attempt, lease, mail, uploads>>

BuyInbox(a) ==
  /\ at[a] = "idle" /\ kind = "inbox"
  /\ Buy(a, "first", "buying")
  /\ UNCHANGED <<setup, finish, attempt, lease, mail, uploads>>

CommitFirst(a) ==
  /\ at[a] = "idle" /\ kind \in Media
  /\ Commit(a)
  /\ To(a, "committing")
  /\ UNCHANGED <<setup, finish, attempt, lease, mail, submitted, purchases>>

NotCommitted(a) ==
  /\ at[a] = "committing" /\ commit[a] = "done" /\ committed[a] = NoArtifact
  /\ To(a, "threw")
  /\ UNCHANGED <<setup, finish, attempt, lease, mail, submitted, purchases, uploads>>

BuyOcr(a) ==
  /\ at[a] = "committing" /\ kind = "document" /\ committed[a] # NoArtifact
  /\ Buy(a, "first", "buying")
  /\ UNCHANGED <<setup, finish, attempt, lease, mail, uploads>>

BuyTranscription(a) ==
  /\ at[a] = "committing" /\ kind = "transcription" /\ committed[a] # NoArtifact
  /\ Buy(a, "first", "buying")
  /\ UNCHANGED <<setup, finish, attempt, lease, mail, uploads>>

\* purchase() threw; or it is pending, which all but the document return.
NotBought(a) ==
  /\ at[a] = "buying"
  /\ \/ stage[<<a, "first">>] = "threw" /\ To(a, "threw")
     \/ /\ stage[<<a, "first">>] = "pending" /\ kind # "document"
        /\ To(a, "pending")
  /\ UNCHANGED <<setup, finish, attempt, lease, mail, submitted, purchases, uploads>>

\* resourceAccess() stands before the try: an authority of another kind is
\* thrown, and there is nothing to close the lease with.
NoAuthority(a) ==
  /\ at[a] = "buying" /\ kind \in Leases /\ stage[<<a, "first">>] = "bought"
  /\ To(a, "threw")
  /\ UNCHANGED <<setup, finish, attempt, lease, mail, submitted, purchases, uploads>>

Authority(a) ==
  /\ at[a] = "buying" /\ kind \in Leases /\ stage[<<a, "first">>] = "bought"
  /\ To(a, "checking")
  /\ held' = [held EXCEPT ![a] = TRUE]
  /\ UNCHANGED <<setup, finish, deleted, late, cursor, page, looked, code,
                 lease, mail, submitted, purchases, uploads>>

\* The segments are timed, or they are refused.
Transcribed(a) ==
  /\ at[a] = "buying" /\ kind = "transcription"
  /\ stage[<<a, "first">>] = "bought"
  /\ To(a, "returned") \/ To(a, "threw")
  /\ UNCHANGED <<setup, finish, attempt, lease, mail, submitted, purchases, uploads>>

\* The document's second purchase follows the first, bought or pending.
BuyAnalysis(a) ==
  /\ at[a] = "buying" /\ kind = "document"
  /\ stage[<<a, "first">>] \in {"bought", "pending"}
  /\ Buy(a, "second", "analysing")
  /\ UNCHANGED <<setup, finish, attempt, lease, mail, uploads>>

Analysed(a) ==
  /\ at[a] = "analysing" /\ stage[<<a, "second">>] \in {"bought", "pending", "threw"}
  /\ To(a, IF stage[<<a, "second">>] = "threw" THEN "threw" ELSE "returned")
  /\ UNCHANGED <<setup, finish, attempt, lease, mail, submitted, purchases, uploads>>
-----------------------------------------------------------------------------
(***************************************************************************)
(* The try block, left for its finally by a result or an error.            *)
(***************************************************************************)
\* Mutation of Leave: an error skips the close.
LeaveOpen(a, how) ==
  IF cleanup /\ how # "threw"
  THEN To(a, "closing") /\ finish' = [finish EXCEPT ![a] = how]
  ELSE To(a, how) /\ UNCHANGED finish

Leave(a, how) ==
  IF cleanup THEN To(a, "closing") /\ finish' = [finish EXCEPT ![a] = how]
  ELSE To(a, how) /\ UNCHANGED finish

\* Every request and callback of the try block may reject; a connectionKey that
\* is not clean is thrown here too, with the lease already paid for.
Throws(a) ==
  /\ at[a] \in InTry
  /\ Leave(a, "threw")
  /\ UNCHANGED <<setup, attempt, lease, mail, submitted, purchases, uploads>>

SessionReady(a) ==
  /\ at[a] = "checking" /\ kind = "browser" /\ lease = "live"
  /\ To(a, "ticketing")
  /\ UNCHANGED <<setup, finish, attempt, lease, mail, submitted, purchases, uploads>>

InboxActive(a) ==
  /\ at[a] = "checking" /\ kind = "inbox" /\ lease = "live"
  /\ To(a, "requesting")
  /\ UNCHANGED <<setup, finish, attempt, lease, mail, submitted, purchases, uploads>>

Ticketed(a) ==
  /\ at[a] = "ticketing" /\ lease = "live"
  /\ To(a, "connecting")
  /\ UNCHANGED <<setup, finish, attempt, lease, mail, submitted, purchases, uploads>>

Connected(a) ==
  /\ at[a] = "connecting"
  /\ Leave(a, "returned")
  /\ UNCHANGED <<setup, attempt, lease, mail, submitted, purchases, uploads>>

MailRequested(a) ==
  /\ at[a] = "requesting"
  /\ To(a, "paging")
  /\ UNCHANGED <<setup, finish, attempt, lease, mail, submitted, purchases, uploads>>

\* Mutation of Page: the deadline is not looked at.
PageForever(a) ==
  /\ at[a] = "paging" /\ lease = "live"
  /\ page' = [page EXCEPT ![a] = mail]
  /\ looked' = [looked EXCEPT ![a] = cursor[a]]
  /\ To(a, "reading")
  /\ UNCHANGED <<setup, finish, held, deleted, late, cursor, code, lease, mail,
                 submitted, purchases, uploads>>

\* One page after the cursor, of as many messages as the service gives.
Page(a) ==
  /\ at[a] = "paging" /\ ~late[a] /\ lease = "live"
  /\ \E upTo \in cursor[a]..mail : page' = [page EXCEPT ![a] = upTo]
  /\ looked' = [looked EXCEPT ![a] = cursor[a]]
  /\ To(a, "reading")
  /\ UNCHANGED <<setup, finish, held, deleted, late, cursor, code, lease, mail,
                 submitted, purchases, uploads>>

\* The deadline is looked at between pages only; running out of it is thrown.
OutOfTime(a) ==
  /\ at[a] = "paging" /\ late[a]
  /\ Leave(a, "threw")
  /\ UNCHANGED <<setup, attempt, lease, mail, submitted, purchases, uploads>>

\* One message of the page is read and offered to extractCode.
Read(a) ==
  /\ at[a] = "reading" /\ looked[a] < page[a] /\ lease = "live"
  /\ looked' = [looked EXCEPT ![a] = @ + 1]
  /\ IF looked[a] + 1 \in matching
     THEN Leave(a, "returned") /\ code' = [code EXCEPT ![a] = looked[a] + 1]
     ELSE UNCHANGED <<at, finish, code>>
  /\ UNCHANGED <<setup, held, deleted, late, cursor, page, lease, mail,
                 submitted, purchases, uploads>>

\* Mutations of PageRead: the cursor is taken from the mailbox, not the page;
\* it steps over a message when the page was empty.
PageSkipped(a) ==
  /\ at[a] = "reading" /\ looked[a] = page[a]
  /\ cursor' = [cursor EXCEPT ![a] = mail]
  /\ page' = [page EXCEPT ![a] = mail]
  /\ To(a, "paging")
  /\ UNCHANGED <<setup, finish, held, deleted, late, looked, code, lease, mail,
                 submitted, purchases, uploads>>
PageOffByOne(a) ==
  /\ at[a] = "reading" /\ looked[a] = page[a]
  /\ cursor' = [cursor EXCEPT ![a] = page[a] + 1]
  /\ To(a, "paging")
  /\ UNCHANGED <<setup, finish, held, deleted, late, page, looked, code, lease,
                 mail, submitted, purchases, uploads>>

PageRead(a) ==
  /\ at[a] = "reading" /\ looked[a] = page[a]
  /\ cursor' = [cursor EXCEPT ![a] = page[a]]
  /\ To(a, "paging")
  /\ UNCHANGED <<setup, finish, held, deleted, late, page, looked, code, lease,
                 mail, submitted, purchases, uploads>>

\* The finally: the DELETE is answered, or it fails, served or not, and its
\* error takes the place of the result.
Close(a) ==
  /\ at[a] = "closing"
  /\ deleted' = [deleted EXCEPT ![a] = TRUE]
  /\ \/ lease' = "closed" /\ To(a, finish[a])
     \/ lease' \in {lease, "closed"} /\ To(a, "threw")
  /\ UNCHANGED <<setup, finish, held, late, cursor, page, looked, code, mail,
                 submitted, purchases, uploads>>

CloseSession(a) == kind = "browser" /\ Close(a)
CloseInbox(a) == kind = "inbox" /\ Close(a)
-----------------------------------------------------------------------------
(***************************************************************************)
(* The rest of the world: the lease, the mail, the clock, the purchases    *)
(* and the ingress.                                                        *)
(***************************************************************************)
LeaseReady ==
  /\ kind \in Leases /\ lease = "none" /\ account["first"] = "settled"
  /\ lease' = "live"
  /\ UNCHANGED <<setup, at, finish, attempt, mail, submitted, purchases, uploads>>

LeaseExpires ==
  /\ lease = "live"
  /\ lease' = "closed"
  /\ UNCHANGED <<setup, at, finish, attempt, mail, submitted, purchases, uploads>>

MailArrives ==
  /\ kind = "inbox" /\ lease = "live" /\ mail < MaxMail
  /\ mail' = mail + 1
  /\ UNCHANGED <<setup, at, finish, attempt, lease, submitted, purchases, uploads>>

TimePasses(a) ==
  /\ at[a] \in {"paging", "reading"} /\ ~late[a]
  /\ late' = [late EXCEPT ![a] = TRUE]
  /\ UNCHANGED <<setup, at, finish, held, deleted, cursor, page, looked, code,
                 lease, mail, submitted, purchases, uploads>>

PurchaseSettles(p) == /\ EndBought(p) \/ EndPending(p) \/ EndThrown(p)
                      /\ UNCHANGED <<jvars, uploads>>

ServiceMoves(k) == /\ Charge(k) \/ Settle(k)
                   /\ UNCHANGED <<jvars, uploads>>

CommitSettles(a) == /\ CommitAnswered(a) \/ CommitFails(a)
                    /\ UNCHANGED <<jvars, purchases>>

IngressServes(a) == ServeUpload(a) /\ UNCHANGED <<jvars, purchases>>

\* The attempt's process dies, with the purchase and the upload it awaits.
Crash(a) ==
  /\ at[a] \notin Over \cup {"idle"}
  /\ To(a, "crashed")
  /\ stage' = [p \in Runs |-> IF p[1] = a /\ stage[p] = "buying" THEN "crashed"
                              ELSE stage[p]]
  /\ commit' = [commit EXCEPT ![a] = IF @ = "posting" THEN "done" ELSE @]
  /\ evidence' = [evidence EXCEPT ![a] = NoEvidence]
  /\ UNCHANGED <<setup, finish, attempt, lease, mail, submitted, key, account,
                 given, minting, operation, posts, committed, stored>>

Rest == (\A a \in Attempts : at[a] \in Over) /\ UNCHANGED vars
-----------------------------------------------------------------------------
Step(a) == \/ Refused(a) \/ BuyBrowser(a) \/ BuyInbox(a) \/ CommitFirst(a)
           \/ NotCommitted(a) \/ BuyOcr(a) \/ BuyTranscription(a) \/ NotBought(a)
           \/ NoAuthority(a) \/ Authority(a) \/ Transcribed(a) \/ BuyAnalysis(a)
           \/ Analysed(a) \/ Throws(a) \/ SessionReady(a) \/ InboxActive(a)
           \/ Ticketed(a) \/ Connected(a) \/ MailRequested(a) \/ Page(a)
           \/ OutOfTime(a) \/ Read(a) \/ PageRead(a) \/ CloseSession(a)
           \/ CloseInbox(a)

Next == \/ \E a \in Attempts : \/ Step(a) \/ TimePasses(a) \/ Crash(a)
                               \/ CommitSettles(a) \/ IngressServes(a)
        \/ \E p \in Runs : PurchaseSettles(p)
        \/ \E k \in Saved : ServiceMoves(k)
        \/ LeaseReady \/ LeaseExpires \/ MailArrives
        \/ Rest

Spec == Init /\ [][Next]_vars

(***************************************************************************)
(* Fairness.  An attempt that can go on does: its requests and the         *)
(* caller's callbacks (connect, requestMail, extractCode) settle, purchase *)
(* ends (PurchaseEnds of Purchase), an upload is answered or fails, and    *)
(* time passes.  The service owes nothing: no mail need ever come.         *)
(***************************************************************************)
FairSpec == /\ Spec
            /\ \A a \in Attempts : /\ WF_vars(Step(a))
                                   /\ WF_vars(TimePasses(a))
                                   /\ WF_vars(CommitSettles(a))
            /\ \A p \in Runs : WF_vars(PurchaseSettles(p))
-----------------------------------------------------------------------------
\* "close the lease" (journeys.mjs:8-10, 96): an attempt that had the authority
\* over a lease and ended by itself has sent the DELETE, whatever was thrown in
\* between; and one that returns a result has closed it.
LeaseIsClosed ==
  \A a \in Attempts :
    (held[a] /\ cleanup /\ at[a] \in {"returned", "threw"}) =>
      /\ deleted[a]
      /\ at[a] = "returned" => lease = "closed"

\* The cursor never passes a message whose code extractCode would accept, pages
\* of any size and mail that arrives between the reads notwithstanding; what is
\* returned is "the first code accepted" (journeys.mjs:59-61, 101-131).
NoCodeSkipped ==
  \A a \in Attempts :
    /\ \A m \in matching : m > cursor[a]
    /\ code[a] # 0 => code[a] \in matching /\ \A m \in matching : m >= code[a]

\* "Commit one document once" (journeys.mjs:139): the paid requests of an
\* attempt carry one artifact, and with a saved upload key those of every
\* attempt at the same bytes do: a saved purchase key is never presented with
\* another input.
OneArtifactPerDocument ==
  \A s, t \in submitted :
    (\/ s.attempt = t.attempt
     \/ /\ given[s.attempt] = given[t.attempt]
        /\ given[s.attempt].key # NoKey) => s.artifact = t.artifact

\* A journey ends, although mail may never come and a purchase may never settle.
JourneyEnds == \A a \in Attempts : at[a] # "idle" ~> at[a] \in Over
=============================================================================
