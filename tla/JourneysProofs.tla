--------------------------- MODULE JourneysProofs ---------------------------
(***************************************************************************)
(* What the journeys and the artifact store promise, proved for any        *)
(* attempts, contents and saved upload keys, and for a mailbox of any      *)
(* size: a lease is closed, no code is skipped, a commitment is the        *)
(* caller's own and a saved purchase key never meets another input.        *)
(***************************************************************************)
EXTENDS Journeys, TLAPS

Outside == {"idle", "committing", "buying", "analysing"}   \* of a try block

\* Whoever has the authority over a lease is in the try block or past it, and
\* past it only by way of the finally, unless it died.
Closes ==
  \A a \in Attempts :
    /\ held[a] => at[a] \notin Outside
    /\ at[a] = "closing" => finish[a] \in {"returned", "threw"}
    /\ held[a] /\ cleanup /\ at[a] \in {"returned", "threw"} =>
         /\ deleted[a]
         /\ at[a] = "returned" => lease = "closed"

\* No message that extractCode accepts is at or before the cursor, nor among
\* those of the present page that have been looked at.
Reads ==
  \A a \in Attempts :
    /\ \A m \in matching : m > cursor[a]
    /\ at[a] = "reading" => \A m \in matching : m > looked[a]
    /\ code[a] # 0 => code[a] \in matching /\ \A m \in matching : m >= code[a]

\* An upload carries the operation key of its call.
Keyed == \A c \in Attempts : /\ operation[c] \in {NoKey, OperationKey(c)}
                             /\ c \in posts => operation[c] = OperationKey(c)

\* The storage identity of a call's upload, whenever it leaves.
Identity(c) == IF minting = "operation" THEN OperationKey(c) ELSE given[c].content

\* The ingress has one artifact for a storage identity; what it tells a call, and
\* what the call keeps of it, has that call's identity, and is kept for good.
Stores ==
  /\ \A s, t \in stored : s.uri = t.uri => s = t
  /\ \A c \in Attempts : evidence[c].kind = "stored" =>
       /\ evidence[c].artifact \in stored
       /\ evidence[c].artifact.uri = Identity(c)
  /\ \A c \in Attempts : committed[c] # NoArtifact =>
       /\ commit[c] = "done" /\ committed[c] \in stored
       /\ committed[c].content = given[c].content
       /\ committed[c].uri = Identity(c)

\* A paid request carries the one commitment of its attempt.
Submits ==
  /\ \A s \in submitted : /\ committed[s.attempt] # NoArtifact
                          /\ s.artifact = committed[s.attempt]
  /\ \A a \in Attempts :
       kind = "document" /\ at[a] = "buying" => committed[a] # NoArtifact

IInv == TypeOK /\ Closes /\ Reads /\ Keyed /\ Stores /\ Submits
-----------------------------------------------------------------------------
(***************************************************************************)
(* What a step does to the attempts.                                       *)
(***************************************************************************)
OwnStep(a) == Step(a) \/ Crash(a)

\* Steps that are no attempt's.
World == \/ LeaseReady \/ LeaseExpires \/ MailArrives
         \/ \E a \in Attempts : \/ TimePasses(a) \/ CommitSettles(a)
                                \/ IngressServes(a)
         \/ \E p \in Runs : PurchaseSettles(p)
         \/ \E k \in Saved : ServiceMoves(k)

LEMMA Steps ==
  ASSUME [Next]_vars
  PROVE  \/ \E a \in Attempts : OwnStep(a)
         \/ World
         \/ UNCHANGED vars
  BY DEF Next, Rest, OwnStep, World

\* The try block is left.
Left(a, how) == IF cleanup THEN at'[a] = "closing" /\ finish'[a] = how
                ELSE at'[a] = how /\ finish'[a] = finish[a]

Reading(a) == <<cursor[a], page[a], looked[a], code[a]>>

\* How an attempt moves, by what it has after the step.
Moves(a) ==
  \/ /\ at[a] \in Outside /\ UNCHANGED <<Reading(a), held[a], deleted[a], finish[a]>>
     /\ at'[a] \in (Outside \ {"idle"}) \cup {"pending", "threw", "returned"}
  \/ /\ at[a] = "buying" /\ at'[a] = "checking"
     /\ held'[a] = TRUE /\ UNCHANGED <<Reading(a), deleted[a], finish[a]>>
  \/ /\ at[a] \in InTry /\ UNCHANGED <<Reading(a), held[a], deleted[a]>>
     /\ \/ at'[a] \in InTry \ {"reading"} /\ finish'[a] = finish[a]
        \/ \E how \in {"returned", "threw"} : Left(a, how)
  \/ /\ at[a] = "paging" /\ at'[a] = "reading"
     /\ cursor'[a] = cursor[a] /\ page'[a] \in cursor[a]..mail
     /\ looked'[a] = cursor[a]
     /\ UNCHANGED <<code[a], held[a], deleted[a], finish[a]>>
  \/ /\ at[a] = "reading" /\ looked[a] < page[a] /\ looked'[a] = looked[a] + 1
     /\ \/ looked'[a] \in matching /\ Left(a, "returned") /\ code'[a] = looked'[a]
        \/ /\ looked'[a] \notin matching /\ at'[a] = at[a]
           /\ UNCHANGED <<finish[a], code[a]>>
     /\ UNCHANGED <<cursor[a], page[a], held[a], deleted[a]>>
  \/ /\ at[a] = "reading" /\ looked[a] = page[a] /\ cursor'[a] = page[a]
     /\ at'[a] = "paging"
     /\ UNCHANGED <<page[a], looked[a], code[a], held[a], deleted[a], finish[a]>>
  \/ /\ at[a] = "closing" /\ deleted'[a] = TRUE
     /\ at'[a] = "threw" \/ (at'[a] = finish[a] /\ lease' = "closed")
     /\ UNCHANGED <<Reading(a), held[a], finish[a]>>
  \/ /\ at'[a] = "crashed"
     /\ UNCHANGED <<Reading(a), held[a], deleted[a], finish[a]>>

LEMMA StepMoves ==
  ASSUME TypeOK, NEW a \in Attempts, OwnStep(a)
  PROVE  Moves(a)
<1> USE DEF TypeOK, Reading, attempt
<1>1. CASE Refused(a) \/ CommitFirst(a) \/ NotCommitted(a) \/ NotBought(a)
           \/ NoAuthority(a) \/ Transcribed(a) \/ Analysed(a)
  BY <1>1 DEF Refused, CommitFirst, NotCommitted, NotBought, NoAuthority,
              Transcribed, Analysed, To, Moves, Outside
<1>2. CASE BuyBrowser(a) \/ BuyInbox(a) \/ BuyOcr(a) \/ BuyTranscription(a)
           \/ BuyAnalysis(a)
  BY <1>2 DEF BuyBrowser, BuyInbox, BuyOcr, BuyTranscription, BuyAnalysis, Buy,
              To, Moves, Outside
<1>3. CASE Authority(a)
  BY <1>3 DEF Authority, To, Moves
<1>4. ASSUME NEW how, Leave(a, how) PROVE Left(a, how)
  BY <1>4 DEF Leave, To, Left
<1>5. CASE Throws(a) \/ Connected(a) \/ OutOfTime(a)
  BY <1>4, <1>5 DEF Throws, Connected, OutOfTime, Moves, InTry
<1>6. CASE SessionReady(a) \/ InboxActive(a) \/ Ticketed(a) \/ MailRequested(a)
  BY <1>6 DEF SessionReady, InboxActive, Ticketed, MailRequested, To, Moves, InTry
<1>7. CASE Page(a)
  BY <1>7 DEF Page, To, Moves
<1>8. CASE Read(a)
  BY <1>4, <1>8 DEF Read, Moves
<1>9. CASE PageRead(a)
  BY <1>9 DEF PageRead, To, Moves
<1>10. CASE CloseSession(a) \/ CloseInbox(a)
  BY <1>10 DEF CloseSession, CloseInbox, Close, To, Moves
<1>11. CASE Crash(a)
  BY <1>11 DEF Crash, To, Moves
<1>12. QED
  BY <1>1, <1>2, <1>3, <1>5, <1>6, <1>7, <1>8, <1>9, <1>10, <1>11
     DEF OwnStep, Step

\* An attempt leaves the others alone, and what the journey was made with.
LEMMA StepKeeps ==
  ASSUME TypeOK, NEW a \in Attempts, OwnStep(a)
  PROVE  /\ UNCHANGED <<setup, mail>> /\ lease' \in {lease, "closed"}
         /\ \A b \in Attempts : b # a =>
              UNCHANGED <<Reading(b), at[b], finish[b], held[b], deleted[b]>>
<1> USE DEF TypeOK, Reading, attempt
<1>1. CASE Refused(a) \/ CommitFirst(a) \/ NotCommitted(a) \/ NotBought(a)
           \/ NoAuthority(a) \/ Authority(a) \/ Transcribed(a) \/ Analysed(a)
  BY <1>1 DEF Refused, CommitFirst, NotCommitted, NotBought, NoAuthority,
              Authority, Transcribed, Analysed, To
<1>2. CASE BuyBrowser(a) \/ BuyInbox(a) \/ BuyOcr(a) \/ BuyTranscription(a)
           \/ BuyAnalysis(a)
  BY <1>2 DEF BuyBrowser, BuyInbox, BuyOcr, BuyTranscription, BuyAnalysis, Buy, To
<1>3. CASE Throws(a) \/ Connected(a) \/ OutOfTime(a) \/ Read(a)
  BY <1>3 DEF Throws, Connected, OutOfTime, Read, Leave, To
<1>4. CASE SessionReady(a) \/ InboxActive(a) \/ Ticketed(a) \/ MailRequested(a)
           \/ Page(a) \/ PageRead(a)
  BY <1>4 DEF SessionReady, InboxActive, Ticketed, MailRequested, Page, PageRead, To
<1>5. CASE CloseSession(a) \/ CloseInbox(a) \/ Crash(a)
  BY <1>5 DEF CloseSession, CloseInbox, Close, Crash, To
<1>6. QED
  BY <1>1, <1>2, <1>3, <1>4, <1>5 DEF OwnStep, Step

\* The world leaves every attempt where it is, and never reopens a lease.
LEMMA WorldKeeps ==
  ASSUME World
  PROVE  /\ UNCHANGED <<setup, at, finish, held, deleted, cursor, page, looked,
                        code, submitted>>
         /\ mail' = mail \/ (mail < MaxMail /\ mail' = mail + 1)
         /\ lease' = lease \/ (lease # "closed" /\ lease' = "live")
            \/ lease' = "closed"
<1>1. CASE LeaseReady \/ LeaseExpires \/ MailArrives
  BY <1>1 DEF LeaseReady, LeaseExpires, MailArrives, attempt
<1>2. CASE \E a \in Attempts : TimePasses(a) \/ CommitSettles(a) \/ IngressServes(a)
  BY <1>2 DEF TimePasses, CommitSettles, IngressServes, attempt, jvars
<1>3. CASE (\E p \in Runs : PurchaseSettles(p)) \/ \E k \in Saved : ServiceMoves(k)
  BY <1>3 DEF PurchaseSettles, ServiceMoves, attempt, jvars
<1>4. QED
  BY <1>1, <1>2, <1>3 DEF World
-----------------------------------------------------------------------------
(***************************************************************************)
(* What a step does to the commitments.                                    *)
(***************************************************************************)
\* Only these steps are about the artifact store.
LEMMA StoreSteps ==
  ASSUME [Next]_vars
  PROVE  \/ UNCHANGED uploads
         \/ \E a \in Attempts : \/ CommitFirst(a) \/ Crash(a) \/ CommitSettles(a)
                                \/ IngressServes(a)
<1>1. ASSUME NEW a \in Attempts, Step(a), ~CommitFirst(a) PROVE UNCHANGED uploads
  BY <1>1 DEF Step, Refused, BuyBrowser, BuyInbox, NotCommitted, BuyOcr,
     BuyTranscription, NotBought, NoAuthority, Authority, Transcribed,
     BuyAnalysis, Analysed, Throws, SessionReady, InboxActive, Ticketed,
     Connected, MailRequested, Page, OutOfTime, Read, PageRead, CloseSession,
     CloseInbox, Close
<1>2. CASE LeaseReady \/ LeaseExpires \/ MailArrives
  BY <1>2 DEF LeaseReady, LeaseExpires, MailArrives
<1>3. ASSUME NEW a \in Attempts, TimePasses(a) PROVE UNCHANGED uploads
  BY <1>3 DEF TimePasses
<1>4. CASE (\E p \in Runs : PurchaseSettles(p)) \/ \E k \in Saved : ServiceMoves(k)
  BY <1>4 DEF PurchaseSettles, ServiceMoves
<1>5. QED
  BY <1>1, <1>2, <1>3, <1>4, Steps DEF OwnStep, World, vars

LEMMA ArtifactTyped ==
  /\ NoArtifact \notin ArtifactSet
  /\ \A c \in Attempts : given \in [Attempts -> Arguments] =>
       OperationKey(c) \in OperationKeys /\ OperationKey(c) # NoKey
  BY JourneysAssumption
     DEF NoArtifact, ArtifactSet, MintedUris, OperationKeys, OperationKey, Arguments

\* The ingress never forgets, and a commitment is kept for good.
LEMMA StoreGrows ==
  ASSUME TypeOK, Stores, [Next]_vars
  PROVE  /\ UNCHANGED <<given, minting>> /\ stored \subseteq stored'
         /\ \A c \in Attempts : committed[c] # NoArtifact => committed'[c] = committed[c]
<1> USE DEF TypeOK, ArtifactsTypeOK, uploads
<1>1. ASSUME NEW a \in Attempts, CommitFirst(a)
      PROVE  /\ UNCHANGED <<given, minting>> /\ stored' = stored
             /\ \A c \in Attempts : committed[c] # NoArtifact => committed'[c] = committed[c]
  BY <1>1 DEF CommitFirst, Commit, Finishes, Stores
<1>2. ASSUME NEW a \in Attempts, CommitSettles(a)
      PROVE  /\ UNCHANGED <<given, minting>> /\ stored' = stored
             /\ \A c \in Attempts : committed[c] # NoArtifact => committed'[c] = committed[c]
  BY <1>2 DEF CommitSettles, CommitAnswered, CommitFails, Finishes, Stores
<1>3. ASSUME NEW a \in Attempts, IngressServes(a)
      PROVE  UNCHANGED <<given, minting>> /\ stored \subseteq stored' /\ committed' = committed
  BY <1>3 DEF IngressServes, ServeUpload, Ingest, Reject
<1>4. ASSUME NEW a \in Attempts, Crash(a)
      PROVE  UNCHANGED <<given, minting>> /\ stored' = stored /\ committed' = committed
  BY <1>4 DEF Crash
<1>5. QED
  BY <1>1, <1>2, <1>3, <1>4, StoreSteps

LEMMA ArtifactsTyped ==
  ASSUME TypeOK, [Next]_vars
  PROVE  ArtifactsTypeOK'
<1> USE DEF TypeOK, ArtifactsTypeOK
<1>0. NoEvidence \in EvidenceSet /\ NoArtifact \in ArtifactSet \cup {NoArtifact}
      /\ [kind |-> "rejected", artifact |-> NoArtifact] \in EvidenceSet
      /\ \A x \in ArtifactSet : [kind |-> "stored", artifact |-> x] \in EvidenceSet
  BY DEF NoEvidence, EvidenceSet
<1>1. ASSUME NEW a \in Attempts, CommitFirst(a) PROVE ArtifactsTypeOK'
  BY <1>0, <1>1, ArtifactTyped DEF CommitFirst, Commit, Finishes
<1>2. ASSUME NEW a \in Attempts, CommitSettles(a) PROVE ArtifactsTypeOK'
  <2>1. evidence[a].artifact \in ArtifactSet \cup {NoArtifact}
    BY DEF EvidenceSet
  <2>2. ASSUME NEW x \in ArtifactSet \cup {NoArtifact}, Finishes(a, x),
               UNCHANGED <<given, minting, operation, posts, stored>>
        PROVE  ArtifactsTypeOK'
    BY <1>0, <2>2 DEF Finishes
  <2>3. QED
    BY <1>0, <1>2, <2>1, <2>2 DEF CommitSettles, CommitAnswered, CommitFails
<1>3. ASSUME NEW a \in Attempts, IngressServes(a) PROVE ArtifactsTypeOK'
  <2>1. ASSUME NEW e \in EvidenceSet, Hand(a, e)
        PROVE  evidence' \in [Attempts -> EvidenceSet]
    BY <2>1 DEF Hand
  <2>2. evidence' \in [Attempts -> EvidenceSet]
    BY <1>0, <1>3, <2>1 DEF IngressServes, ServeUpload, Ingest, Reject
  <2>3. QED
    BY <1>3, <2>2 DEF IngressServes, ServeUpload, Ingest, Reject
<1>4. ASSUME NEW a \in Attempts, Crash(a) PROVE ArtifactsTypeOK'
  BY <1>0, <1>4 DEF Crash
<1>5. QED
  BY <1>1, <1>2, <1>3, <1>4, StoreSteps DEF uploads

LEMMA KeyedKept ==
  ASSUME IInv, [Next]_vars
  PROVE  Keyed'
<1> USE DEF IInv, TypeOK, ArtifactsTypeOK
<1>0. \A c \in Attempts : OperationKey(c)' = OperationKey(c)
  BY StoreGrows DEF OperationKey
<1>1. ASSUME NEW a \in Attempts, CommitFirst(a) PROVE Keyed'
  BY <1>0, <1>1 DEF CommitFirst, Commit, Keyed
<1>2. ASSUME operation' = operation, posts' \subseteq posts PROVE Keyed'
  BY <1>0, <1>2 DEF Keyed
<1>3. ASSUME NEW a \in Attempts, CommitSettles(a) \/ IngressServes(a) \/ Crash(a)
      PROVE  operation' = operation /\ posts' \subseteq posts
  BY <1>3 DEF CommitSettles, CommitAnswered, CommitFails, IngressServes,
              ServeUpload, Ingest, Reject, Crash
<1>4. QED
  BY <1>1, <1>2, <1>3, StoreSteps DEF uploads

LEMMA StoresKept ==
  ASSUME IInv, [Next]_vars
  PROVE  Stores'
<1> USE DEF IInv, TypeOK, ArtifactsTypeOK
<1>0. NoEvidence.kind = "none" /\ UNCHANGED <<given, minting>>
  BY StoreGrows DEF NoEvidence
<1>keys. \A c \in Attempts : Identity(c)' = Identity(c)
  BY <1>0 DEF Identity, OperationKey
<1>1. ASSUME NEW a \in Attempts, CommitFirst(a) PROVE Stores'
  BY <1>0, <1>1, <1>keys DEF CommitFirst, Commit, Finishes, Stores
<1>2. ASSUME NEW a \in Attempts, CommitSettles(a) PROVE Stores'
  <2>1. CASE CommitFails(a)
    BY <1>0, <1>keys, <2>1 DEF CommitFails, Finishes, Stores
  <2>2. CASE CommitAnswered(a)
    <3>1. CASE evidence[a].kind = "stored" /\ evidence[a].artifact.content = given[a].content
      BY <1>0, <1>keys, <2>2, <3>1 DEF CommitAnswered, Finishes, Stores
    <3>2. CASE ~(evidence[a].kind = "stored" /\ evidence[a].artifact.content = given[a].content)
      BY <1>0, <1>keys, <2>2, <3>2 DEF CommitAnswered, Finishes, Stores
    <3>3. QED
      BY <3>1, <3>2
  <2>3. QED
    BY <1>2, <2>1, <2>2 DEF CommitSettles
<1>3. ASSUME NEW a \in Attempts, IngressServes(a) PROVE Stores'
  <2>1. UNCHANGED <<commit, committed>>
    BY <1>3 DEF IngressServes, ServeUpload, Ingest, Reject
  <2>2. CASE Ingest(a)
    <3>1. PICK x \in ArtifactSet :
            /\ x.uri = Identity(a)
            /\ x \in stored \/ \A y \in stored : y.uri # x.uri
            /\ stored' = stored \cup {x}
            /\ \/ Hand(a, [kind |-> "stored", artifact |-> x])
               \/ Hand(a, [kind |-> "rejected", artifact |-> NoArtifact])
      <4>1. StorageIdentity(a) = Identity(a)
        BY <1>3 DEF IngressServes, ServeUpload, Keyed, StorageIdentity, Identity
      <4>2. QED
        BY <2>2, <4>1 DEF Ingest
    <3>2. \A s, t \in stored' : s.uri = t.uri => s = t
      BY <3>1 DEF Stores
    <3>3. ASSUME NEW c \in Attempts, evidence'[c].kind = "stored"
          PROVE  /\ evidence'[c].artifact \in stored'
                 /\ evidence'[c].artifact.uri = Identity(c)
      <4>1. evidence'[c] = evidence[c]
            \/ (c = a /\ evidence'[c] = [kind |-> "stored", artifact |-> x])
        BY <3>1, <3>3 DEF Hand
      <4>2. QED
        BY <3>1, <3>3, <4>1 DEF Stores
    <3>4. QED
      BY <1>0, <1>keys, <2>1, <3>1, <3>2, <3>3 DEF Stores
  <2>3. CASE Reject(a)
    BY <1>0, <1>keys, <2>1, <2>3 DEF Reject, Hand, Stores
  <2>4. QED
    BY <1>3, <2>2, <2>3 DEF IngressServes, ServeUpload
<1>4. ASSUME NEW a \in Attempts, Crash(a) PROVE Stores'
  BY <1>0, <1>4, <1>keys DEF Crash, Stores
<1>5. CASE UNCHANGED uploads
  BY <1>5, <1>keys DEF uploads, Stores
<1>6. QED
  BY <1>1, <1>2, <1>3, <1>4, <1>5, StoreSteps

\* A paid request is made by Buy only: with the commitment of the attempt, in
\* the journeys over a document.
LEMMA Buys ==
  ASSUME TypeOK, NEW a \in Attempts, OwnStep(a)
  PROVE  /\ \/ submitted' = submitted
            \/ /\ committed[a] # NoArtifact \/ (kind = "document" /\ at[a] = "buying")
               /\ \E k \in Saved : submitted' = submitted \cup
                    {[attempt |-> a, key |-> k, artifact |-> committed[a]]}
         /\ kind = "document" /\ at'[a] = "buying" => committed[a] # NoArtifact
<1> USE DEF TypeOK, Leases, Media
<1>1. CASE Refused(a) \/ CommitFirst(a) \/ NotCommitted(a) \/ NotBought(a)
           \/ NoAuthority(a) \/ Authority(a) \/ Transcribed(a) \/ Analysed(a)
  BY <1>1 DEF Refused, CommitFirst, NotCommitted, NotBought, NoAuthority,
              Authority, Transcribed, Analysed, To
<1>2. CASE BuyBrowser(a) \/ BuyInbox(a)
  BY <1>2 DEF BuyBrowser, BuyInbox, Buy, To
<1>3. CASE BuyOcr(a) \/ BuyTranscription(a) \/ BuyAnalysis(a)
  BY <1>3 DEF BuyOcr, BuyTranscription, BuyAnalysis, Buy, To, Saved
<1>4. CASE Throws(a) \/ Connected(a) \/ OutOfTime(a) \/ Read(a)
  <2>1. submitted' = submitted
    BY <1>4 DEF Throws, Connected, OutOfTime, Read
  <2>2. at'[a] # "buying"
    BY <1>4 DEF Throws, Connected, OutOfTime, Read, Leave, To, InTry
  <2>3. QED
    BY <2>1, <2>2
<1>5. CASE SessionReady(a) \/ InboxActive(a) \/ Ticketed(a) \/ MailRequested(a)
           \/ Page(a) \/ PageRead(a)
  BY <1>5 DEF SessionReady, InboxActive, Ticketed, MailRequested, Page, PageRead, To
<1>6. CASE Crash(a)
  BY <1>6 DEF Crash, To
<1>7. CASE CloseSession(a) \/ CloseInbox(a)
  BY <1>7 DEF CloseSession, CloseInbox, Close, To
<1>8. QED
  BY <1>1, <1>2, <1>3, <1>4, <1>5, <1>6, <1>7 DEF OwnStep, Step

LEMMA SubmitsKept ==
  ASSUME IInv, [Next]_vars
  PROVE  Submits'
<1> USE DEF IInv
<1>1. \A c \in Attempts : committed[c] # NoArtifact => committed'[c] = committed[c]
  BY StoreGrows
<1>2. \A s \in submitted : s.attempt \in Attempts
  BY DEF TypeOK
<1>3. CASE UNCHANGED <<submitted, kind, at>>
  BY <1>1, <1>2, <1>3 DEF Submits
<1>4. ASSUME NEW a \in Attempts, OwnStep(a) PROVE Submits'
  <2>1. kind' = kind /\ \A b \in Attempts : b # a => at'[b] = at[b]
    BY <1>4, StepKeeps DEF setup
  <2>2. \A b \in Attempts : kind' = "document" /\ at'[b] = "buying" => committed'[b] # NoArtifact
    BY <1>1, <1>4, <2>1, Buys DEF Submits
  <2>3. CASE submitted' = submitted
    BY <1>1, <1>2, <2>2, <2>3 DEF Submits
  <2>4. CASE submitted' # submitted
    <3>1. PICK k \in Saved : submitted' = submitted \cup
                    {[attempt |-> a, key |-> k, artifact |-> committed[a]]}
      BY <1>4, <2>4, Buys
    <3>2. committed[a] # NoArtifact
      BY <1>4, <2>4, Buys DEF Submits
    <3>3. QED
      BY <1>1, <1>2, <2>2, <3>1, <3>2 DEF Submits
  <2>5. QED
    BY <2>3, <2>4
<1>5. QED
  BY <1>3, <1>4, Steps, WorldKeeps DEF vars, jvars, setup
-----------------------------------------------------------------------------
(***************************************************************************)
(* The invariant, part by part.                                            *)
(***************************************************************************)
LEMMA Begins == Init => IInv
<1> SUFFICES ASSUME Init PROVE IInv
  OBVIOUS
<1>1. given \in [Attempts -> Arguments]
  <2>1. PICK any \in Contents :
          given \in IF kind \in Media THEN [Attempts -> Arguments]
                   ELSE {[a \in Attempts |-> [content |-> any, key |-> NoKey,
                                              valid |-> TRUE]]}
    BY DEF Init
  <2>2. [content |-> any, key |-> NoKey, valid |-> TRUE] \in Arguments
    BY DEF Arguments
  <2>3. QED
    BY <2>1, <2>2
<1>2. ArtifactsTypeOK
  BY <1>1 DEF Init, ArtifactsInit, ArtifactsTypeOK, NoEvidence, EvidenceSet
<1>3. kind \in Leases \cup Media /\ cleanup \in BOOLEAN /\ matching \subseteq Messages
  BY JourneysAssumption DEF Init, Leases, Media, Messages
<1>4. TypeOK
  BY <1>2, <1>3, JourneysAssumption DEF Init, TypeOK
<1>5. Keyed /\ Stores /\ Submits
  BY ArtifactTyped DEF Init, ArtifactsInit, Keyed, Stores, Submits, NoEvidence
<1>6. Closes /\ Reads
  BY <1>3, JourneysAssumption DEF Init, Closes, Reads, Outside, Messages
<1>7. QED
  BY <1>4, <1>5, <1>6 DEF IInv

Phases == Over \cup InTry \cup {"idle", "committing", "buying", "analysing", "closing"}

\* The parts of the type invariant a step of an attempt can disturb.
LEMMA AttemptTyped ==
  ASSUME IInv, NEW a \in Attempts, OwnStep(a)
  PROVE  /\ at' \in [Attempts -> Phases]
         /\ finish' \in [Attempts -> {"none", "returned", "threw"}]
         /\ held' \in [Attempts -> BOOLEAN]
         /\ deleted' \in [Attempts -> BOOLEAN]
         /\ late' \in [Attempts -> BOOLEAN]
<1> USE DEF IInv, TypeOK, attempt, Phases
<1>1. CASE Refused(a) \/ CommitFirst(a) \/ NotCommitted(a) \/ NotBought(a)
           \/ NoAuthority(a) \/ Authority(a) \/ Transcribed(a) \/ Analysed(a)
  BY <1>1 DEF Refused, CommitFirst, NotCommitted, NotBought, NoAuthority,
              Authority, Transcribed, Analysed, To, Over, InTry
<1>2. CASE BuyBrowser(a) \/ BuyInbox(a) \/ BuyOcr(a) \/ BuyTranscription(a)
           \/ BuyAnalysis(a)
  BY <1>2 DEF BuyBrowser, BuyInbox, BuyOcr, BuyTranscription, BuyAnalysis, Buy, To
<1>3. CASE Throws(a) \/ Connected(a) \/ OutOfTime(a) \/ Read(a)
  BY <1>3 DEF Throws, Connected, OutOfTime, Read, Leave, To, Over
<1>4. CASE SessionReady(a) \/ InboxActive(a) \/ Ticketed(a) \/ MailRequested(a)
           \/ Page(a) \/ PageRead(a)
  BY <1>4 DEF SessionReady, InboxActive, Ticketed, MailRequested, Page,
              PageRead, To, InTry
<1>5. CASE CloseSession(a) \/ CloseInbox(a)
  <2>1. finish[a] \in Over
    BY <1>5 DEF CloseSession, CloseInbox, Close, Closes, Over
  <2>2. QED
    BY <1>5, <2>1 DEF CloseSession, CloseInbox, Close, To, Over
<1>6. CASE Crash(a)
  BY <1>6 DEF Crash, To, Over
<1>7. QED
  BY <1>1, <1>2, <1>3, <1>4, <1>5, <1>6 DEF OwnStep, Step

LEMMA ReadingTyped ==
  ASSUME TypeOK, NEW a \in Attempts, OwnStep(a)
  PROVE  /\ \A f \in {cursor', page', looked', code'} : f \in [Attempts -> 0..MaxMail]
         /\ \A b \in Attempts : cursor'[b] <= page'[b] /\ page'[b] <= mail'
<1> USE JourneysAssumption DEF TypeOK, attempt
<1>1. CASE Page(a)
  <2>1. PICK upTo \in cursor[a]..mail : page' = [page EXCEPT ![a] = upTo]
    BY <1>1 DEF Page
  <2>2. upTo \in 0..MaxMail /\ cursor[a] <= upTo /\ upTo <= mail
    BY <2>1
  <2>3. page' \in [Attempts -> 0..MaxMail] /\ looked' \in [Attempts -> 0..MaxMail]
    BY <1>1, <2>1, <2>2 DEF Page
  <2>4. QED
    BY <1>1, <2>1, <2>2, <2>3 DEF Page
<1>2. CASE Read(a)
  <2>1. looked[a] + 1 \in 0..MaxMail
    BY <1>2 DEF Read
  <2>2. QED
    BY <1>2, <2>1 DEF Read
<1>3. CASE PageRead(a)
  BY <1>3 DEF PageRead
<1>4. CASE ~Page(a) /\ ~Read(a) /\ ~PageRead(a)
  <2>1. UNCHANGED <<cursor, page, looked, code, mail>>
    BY <1>4 DEF OwnStep, Step, Crash, Refused, BuyBrowser, BuyInbox, CommitFirst,
       NotCommitted, BuyOcr, BuyTranscription, NotBought, NoAuthority, Authority,
       Transcribed, BuyAnalysis, Analysed, Throws, SessionReady, InboxActive,
       Ticketed, Connected, MailRequested, OutOfTime, CloseSession, CloseInbox,
       Close
  <2>2. QED
    BY <2>1
<1>5. QED
  BY <1>1, <1>2, <1>3, <1>4

LEMMA TypesKept ==
  ASSUME IInv, [Next]_vars
  PROVE  TypeOK'
<1> USE DEF IInv
<1>0. ArtifactsTypeOK'
  BY ArtifactsTyped
<1>1. ASSUME NEW a \in Attempts, OwnStep(a) PROVE TypeOK'
  <2>1. UNCHANGED <<setup, mail>> /\ lease' \in {lease, "closed"}
    BY <1>1, StepKeeps
  <2>2. submitted' \subseteq [attempt : Attempts, key : Saved, artifact : ArtifactSet]
    <3>1. committed[a] # NoArtifact => committed[a] \in ArtifactSet
      BY DEF TypeOK, ArtifactsTypeOK
    <3>2. QED
      BY <1>1, <3>1, Buys DEF TypeOK, Submits
  <2>3. QED
    BY <1>0, <1>1, <2>1, <2>2, AttemptTyped, ReadingTyped
       DEF TypeOK, setup, Phases
<1>2. CASE World
  <2>1. late' \in [Attempts -> BOOLEAN]
    BY <1>2 DEF TypeOK, World, LeaseReady, LeaseExpires, MailArrives, TimePasses,
       CommitSettles, IngressServes, PurchaseSettles, ServiceMoves, jvars, attempt
  <2>2. mail' \in 0..MaxMail /\ mail <= mail'
    BY <1>2, WorldKeeps, JourneysAssumption DEF TypeOK
  <2>3. \A a \in Attempts : cursor'[a] <= page'[a] /\ page'[a] <= mail'
    BY <1>2, <2>2, WorldKeeps, JourneysAssumption DEF TypeOK
  <2>4. lease' \in {"none", "live", "closed"}
    BY <1>2, WorldKeeps DEF TypeOK
  <2>5. UNCHANGED <<setup, at, finish, held, deleted, cursor, page, looked, code,
                    submitted>>
    BY <1>2, WorldKeeps
  <2>6. QED
    BY <1>0, <2>1, <2>2, <2>3, <2>4, <2>5 DEF TypeOK, setup
<1>3. CASE UNCHANGED vars
  BY <1>0, <1>3 DEF TypeOK, vars, jvars, setup, attempt
<1>4. QED
  BY <1>1, <1>2, <1>3, Steps

LEMMA ClosesKept ==
  ASSUME IInv, [Next]_vars
  PROVE  Closes'
<1> USE DEF IInv
<1>1. ASSUME NEW a \in Attempts, OwnStep(a) PROVE Closes'
  <2>1. cleanup' = cleanup /\ (lease = "closed" => lease' = "closed")
    BY <1>1, StepKeeps DEF setup
  <2>2. ASSUME NEW b \in Attempts, b # a
        PROVE  UNCHANGED <<at[b], finish[b], held[b], deleted[b]>>
    BY <1>1, <2>2, StepKeeps
  <2>3. Moves(a) /\ cleanup \in BOOLEAN /\ held[a] \in BOOLEAN /\ deleted[a] \in BOOLEAN
    BY <1>1, StepMoves DEF TypeOK
  <2>4. /\ held'[a] => at'[a] \notin Outside
        /\ at'[a] = "closing" => finish'[a] \in {"returned", "threw"}
    BY <2>3 DEF Moves, Left, Closes, Outside, InTry
  <2>5. ASSUME held'[a], cleanup, at'[a] \in {"returned", "threw"}
        PROVE  deleted'[a] /\ (at'[a] = "returned" => lease' = "closed")
    BY <2>3, <2>5 DEF Moves, Left, Closes, Outside, InTry
  <2>6. QED
    BY <2>1, <2>2, <2>4, <2>5 DEF Closes
<1>2. CASE World
  <2>1. UNCHANGED <<cleanup, at, finish, held, deleted>>
        /\ (lease = "closed" => lease' = "closed")
    BY <1>2, WorldKeeps DEF setup
  <2>2. QED
    BY <2>1 DEF Closes
<1>3. CASE UNCHANGED vars
  BY <1>3 DEF vars, jvars, setup, attempt, Closes
<1>4. QED
  BY <1>1, <1>2, <1>3, Steps

LEMMA ReadsKept ==
  ASSUME IInv, [Next]_vars
  PROVE  Reads'
<1> USE DEF IInv
<1>1. ASSUME NEW a \in Attempts, OwnStep(a) PROVE Reads'
  <2>1. matching' = matching /\ matching \subseteq Nat
    BY <1>1, StepKeeps DEF setup, TypeOK, Messages
  <2>2. ASSUME NEW b \in Attempts, b # a
        PROVE  UNCHANGED <<at[b], cursor[b], looked[b], code[b]>>
    BY <1>1, <2>2, StepKeeps DEF Reading
  <2>3. Moves(a) /\ cursor[a] \in Nat /\ looked[a] \in Nat
    BY <1>1, StepMoves, JourneysAssumption DEF TypeOK
  <2>4. \A m \in matching : m > cursor'[a]
    BY <2>3 DEF Moves, Reads, Reading
  <2>5. ASSUME at'[a] = "reading", NEW m \in matching PROVE m > looked'[a]
    <3>1. CASE at[a] = "paging"
      BY <2>3, <2>5, <3>1 DEF Moves, Left, Reads, Outside
    <3>2. CASE at[a] = "reading"
      <4>1. looked'[a] = looked[a] + 1 /\ looked'[a] \notin matching
        BY <2>3, <2>5, <3>2 DEF Moves, Left, Outside
      <4>2. m > looked[a] /\ m \in Nat /\ m # looked[a] + 1
        BY <2>1, <3>2, <4>1 DEF Reads
      <4>3. QED
        BY <2>3, <4>1, <4>2
    <3>3. QED
      BY <2>3, <2>5, <3>1, <3>2 DEF Moves, Left, Outside, InTry, Closes
  <2>6. ASSUME code'[a] # 0
        PROVE  code'[a] \in matching /\ \A m \in matching : m >= code'[a]
    <3>1. CASE code'[a] = code[a]
      BY <2>6, <3>1 DEF Reads
    <3>2. CASE code'[a] # code[a]
      <4>1. at[a] = "reading" /\ code'[a] = looked[a] + 1 /\ code'[a] \in matching
        BY <2>3, <3>2 DEF Moves, Reading
      <4>2. \A m \in matching : m >= looked[a] + 1
        <5>1. \A m \in matching : m \in Nat /\ m > looked[a]
          BY <2>1, <4>1 DEF Reads
        <5>2. QED
          BY <2>3, <5>1
      <4>3. QED
        BY <4>1, <4>2
    <3>3. QED
      BY <3>1, <3>2
  <2>7. QED
    BY <2>1, <2>2, <2>4, <2>5, <2>6 DEF Reads
<1>2. CASE World
  BY <1>2, WorldKeeps DEF Reads, setup
<1>3. CASE UNCHANGED vars
  BY <1>3 DEF vars, jvars, setup, attempt, Reads
<1>4. QED
  BY <1>1, <1>2, <1>3, Steps

LEMMA InvariantKept == IInv /\ [Next]_vars => IInv'
  BY TypesKept, ClosesKept, ReadsKept, KeyedKept, StoresKept, SubmitsKept DEF IInv
-----------------------------------------------------------------------------
\* The invariant of the journeys and of the artifact store under them: attempts
\* at once or one after another, with their crashes, and an ingress that stores
\* late (journeys.mjs:21-160, artifacts.ts:41-120).
THEOREM Invariant == Spec => []IInv
  BY Begins, InvariantKept, PTL DEF Spec

\* Every state of a journey has its type.
THEOREM TypeCorrect == Spec => []TypeOK
<1>1. IInv => TypeOK
  BY DEF IInv
<1>2. QED
  BY <1>1, Invariant, PTL

\* "close the lease": no way out of the try block but the death of the process
\* leaves a lease without its DELETE (journeys.mjs:8-10, 96).
THEOREM ClosesItsLease == Spec => []LeaseIsClosed
<1>1. IInv => LeaseIsClosed
  BY DEF IInv, Closes, LeaseIsClosed
<1>2. QED
  BY <1>1, Invariant, PTL

\* "The first code accepted" is the first there is, for a mailbox of any size
\* and pages of any sizes (journeys.mjs:59-61, 101-131).
THEOREM SkipsNoCode == Spec => []NoCodeSkipped
<1>1. IInv => NoCodeSkipped
  BY DEF IInv, Reads, NoCodeSkipped
<1>2. QED
  BY <1>1, Invariant, PTL

\* A commitment is of the caller's own bytes and the ingress holds it
\* (artifacts.ts:46-47, 104-115).
THEOREM CommitsOwn == Spec => []CommitmentIsOwn
<1>1. IInv => CommitmentIsOwn
  BY DEF IInv, Stores, CommitmentIsOwn
<1>2. QED
  BY <1>1, Invariant, PTL

\* "Content identity cannot be the operation identity" (artifacts.ts:57-60): two
\* uploads carry one operation key only if their callers saved it, since a minted
\* key is no other call's; and they share an artifact only so, unless the ingress
\* itself mints by content and their bytes are equal.
THEOREM FreshOrKeyed == Spec => []FreshUnlessKeyed
<1>1. IInv => FreshUnlessKeyed
  <2> SUFFICES ASSUME IInv, NEW c \in Attempts, NEW d \in Attempts, c # d
               PROVE  /\ operation[c] # NoKey /\ operation[c] = operation[d]
                           => SavedTogether(c, d)
                      /\ committed[c] # NoArtifact /\ committed[c] = committed[d] =>
                           \/ SavedTogether(c, d)
                           \/ /\ minting = "content"
                              /\ given[c].content = given[d].content
    BY DEF FreshUnlessKeyed
  <2>1. /\ given[c].key \in UploadKeys \cup {NoKey}
        /\ given[d].key \in UploadKeys \cup {NoKey}
    BY DEF IInv, TypeOK, ArtifactsTypeOK, Arguments
  <2>2. OperationKey(c) = OperationKey(d) => SavedTogether(c, d)
    BY <2>1, JourneysAssumption DEF OperationKey, SavedTogether
  <2>3. ASSUME operation[c] # NoKey, operation[c] = operation[d]
        PROVE  SavedTogether(c, d)
    BY <2>2, <2>3 DEF IInv, Keyed
  <2>4. ASSUME committed[c] # NoArtifact, committed[c] = committed[d]
        PROVE  /\ Identity(c) = Identity(d)
               /\ given[c].content = given[d].content
    BY <2>4 DEF IInv, Stores
  <2>5. QED
    BY <2>2, <2>3, <2>4 DEF Identity, IInv, TypeOK, ArtifactsTypeOK
<1>2. QED
  BY <1>1, Invariant, PTL

\* "Commit one document once" (journeys.mjs:139): a saved purchase key is never
\* presented with another artifact, in one attempt or, with a saved upload key,
\* in all of them.
THEOREM CommitsOnce == Spec => []OneArtifactPerDocument
<1>1. IInv => OneArtifactPerDocument
  <2> SUFFICES ASSUME IInv, NEW s \in submitted, NEW t \in submitted,
                      \/ s.attempt = t.attempt
                      \/ /\ given[s.attempt] = given[t.attempt]
                         /\ given[s.attempt].key # NoKey
               PROVE  s.artifact = t.artifact
    BY DEF OneArtifactPerDocument
  <2>1. s.attempt \in Attempts /\ t.attempt \in Attempts
    BY DEF IInv, TypeOK
  <2>2. /\ s.artifact = committed[s.attempt] /\ committed[s.attempt] # NoArtifact
        /\ t.artifact = committed[t.attempt] /\ committed[t.attempt] # NoArtifact
    BY DEF IInv, Submits
  <2>3. Identity(s.attempt) = Identity(t.attempt)
    BY DEF Identity, OperationKey
  <2>4. QED
    BY <2>1, <2>2, <2>3 DEF IInv, Stores
<1>2. QED
  BY <1>1, Invariant, PTL
=============================================================================
