------------------------------ MODULE Artifacts ------------------------------
(***************************************************************************)
(* The artifact store of the SDK (packages/sdk/src/artifacts.ts): commit() *)
(* uploads bytes under an operation key of the caller's, or under one it   *)
(* mints itself, and takes the evidence it is given only if that evidence  *)
(* is about the very bytes.  The ingress is outside the repository: it     *)
(* keeps one artifact per storage identity of its own, and an upload whose *)
(* answer is lost may be stored all the same.                              *)
(***************************************************************************)
CONSTANTS Commits,     \* calls of commit()
          Contents,    \* bytes with their media type; the digest names them
          UploadKeys,  \* operation keys a caller may save
          NoKey        \* the caller gave none; no key, call or content

VARIABLES given,       \* [Commits -> Arguments]: what each call was given
          minting,     \* what the ingress mints a storage identity from
          commit,      \* where each call is
          operation,   \* the operation key each call's upload carries
          posts,       \* calls whose upload the ingress has not met
          evidence,    \* what is on its way back to each call
          committed,   \* what each call returned, or NoArtifact
          stored       \* the artifacts of the ingress

avars == <<given, minting, commit, operation, posts, evidence, committed, stored>>

(***************************************************************************)
(* An argument is "valid" if the bytes are neither empty nor too many, the *)
(* media type is one, and the key is 16 to 128 clean bytes.  The caller    *)
(* cannot derive an artifact's uri; the repository does not settle what    *)
(* the ingress mints it from.  A fresh commitment for every call that      *)
(* saved no key (artifacts.ts:57-60) takes one per operation key; the      *)
(* testkit mints it from the content's digest, "exactly as the live        *)
(* service does" (testkit.ts:146-150).  So either is modelled.             *)
(***************************************************************************)
Arguments == [content : Contents, key : UploadKeys \cup {NoKey}, valid : BOOLEAN]
OperationKeys == UploadKeys \cup Commits
MintedUris == OperationKeys \cup Contents
ArtifactSet == [uri : MintedUris, content : Contents]
NoArtifact == [uri |-> NoKey, content |-> NoKey]
EvidenceSet == [kind : {"none", "stored", "rejected"},
                artifact : ArtifactSet \cup {NoArtifact}]
NoEvidence == [kind |-> "none", artifact |-> NoArtifact]

ArtifactsTypeOK ==
  /\ given \in [Commits -> Arguments]
  /\ minting \in {"operation", "content"}
  /\ operation \in [Commits -> OperationKeys \cup {NoKey}]
  /\ commit \in [Commits -> {"idle", "posting", "done"}]
  /\ posts \subseteq Commits
  /\ evidence \in [Commits -> EvidenceSet]
  /\ committed \in [Commits -> ArtifactSet \cup {NoArtifact}]
  /\ stored \subseteq ArtifactSet

ArtifactsInit ==
  /\ commit = [c \in Commits |-> "idle"]
  /\ operation = [c \in Commits |-> NoKey]
  /\ posts = {}
  /\ evidence = [c \in Commits |-> NoEvidence]
  /\ committed = [c \in Commits |-> NoArtifact]
  /\ stored = {}
-----------------------------------------------------------------------------
\* Mutations of OperationKey: the identity of the content stands in for a key
\* that was not given; the key that was given is not used.
ContentKey(c) ==
  IF given[c].key = NoKey
  THEN CHOOSE d \in Commits : given[d].content = given[c].content
  ELSE given[c].key
MintedKey(c) == c

\* value ?? `ausca-artifact-${crypto.randomUUID()}`: a minted key is the call's own.
OperationKey(c) == IF given[c].key = NoKey THEN c ELSE given[c].key

Finishes(c, artifact) ==
  /\ commit' = [commit EXCEPT ![c] = "done"]
  /\ committed' = [committed EXCEPT ![c] = artifact]
  /\ evidence' = [evidence EXCEPT ![c] = NoEvidence]

\* commit() up to its await of the upload: nothing leaves for a bad argument.
Commit(c) ==
  /\ commit[c] = "idle"
  /\ IF given[c].valid
     THEN /\ commit' = [commit EXCEPT ![c] = "posting"]
          /\ operation' = [operation EXCEPT ![c] = OperationKey(c)]
          /\ posts' = posts \cup {c}
          /\ UNCHANGED <<evidence, committed>>
     ELSE Finishes(c, NoArtifact) /\ UNCHANGED <<operation, posts>>
  /\ UNCHANGED <<given, minting, stored>>

\* Mutation of CommitAnswered: the digest in the evidence is not compared.
CommitTrusting(c) ==
  /\ commit[c] = "posting"
  /\ evidence[c].kind # "none"
  /\ Finishes(c, evidence[c].artifact)
  /\ UNCHANGED <<given, minting, operation, posts, stored>>

\* The answer: JSON, a status, the exact shape, and evidence that is about the
\* bytes of this call (digest, media type, size); everything else is thrown.
CommitAnswered(c) ==
  /\ commit[c] = "posting"
  /\ evidence[c].kind # "none"
  /\ Finishes(c, IF /\ evidence[c].kind = "stored"
                    /\ evidence[c].artifact.content = given[c].content
                 THEN evidence[c].artifact ELSE NoArtifact)
  /\ UNCHANGED <<given, minting, operation, posts, stored>>

\* fetch rejects, or the body breaks off: the upload may be stored later.
CommitFails(c) ==
  /\ commit[c] = "posting"
  /\ Finishes(c, NoArtifact)
  /\ UNCHANGED <<given, minting, operation, posts, stored>>
-----------------------------------------------------------------------------
(***************************************************************************)
(* The ingress.                                                            *)
(***************************************************************************)
Hand(c, e) == evidence' = IF commit[c] = "posting"
                          THEN [evidence EXCEPT ![c] = e] ELSE evidence

StorageIdentity(c) ==
  IF minting = "operation" THEN operation[c] ELSE given[c].content

\* A new storage identity mints an artifact; a known one answers with its own,
\* or refuses other bytes.  An answer may be an error, or garbled.
Ingest(c) ==
  /\ posts' = posts \ {c}
  /\ \E artifact \in ArtifactSet :
       /\ artifact.uri = StorageIdentity(c)
       /\ \/ artifact \in stored
          \/ /\ artifact.content = given[c].content
             /\ \A other \in stored : other.uri # artifact.uri
       /\ stored' = stored \cup {artifact}
       /\ \/ Hand(c, [kind |-> "stored", artifact |-> artifact])
          \/ Hand(c, [kind |-> "rejected", artifact |-> NoArtifact])
  /\ UNCHANGED <<given, minting, commit, operation, committed>>

Reject(c) ==
  /\ posts' = posts \ {c}
  /\ Hand(c, [kind |-> "rejected", artifact |-> NoArtifact])
  /\ UNCHANGED <<given, minting, commit, operation, committed, stored>>

ServeUpload(c) == c \in posts /\ (Ingest(c) \/ Reject(c))
-----------------------------------------------------------------------------
\* The commitment a call returns names an artifact the ingress holds, and it
\* holds this call's own bytes, although the caller may have given one key to
\* two contents (artifacts.ts:46-47, 104-115).
CommitmentIsOwn ==
  \A c \in Commits : committed[c] # NoArtifact =>
    /\ committed[c] \in stored
    /\ committed[c].content = given[c].content

SavedTogether(c, d) == given[c].key = given[d].key /\ given[c].key # NoKey

\* "Every call is a new temporary commitment unless the caller supplies the same
\* idempotency key"; "content identity cannot be the operation identity"
\* (artifacts.ts:57-60).  What the client does for it: two uploads carry one
\* operation key only if both callers gave it, however equal the bytes.  What
\* comes of it depends on the ingress: two calls get one artifact only that way
\* where it mints by operation, and for equal bytes where it mints by content.
FreshUnlessKeyed ==
  \A c, d \in Commits : c # d =>
    /\ operation[c] # NoKey /\ operation[c] = operation[d] => SavedTogether(c, d)
    /\ committed[c] # NoArtifact /\ committed[c] = committed[d] =>
         \/ SavedTogether(c, d)
         \/ minting = "content" /\ given[c].content = given[d].content
=============================================================================
