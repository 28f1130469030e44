----------------------------- MODULE Promotion -----------------------------
(***************************************************************************)
(* scripts/promote-npm.mjs: runs of the promotion that move the `latest`   *)
(* tags of the public packages to the versions of a plan.  The registry    *)
(* has one primary copy of the tags and read replicas that lag behind it.  *)
(* The concurrency group of npm.yml:21-23 makes the runs of one ref take   *)
(* turns; those of two refs, and a publication, may overlap, and any two   *)
(* runs may here.                                                          *)
(*                                                                         *)
(* A run goes through its packages with an index, `at`: once to admit all  *)
(* of them, then again to write and verify them one by one.                *)
(***************************************************************************)
EXTENDS Naturals, Sequences, SequencesExt

CONSTANTS Directories,  \* the public packages, in the order of the script
          Manifests,    \* versions the packages have in a commit, and in its plan
          First,        \* the one of them that is published from the start
          Runs,         \* runs of the script
          Replicas,     \* read replicas of the registry
          None          \* no package

Packages == ToSet(Directories)
Sdk == Directories[1]
FrontDoor == Directories[2]
Versions == UNION {{m[p] : p \in Packages} : m \in Manifests}

\* Every commit has one version of every package.
ASSUME PromotionAssumption ==
  /\ Directories \in Seq(Packages)
  /\ Len(Directories) >= 2 /\ IsInjective(Directories)
  /\ Manifests \subseteq [Packages -> Versions]
  /\ First \in Manifests /\ None \notin Packages

VARIABLES published,  \* [Packages -> SUBSET Versions]
          latest,     \* the tags, as the primary copy has them
          replica,    \* the tags, as a replica has them
          pc,         \* where each run is
          job,        \* what it was dispatched with
          at,         \* the index of the package it is at
          previous,   \* previous_latest of the packages admitted so far
          late,       \* the deadline of verifyLatest has passed
          writes,     \* history: how often the run wrote each tag
          disturbed   \* history: others moved a tag meanwhile, or had moved
                      \* one that a replica had not caught up with
registry == <<published, latest, replica>>
run == <<pc, job, at, previous, late>>
vars == <<registry, run, writes, disturbed>>

\* The versions of the plan, and the package that does not fit it, if there is
\* one: its manifest in the checkout names another version, or is private, or
\* its published bytes are not those the plan commits to.
Jobs == [plan : Manifests, unfit : Packages \cup {None}, checkOnly : BOOLEAN]
NoJob == [plan |-> First, unfit |-> None, checkOnly |-> TRUE]

Running(j) == pc[j] \in {"admitting", "writing", "verifying"}

TypeOK ==
  /\ published \in [Packages -> SUBSET Versions]
  /\ latest \in [Packages -> Versions]
  /\ replica \in [Replicas -> [Packages -> Versions]]
  /\ pc \in [Runs -> {"idle", "admitting", "writing", "verifying", "verified",
                      "ready", "failed"}]
  /\ job \in [Runs -> Jobs]
  /\ at \in [Runs -> 1..Len(Directories)]
  /\ previous \in [Runs -> [Packages -> Versions]]
  /\ late \in [Runs -> BOOLEAN]
  /\ writes \in [Runs -> [Packages -> 0..2]]
  /\ disturbed \in [Runs -> BOOLEAN]

Init ==
  /\ published = [p \in Packages |-> {First[p]}]
  /\ latest = First /\ replica = [r \in Replicas |-> First]
  /\ pc = [j \in Runs |-> "idle"]
  /\ job = [j \in Runs |-> NoJob]
  /\ at = [j \in Runs |-> 1]
  /\ previous = [j \in Runs |-> First]
  /\ late = [j \in Runs |-> FALSE]
  /\ writes = [j \in Runs |-> [p \in Packages |-> 0]]
  /\ disturbed = [j \in Runs |-> FALSE]
-----------------------------------------------------------------------------
(***************************************************************************)
(* The registry.                                                           *)
(***************************************************************************)
Move(p, v, others) ==
  /\ latest' = [latest EXCEPT ![p] = v]
  /\ disturbed' = [j \in Runs |-> disturbed[j] \/ (j \in others /\ Running(j))]

\* A pushed tag publishes one package; npm publish moves `latest` by itself.
Publish(p, v) ==
  /\ v \notin published[p]
  /\ published' = [published EXCEPT ![p] = @ \cup {v}]
  /\ Move(p, v, Runs)
  /\ UNCHANGED <<replica, run, writes>>

Replicate(r, p) ==
  /\ replica[r][p] # latest[p]
  /\ replica' = [replica EXCEPT ![r][p] = latest[p]]
  /\ UNCHANGED <<published, latest, run, writes, disturbed>>
-----------------------------------------------------------------------------
(***************************************************************************)
(* The script.                                                             *)
(***************************************************************************)
Package(j) == Directories[at[j]]
Version(j) == job[j].plan[Package(j)]
AtLast(j) == at[j] = Len(Directories)

Goto(j, l) == pc' = [pc EXCEPT ![j] = l]
Advance(j) == at' = [at EXCEPT ![j] = @ + 1]

\* A plan that is not one entry for each package is refused before anything else.
Dispatch(j) ==
  /\ pc[j] = "idle"
  /\ \/ /\ \E d \in Jobs : job' = [job EXCEPT ![j] = d]
        /\ Goto(j, "admitting")
     \/ Goto(j, "failed") /\ UNCHANGED job
  /\ disturbed' = [disturbed EXCEPT ![j] = \E r \in Replicas : replica[r] # latest]
  /\ UNCHANGED <<registry, at, previous, late, writes>>

\* The manifest, the published version and its bytes are those of the plan.
Admissible(j) == /\ Package(j) # job[j].unfit
                 /\ Version(j) \in published[Package(j)]

\* Mutation of AdmitPackage: the index is not reset, only the last is written.
AdmitNoReset(j) ==
  /\ pc[j] = "admitting" /\ Admissible(j)
  /\ \E r \in Replicas :
       previous' = [previous EXCEPT ![j][Package(j)] = replica[r][Package(j)]]
  /\ IF ~AtLast(j) THEN Advance(j) /\ UNCHANGED pc
     ELSE UNCHANGED at /\ Goto(j, IF job[j].checkOnly THEN "ready" ELSE "writing")
  /\ UNCHANGED <<registry, job, late, writes, disturbed>>

\* Mutation of AdmitPackage: each package is written as soon as it is admitted.
AdmitAndWrite(j) ==
  /\ pc[j] = "admitting" /\ Admissible(j)
  /\ Move(Package(j), Version(j), Runs \ {j})
  /\ writes' = [writes EXCEPT ![j][Package(j)] = 1]
  /\ previous' = [previous EXCEPT ![j][Package(j)] = Version(j)]
  /\ IF ~AtLast(j) THEN Advance(j) /\ UNCHANGED pc
     ELSE at' = [at EXCEPT ![j] = 1] /\ Goto(j, "writing")
  /\ UNCHANGED <<published, replica, job, late>>

\* The tag is read from any replica.  The set is published for good, so that
\* the reads of a package make one step.
AdmitPackage(j) ==
  /\ pc[j] = "admitting" /\ Admissible(j)
  /\ \E r \in Replicas :
       previous' = [previous EXCEPT ![j][Package(j)] = replica[r][Package(j)]]
  /\ IF ~AtLast(j) THEN Advance(j) /\ UNCHANGED pc
     ELSE /\ at' = [at EXCEPT ![j] = 1]
          /\ Goto(j, IF job[j].checkOnly THEN "ready" ELSE "writing")
  /\ UNCHANGED <<registry, job, late, writes, disturbed>>

NotAdmitted(j) ==
  /\ pc[j] = "admitting" /\ ~Admissible(j)
  /\ Goto(j, "failed")
  /\ UNCHANGED <<registry, job, at, previous, late, writes, disturbed>>

Verify(j) == Goto(j, "verifying") /\ late' = [late EXCEPT ![j] = FALSE]

\* The tag was there already when the package was admitted.
SkipWrite(j) ==
  /\ pc[j] = "writing" /\ previous[j][Package(j)] = Version(j)
  /\ Verify(j)
  /\ UNCHANGED <<registry, job, at, previous, writes, disturbed>>

AddTag(j) == /\ Move(Package(j), Version(j), Runs \ {j})
             /\ writes' = [writes EXCEPT ![j][Package(j)] = @ + 1]

\* Mutation of WriteTag: the tags are written from the last to the first.
WriteReversed(j) ==
  /\ pc[j] = "writing"
  /\ LET p == Directories[Len(Directories) + 1 - at[j]]
     IN /\ previous[j][p] # job[j].plan[p]
        /\ Move(p, job[j].plan[p], Runs \ {j})
        /\ writes' = [writes EXCEPT ![j][p] = @ + 1]
  /\ Verify(j)
  /\ UNCHANGED <<published, replica, job, at, previous>>

WriteTag(j) ==
  /\ pc[j] = "writing" /\ previous[j][Package(j)] # Version(j)
  /\ AddTag(j)
  /\ Verify(j)
  /\ UNCHANGED <<published, replica, job, at, previous>>

\* npm exits with an error, whether the registry took the tag or not.
WriteFails(j) ==
  /\ pc[j] = "writing" /\ previous[j][Package(j)] # Version(j)
  /\ AddTag(j) \/ UNCHANGED <<latest, disturbed, writes>>
  /\ Goto(j, "failed")
  /\ UNCHANGED <<published, replica, job, at, previous, late>>

\* Mutation of TagVerified: the loop does not end with the last package.
TagVerifiedOnwards(j) ==
  /\ pc[j] = "verifying"
  /\ \E r \in Replicas : replica[r][Package(j)] = Version(j)
  /\ Goto(j, "writing") /\ Advance(j)
  /\ UNCHANGED <<registry, job, previous, late, writes, disturbed>>

\* A replica answers with the version of the plan.
TagVerified(j) ==
  /\ pc[j] = "verifying"
  /\ \E r \in Replicas : replica[r][Package(j)] = Version(j)
  /\ IF AtLast(j) THEN Goto(j, "verified") /\ UNCHANGED at
     ELSE Goto(j, "writing") /\ Advance(j)
  /\ UNCHANGED <<registry, job, previous, late, writes, disturbed>>

DeadlinePasses(j) ==
  /\ pc[j] = "verifying" /\ ~late[j]
  /\ late' = [late EXCEPT ![j] = TRUE]
  /\ UNCHANGED <<registry, pc, job, at, previous, writes, disturbed>>

OtherVersionRead(j) == \E r \in Replicas : replica[r][Package(j)] # Version(j)

\* Mutation of VerifyExpires: a tag that is not there in time is written again.
WriteAgain(j) ==
  /\ pc[j] = "verifying" /\ late[j] /\ OtherVersionRead(j) /\ writes[j][Package(j)] < 2
  /\ AddTag(j)
  /\ Verify(j)
  /\ UNCHANGED <<published, replica, job, at, previous>>

\* Mutation of VerifyExpires: every retry has a deadline of its own.
RetryWithoutEnd(j) ==
  /\ pc[j] = "verifying" /\ late[j] /\ OtherVersionRead(j)
  /\ Verify(j)
  /\ UNCHANGED <<registry, job, at, previous, writes, disturbed>>

VerifyExpires(j) ==
  /\ pc[j] = "verifying" /\ late[j] /\ OtherVersionRead(j)
  /\ Goto(j, "failed")
  /\ UNCHANGED <<registry, job, at, previous, late, writes, disturbed>>

\* A read fails or times out, npm is too old, or the runner is gone.
Stops(j) ==
  /\ Running(j)
  /\ Goto(j, "failed")
  /\ UNCHANGED <<registry, job, at, previous, late, writes, disturbed>>

Rest == (\A j \in Runs : pc[j] # "idle" /\ ~Running(j)) /\ UNCHANGED vars
-----------------------------------------------------------------------------
Step(j) == \/ AdmitPackage(j) \/ NotAdmitted(j)
           \/ SkipWrite(j) \/ WriteTag(j) \/ WriteFails(j)
           \/ TagVerified(j) \/ DeadlinePasses(j) \/ VerifyExpires(j)

Next == \/ \E j \in Runs : Dispatch(j) \/ Step(j) \/ Stops(j)
        \/ \E p \in Packages : \E v \in Versions : Publish(p, v)
        \/ \E r \in Replicas, p \in Packages : Replicate(r, p)
        \/ Rest

Spec == Init /\ [][Next]_vars

\* Fairness.  The script runs and its clock goes on: reads settle (20 seconds
\* each) and the deadline passes.  Nobody has to publish or to dispatch, and a
\* replica may lag for good.
FairSpec == Spec /\ \A j \in Runs : WF_vars(Step(j))
-----------------------------------------------------------------------------
\* "Admit the entire set before the first tag write": a run has written a tag
\* only if every package of its plan is published, with the bytes and at the
\* version it commits to; `--check` writes nothing (promote-npm.mjs:44-62).
WholeSetAdmitted ==
  \A j \in Runs : (\E p \in Packages : writes[j][p] > 0) =>
    /\ ~job[j].checkOnly /\ job[j].unfit = None
    /\ \A p \in Packages : job[j].plan[p] \in published[p]

\* "verified" is true although only replicas were read and a write was left out
\* on what they said: if nobody else moved a tag meanwhile, and no replica
\* lagged when the run began, the tags are those of the plan (63-69).
VerifiedIsLatest ==
  [][\A j \in Runs :
       pc[j] # "verified" /\ pc'[j] = "verified" /\ ~disturbed[j]
         => latest = job[j].plan]_vars

\* "The SDK goes first because the front door consumes it": when an undisturbed
\* run moves the front door, the SDK is where the plan has it, and a replica
\* shows it; a run that stops in between leaves the front door behind, not ahead
\* (44-45, 62-67).
SdkFirst ==
  [][\A j \in Runs :
       (~disturbed[j] /\ writes'[j][FrontDoor] > writes[j][FrontDoor]) =>
         /\ latest[Sdk] = job[j].plan[Sdk]
         /\ \E r \in Replicas : replica[r][Sdk] = job[j].plan[Sdk]]_vars

\* "Retry reads only; repeating the write would obscure an ambiguous provider
\* outcome": a run writes no tag twice, and none after a write that failed
\* (31-33, 62-67).
WrittenOnce == \A j \in Runs : \A p \in Packages : writes[j][p] <= 1

\* A run ends, in error when a replica does not catch up in time (33-41).
RunEnds == \A j \in Runs : Running(j) ~> ~Running(j)
=============================================================================
