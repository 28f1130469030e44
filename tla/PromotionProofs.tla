-------------------------- MODULE PromotionProofs --------------------------
(***************************************************************************)
(* What Promotion promises, proved for every list of packages, every set   *)
(* of commits, and any number of runs and replicas: a run writes nothing   *)
(* before it has admitted everything, writes no tag twice, and what it     *)
(* verifies is so if nobody disturbed it.                                  *)
(***************************************************************************)
EXTENDS Promotion, TLAPS

Places == 1..Len(Directories)

\* The manifest, the published version and its bytes are those of the plan.
Fits(j, p) == p # job[j].unfit /\ job[j].plan[p] \in published[p]

\* A run admits the packages in order, and the whole set before it writes.
Admitted ==
  \A j \in Runs :
    /\ pc[j] = "idle" => at[j] = 1
    /\ pc[j] \in {"idle", "admitting", "ready"} => \A p \in Packages : writes[j][p] = 0
    /\ pc[j] = "admitting" => \A i \in Places : i < at[j] => Fits(j, Directories[i])
    /\ pc[j] \in {"writing", "verifying"} \/ (\E p \in Packages : writes[j][p] > 0) =>
         ~job[j].checkOnly /\ \A p \in Packages : Fits(j, p)

\* The index never goes back while a run writes: what is before it may have
\* been written once, what is after it was not.
Once ==
  \A j \in Runs : \A i \in Places :
    /\ writes[j][Directories[i]] <= 1
    /\ pc[j] = "writing" /\ i >= at[j] => writes[j][Directories[i]] = 0
    /\ pc[j] = "verifying" /\ i > at[j] => writes[j][Directories[i]] = 0

\* A package is through: its tag is that of the plan, and a replica shows it.
Through(j, p) == /\ latest[p] = job[j].plan[p]
                 /\ \E r \in Replicas : replica[r][p] = job[j].plan[p]

\* A run that nobody disturbs knows the tags: what it read of those it has not
\* come to is still true, and those it has left are the plan's.
Remembered(j, p) == previous[j][p] = latest[p]
KnownAt(j, i) ==
  LET p == Directories[i]
  IN /\ pc[j] = "admitting" /\ i < at[j] => Remembered(j, p)
     /\ pc[j] = "writing" => IF i < at[j] THEN Through(j, p) ELSE Remembered(j, p)
     /\ pc[j] = "verifying" => /\ i < at[j] => Through(j, p)
                               /\ i = at[j] => latest[p] = job[j].plan[p]
                               /\ i > at[j] => Remembered(j, p)
Known ==
  \A j \in Runs : ~disturbed[j] =>
    /\ pc[j] = "admitting" =>
         \A r \in Replicas : \A p \in Packages : replica[r][p] = latest[p]
    /\ \A i \in Places : KnownAt(j, i)

IInv == TypeOK /\ Admitted /\ Once /\ Known
-----------------------------------------------------------------------------
LEMMA PlacesOfPackages ==
  /\ Len(Directories) \in Nat /\ Len(Directories) >= 2
  /\ \A i \in Places : Directories[i] \in Packages
  /\ \A p \in Packages : \E i \in Places : p = Directories[i]
  /\ \A i, k \in Places : Directories[i] = Directories[k] => i = k
  BY PromotionAssumption DEF Places, Packages, ToSet, IsInjective

(***************************************************************************)
(* What a step does: to the run that makes it, and to the others.          *)
(***************************************************************************)
OwnStep(j) == Dispatch(j) \/ Step(j) \/ Stops(j)

LEMMA Steps ==
  ASSUME [Next]_vars
  PROVE  \/ \E j \in Runs : OwnStep(j)
         \/ \E p \in Packages, v \in Versions : Publish(p, v)
         \/ \E r \in Replicas, p \in Packages : Replicate(r, p)
         \/ UNCHANGED vars
  BY DEF Next, Rest, OwnStep

Quiet(j) == latest' = latest /\ writes'[j] = writes[j]

Writes(j) ==
  /\ pc[j] = "writing" /\ previous[j][Package(j)] # Version(j)
  /\ latest' = [latest EXCEPT ![Package(j)] = Version(j)]
  /\ writes'[j] = [writes[j] EXCEPT ![Package(j)] = @ + 1]

\* How a run moves, by what it has after the step.
Moves(j) ==
  \/ /\ pc[j] = "idle" /\ pc'[j] = "admitting" /\ job'[j] \in Jobs
     /\ at'[j] = at[j] /\ previous'[j] = previous[j] /\ Quiet(j)
     /\ disturbed'[j] = (\E r \in Replicas : replica[r] # latest)
  \/ /\ pc'[j] = "failed" /\ job'[j] = job[j] /\ at'[j] = at[j]
     /\ previous'[j] = previous[j] /\ disturbed'[j] \in BOOLEAN
     /\ Quiet(j) \/ Writes(j)
  \/ /\ job'[j] = job[j] /\ disturbed'[j] = disturbed[j]
     /\ \/ /\ pc[j] = "admitting" /\ Admissible(j) /\ Quiet(j)
           /\ \E r \in Replicas :
                previous'[j] = [previous[j] EXCEPT ![Package(j)] = replica[r][Package(j)]]
           /\ \/ ~AtLast(j) /\ pc'[j] = "admitting" /\ at'[j] = at[j] + 1
              \/ /\ AtLast(j) /\ at'[j] = 1
                 /\ pc'[j] = IF job[j].checkOnly THEN "ready" ELSE "writing"
        \/ /\ pc[j] = "writing" /\ pc'[j] = "verifying" /\ at'[j] = at[j]
           /\ previous'[j] = previous[j]
           /\ \/ Quiet(j) /\ previous[j][Package(j)] = Version(j)
              \/ Writes(j)
        \/ /\ pc[j] = "verifying" /\ Quiet(j) /\ previous'[j] = previous[j]
           /\ \E r \in Replicas : replica[r][Package(j)] = Version(j)
           /\ \/ AtLast(j) /\ pc'[j] = "verified" /\ at'[j] = at[j]
              \/ ~AtLast(j) /\ pc'[j] = "writing" /\ at'[j] = at[j] + 1
        \/ /\ pc[j] = "verifying" /\ pc'[j] = "verifying" /\ Quiet(j)
           /\ at'[j] = at[j] /\ previous'[j] = previous[j]

LEMMA StepMoves ==
  ASSUME TypeOK, NEW j \in Runs, OwnStep(j)
  PROVE  Moves(j)
<1> USE DEF TypeOK
<1>1. CASE Dispatch(j)
  BY <1>1 DEF Dispatch, Goto, registry, Moves, Quiet
<1>2. CASE Stops(j) \/ NotAdmitted(j) \/ VerifyExpires(j)
  BY <1>2 DEF Stops, NotAdmitted, VerifyExpires, Goto, registry, Moves, Quiet
<1>3. CASE AdmitPackage(j)
  BY <1>3 DEF AdmitPackage, Goto, Advance, AtLast, registry, Moves, Quiet
<1>4. CASE SkipWrite(j)
  BY <1>4 DEF SkipWrite, Verify, Goto, registry, Moves, Quiet
<1>5. CASE WriteTag(j)
  <2>1. Writes(j) /\ disturbed'[j] = disturbed[j]
    BY <1>5 DEF WriteTag, AddTag, Move, Writes
  <2>2. QED
    BY <1>5, <2>1 DEF WriteTag, Verify, Goto, Moves
<1>6. CASE WriteFails(j)
  <2>1. AddTag(j) => Writes(j) /\ disturbed'[j] \in BOOLEAN
    BY <1>6 DEF WriteFails, AddTag, Move, Writes
  <2>2. QED
    BY <1>6, <2>1 DEF WriteFails, Goto, Moves, Quiet
<1>7. CASE TagVerified(j)
  BY <1>7 DEF TagVerified, Goto, Advance, AtLast, registry, Moves, Quiet
<1>8. CASE DeadlinePasses(j)
  BY <1>8 DEF DeadlinePasses, registry, Moves, Quiet
<1>9. QED
  BY <1>1, <1>2, <1>3, <1>4, <1>5, <1>6, <1>7, <1>8 DEF OwnStep, Step

\* A run leaves the replicas, the publications and the other runs alone; it
\* disturbs those that are under way when it writes.
LEMMA StepKeeps ==
  ASSUME TypeOK, NEW j \in Runs, OwnStep(j)
  PROVE  /\ UNCHANGED <<published, replica>>
         /\ \A k \in Runs : k # j =>
              /\ pc'[k] = pc[k] /\ job'[k] = job[k] /\ at'[k] = at[k]
              /\ previous'[k] = previous[k] /\ writes'[k] = writes[k]
              /\ ~disturbed'[k] => ~disturbed[k] /\ (latest' = latest \/ ~Running(k))
<1> USE DEF TypeOK
<1>1. CASE Dispatch(j)
  BY <1>1 DEF Dispatch, Goto, registry
<1>2. CASE Stops(j) \/ NotAdmitted(j) \/ VerifyExpires(j) \/ DeadlinePasses(j)
  BY <1>2 DEF Stops, NotAdmitted, VerifyExpires, DeadlinePasses, Goto, registry
<1>3. CASE AdmitPackage(j) \/ TagVerified(j) \/ SkipWrite(j)
  BY <1>3 DEF AdmitPackage, TagVerified, SkipWrite, Verify, Goto, Advance, registry
<1>4. CASE WriteTag(j) \/ WriteFails(j)
  <2>1. ASSUME AddTag(j), NEW k \in Runs, k # j
        PROVE  writes'[k] = writes[k] /\ (~disturbed'[k] => ~disturbed[k] /\ ~Running(k))
    BY <2>1 DEF AddTag, Move
  <2>2. QED
    BY <1>4, <2>1 DEF WriteTag, WriteFails, Verify, Goto
<1>5. QED
  BY <1>1, <1>2, <1>3, <1>4 DEF OwnStep, Step

\* A publication moves one tag, and every run under way is disturbed by it.
LEMMA Published ==
  ASSUME TypeOK, NEW p \in Packages, NEW v \in Versions, Publish(p, v)
  PROVE  /\ \A q \in Packages : published[q] \subseteq published'[q]
         /\ UNCHANGED <<replica, run, writes>>
         /\ \A k \in Runs : ~disturbed'[k] => ~disturbed[k] /\ ~Running(k)
  BY DEF TypeOK, Publish, Move

LEMMA Replicated ==
  ASSUME TypeOK, NEW r \in Replicas, NEW p \in Packages, Replicate(r, p)
  PROVE  /\ UNCHANGED <<published, latest, run, writes, disturbed>>
         /\ \A s \in Replicas : \A q \in Packages :
              replica'[s][q] = IF s = r /\ q = p THEN latest[p] ELSE replica[s][q]
  BY DEF TypeOK, Replicate
-----------------------------------------------------------------------------
(***************************************************************************)
(* The invariant, part by part.                                            *)
(***************************************************************************)
LEMMA Begins == Init => IInv
<1> SUFFICES ASSUME Init PROVE IInv
  OBVIOUS
<1>1. First \in [Packages -> Versions] /\ NoJob \in Jobs
  BY PromotionAssumption DEF NoJob, Jobs
<1>2. TypeOK
  BY <1>1, PlacesOfPackages DEF Init, TypeOK
<1>3. Admitted /\ Once /\ Known
  BY PlacesOfPackages DEF Init, Admitted, Once, Known, KnownAt, Places
<1>4. QED
  BY <1>2, <1>3 DEF IInv

\* The package a run is at, and the version of it in its plan.
LEMMA PackageTyped ==
  ASSUME TypeOK, NEW j \in Runs
  PROVE  /\ at[j] \in Places /\ Package(j) \in Packages /\ Version(j) \in Versions
         /\ ~AtLast(j) => at[j] + 1 \in Places
         /\ AtLast(j) => \A i \in Places : i <= at[j]
<1>1. at[j] \in Places /\ Package(j) \in Packages
  BY PlacesOfPackages DEF TypeOK, Package, Places
<1>2. Version(j) \in Versions
  BY <1>1, PromotionAssumption DEF TypeOK, Jobs, Version
<1>3. QED
  BY <1>1, <1>2, PlacesOfPackages DEF AtLast, Places

LEMMA TypesKept ==
  ASSUME IInv, [Next]_vars
  PROVE  TypeOK'
<1> USE DEF IInv
<1>1. ASSUME NEW j \in Runs, OwnStep(j) PROVE TypeOK'
  <2> USE DEF TypeOK
  <2>0. /\ at[j] \in Places /\ Package(j) \in Packages /\ Version(j) \in Versions
        /\ ~AtLast(j) => at[j] + 1 \in Places
        /\ 1 \in Places
    BY PackageTyped, PlacesOfPackages DEF Places
  <2>1. CASE Dispatch(j)
    BY <2>1 DEF Dispatch, Goto, registry
  <2>2. CASE Stops(j) \/ NotAdmitted(j) \/ VerifyExpires(j) \/ DeadlinePasses(j)
    BY <2>2 DEF Stops, NotAdmitted, VerifyExpires, DeadlinePasses, Goto, registry
  <2>3. CASE AdmitPackage(j)
    <3>1. \A r \in Replicas : replica[r][Package(j)] \in Versions
      BY <2>0
    <3>2. previous' \in [Runs -> [Packages -> Versions]]
      BY <2>0, <2>3, <3>1 DEF AdmitPackage
    <3>3. at' \in [Runs -> Places]
      BY <2>0, <2>3 DEF AdmitPackage, Advance, Places
    <3>4. pc' \in [Runs -> {"idle", "admitting", "writing", "verifying",
                            "verified", "ready", "failed"}]
      BY <2>3 DEF AdmitPackage, Goto
    <3>5. QED
      BY <2>3, <3>2, <3>3, <3>4 DEF AdmitPackage, registry, Places
  <2>4. CASE SkipWrite(j)
    BY <2>4 DEF SkipWrite, Verify, Goto, registry
  <2>5. CASE WriteTag(j) \/ WriteFails(j)
    <3>1. writes[j][Package(j)] = 0
      BY <2>0, <2>5 DEF WriteTag, WriteFails, Once, Package, Places
    <3>2. AddTag(j) => writes' \in [Runs -> [Packages -> 0..2]]
      BY <2>0, <3>1 DEF AddTag
    <3>3. AddTag(j) => /\ latest' \in [Packages -> Versions]
                       /\ disturbed' \in [Runs -> BOOLEAN]
      BY <2>0 DEF AddTag, Move
    <3>4. pc' \in [Runs -> {"idle", "admitting", "writing", "verifying",
                            "verified", "ready", "failed"}]
          /\ late' \in [Runs -> BOOLEAN]
      BY <2>5 DEF WriteTag, WriteFails, Verify, Goto
    <3>5. QED
      BY <2>5, <3>2, <3>3, <3>4 DEF WriteTag, WriteFails
  <2>6. CASE TagVerified(j)
    BY <2>0, <2>6 DEF TagVerified, Goto, Advance, registry, Places
  <2>7. QED
    BY <1>1, <2>1, <2>2, <2>3, <2>4, <2>5, <2>6 DEF OwnStep, Step
<1>2. ASSUME NEW p \in Packages, NEW v \in Versions, Publish(p, v) PROVE TypeOK'
  BY <1>2 DEF TypeOK, Publish, Move, run
<1>3. ASSUME NEW r \in Replicas, NEW p \in Packages, Replicate(r, p) PROVE TypeOK'
  BY <1>3 DEF TypeOK, Replicate, run
<1>4. CASE UNCHANGED vars
  BY <1>4 DEF TypeOK, vars, registry, run
<1>5. QED
  BY <1>1, <1>2, <1>3, <1>4, Steps

LEMMA AdmittedKept ==
  ASSUME IInv, [Next]_vars
  PROVE  Admitted'
<1> USE DEF IInv
<1>1. ASSUME NEW j \in Runs, OwnStep(j) PROVE Admitted'
  <2>1. published' = published /\ Moves(j)
    BY <1>1, StepKeeps, StepMoves
  <2>2. \A k \in Runs : \A p \in Packages : job'[k] = job[k] => Fits(k, p)' = Fits(k, p)
    BY <2>1 DEF Fits
  <2>3. ASSUME NEW k \in Runs, k # j
        PROVE  /\ pc'[k] = pc[k] /\ job'[k] = job[k] /\ at'[k] = at[k]
               /\ writes'[k] = writes[k]
    BY <1>1, <2>3, StepKeeps
  <2>4. /\ at[j] \in Places /\ Package(j) \in Packages
        /\ AtLast(j) => \A i \in Places : i <= at[j]
    BY PackageTyped
  <2>5. pc'[j] = "idle" => at'[j] = 1
    BY <2>1 DEF Moves
  <2>6. pc'[j] \in {"idle", "admitting", "ready"} =>
          \A p \in Packages : writes'[j][p] = 0
    BY <2>1 DEF Moves, Quiet, Admitted
  <2>7. Admissible(j) => Fits(j, Package(j))
    BY DEF Admissible, Fits, Version
  <2>8. pc'[j] = "admitting" => \A i \in Places : i < at'[j] => Fits(j, Directories[i])'
    <3>1. CASE pc[j] = "idle"
      BY <2>1, <3>1 DEF Moves, Admitted, Places
    <3>2. CASE pc[j] = "admitting" /\ pc'[j] = "admitting"
      <4>1. at'[j] = at[j] + 1 /\ Admissible(j) /\ job'[j] = job[j]
        BY <2>1, <3>2 DEF Moves
      <4>2. \A i \in Places : i < at[j] + 1 => Fits(j, Directories[i])
        BY <2>4, <2>7, <3>2, <4>1 DEF Admitted, Package, Places
      <4>3. QED
        BY <2>2, <4>1, <4>2, PlacesOfPackages
    <3>3. QED
      BY <2>1, <3>1, <3>2 DEF Moves
  <2>9. ASSUME pc'[j] \in {"writing", "verifying"} \/ \E p \in Packages : writes'[j][p] > 0
        PROVE  ~job'[j].checkOnly /\ \A p \in Packages : Fits(j, p)'
    <3>1. CASE pc[j] = "admitting" /\ pc'[j] = "writing"
      <4>1. AtLast(j) /\ Admissible(j) /\ job'[j] = job[j] /\ ~job[j].checkOnly
        BY <2>1, <3>1 DEF Moves
      <4>2. \A i \in Places : Fits(j, Directories[i])
        BY <2>4, <2>7, <3>1, <4>1 DEF Admitted, Package, Places
      <4>3. \A p \in Packages : Fits(j, p)
        BY <4>2, PlacesOfPackages
      <4>4. QED
        BY <2>2, <4>1, <4>3
    <3>2. CASE pc[j] \in {"writing", "verifying"}
      BY <2>1, <2>2, <3>2 DEF Moves, Admitted
    <3>3. CASE pc[j] \in {"idle", "admitting"} /\ pc'[j] # "writing"
      <4>1. writes'[j] = writes[j] /\ pc'[j] \notin {"writing", "verifying"}
        BY <2>1, <3>3 DEF Moves, Quiet, Writes
      <4>2. \A p \in Packages : writes[j][p] = 0
        BY <3>3 DEF Admitted
      <4>3. QED
        BY <2>9, <4>1, <4>2
    <3>4. CASE pc[j] \notin {"idle", "admitting", "writing", "verifying"}
      BY <2>1, <2>2, <2>9, <3>4 DEF Moves, Admitted, Quiet, Writes
    <3>5. QED
      BY <2>1, <3>1, <3>2, <3>3, <3>4 DEF Moves
  <2>10. QED
    BY <2>2, <2>3, <2>5, <2>6, <2>8, <2>9, PlacesOfPackages DEF Admitted
<1>2. ASSUME NEW q \in Packages, NEW v \in Versions, Publish(q, v) PROVE Admitted'
  <2>1. \A k \in Runs : \A p \in Packages : Fits(k, p) => Fits(k, p)'
    BY <1>2, Published DEF Fits, run
  <2>2. QED
    BY <1>2, <2>1, Published, PlacesOfPackages DEF Admitted, run
<1>3. ASSUME NEW r \in Replicas, NEW q \in Packages, Replicate(r, q) PROVE Admitted'
  BY <1>3, Replicated DEF Admitted, Fits, run
<1>4. CASE UNCHANGED vars
  BY <1>4 DEF vars, registry, run, Admitted, Fits
<1>5. QED
  BY <1>1, <1>2, <1>3, <1>4, Steps

LEMMA OnceKept ==
  ASSUME IInv, [Next]_vars
  PROVE  Once'
<1> USE DEF IInv
<1>1. ASSUME NEW j \in Runs, OwnStep(j) PROVE Once'
  <2>1. Moves(j)
    BY <1>1, StepMoves
  <2>2. ASSUME NEW k \in Runs, k # j
        PROVE  pc'[k] = pc[k] /\ at'[k] = at[k] /\ writes'[k] = writes[k]
    BY <1>1, <2>2, StepKeeps
  <2>3. ASSUME NEW i \in Places
        PROVE  /\ writes'[j][Directories[i]] <= 1
               /\ pc'[j] = "writing" /\ i >= at'[j] => writes'[j][Directories[i]] = 0
               /\ pc'[j] = "verifying" /\ i > at'[j] => writes'[j][Directories[i]] = 0
    <3>0. /\ at[j] \in Places /\ i \in Nat /\ at[j] \in Nat
          /\ writes[j] \in [Packages -> 0..2] /\ Directories[i] \in Packages
          /\ (Package(j) = Directories[i] <=> at[j] = i)
      BY PackageTyped, PlacesOfPackages DEF TypeOK, Package, Places
    <3>1. CASE Writes(j)
      <4>1. writes[j][Package(j)] = 0
        BY <3>0, <3>1 DEF Writes, Once, Package
      <4>2. /\ i = at[j] => writes'[j][Directories[i]] = 1
            /\ i # at[j] => writes'[j][Directories[i]] = writes[j][Directories[i]]
        BY <3>0, <3>1, <4>1 DEF Writes
      <4>3. pc[j] = "writing" /\ at'[j] = at[j] /\ pc'[j] \in {"verifying", "failed"}
        BY <2>1, <3>1 DEF Moves, Writes, Quiet
      <4>4. QED
        BY <3>0, <4>2, <4>3 DEF Once
    <3>2. CASE writes'[j] = writes[j]
      <4>1. CASE pc[j] \in {"idle", "admitting"}
        BY <2>1, <3>0, <3>2, <4>1 DEF Moves, Writes, Admitted
      <4>2. CASE pc[j] = "writing"
        BY <2>1, <3>0, <3>2, <4>2 DEF Moves, Once
      <4>3. CASE pc[j] = "verifying"
        <5>1. CASE pc'[j] = "writing" /\ at'[j] = at[j] + 1
          BY <3>0, <3>2, <4>3, <5>1 DEF Once
        <5>2. CASE pc'[j] # "writing" /\ at'[j] = at[j]
          BY <3>0, <3>2, <4>3, <5>2 DEF Once
        <5>3. QED
          BY <2>1, <4>3, <5>1, <5>2 DEF Moves
      <4>4. CASE pc'[j] = "failed"
        BY <3>0, <3>2, <4>4 DEF Once
      <4>5. QED
        BY <2>1, <4>1, <4>2, <4>3, <4>4 DEF Moves
    <3>3. QED
      BY <2>1, <3>1, <3>2 DEF Moves, Quiet
  <2>4. QED
    BY <2>2, <2>3 DEF Once
<1>2. ASSUME NEW q \in Packages, NEW v \in Versions, Publish(q, v) PROVE Once'
  BY <1>2, Published DEF Once, run
<1>3. ASSUME NEW r \in Replicas, NEW q \in Packages, Replicate(r, q) PROVE Once'
  BY <1>3, Replicated DEF Once, run
<1>4. CASE UNCHANGED vars
  BY <1>4 DEF vars, registry, run, Once
<1>5. QED
  BY <1>1, <1>2, <1>3, <1>4, Steps

\* What a run leaves behind it when it moves on.
LEMMA OwnKnown ==
  ASSUME IInv, NEW j \in Runs, OwnStep(j), ~disturbed'[j], NEW i \in Places
  PROVE  KnownAt(j, i)'
<1> USE DEF IInv
<1> DEFINE p == Directories[i]
<1>1. Moves(j) /\ UNCHANGED replica
  BY StepMoves, StepKeeps
<1>2. /\ at[j] \in Places /\ at[j] \in Nat /\ i \in Nat /\ p \in Packages
      /\ Package(j) \in Packages /\ (Package(j) = p <=> at[j] = i)
      /\ AtLast(j) => i <= at[j]
      /\ i >= 1
  BY PackageTyped, PlacesOfPackages DEF TypeOK, Package, Places
<1>3. previous[j] \in [Packages -> Versions] /\ latest \in [Packages -> Versions]
  BY DEF TypeOK
<1>4. CASE pc'[j] \notin {"admitting", "writing", "verifying"}
  BY <1>4 DEF KnownAt
<1>5. CASE pc[j] = "idle" /\ pc'[j] = "admitting"
  <2>1. at'[j] = 1
    BY <1>1, <1>5 DEF Moves, Admitted
  <2>2. QED
    BY <1>2, <1>5, <2>1 DEF KnownAt
<1>6. CASE pc[j] = "admitting" /\ pc'[j] \in {"admitting", "writing"}
  <2>1. ~disturbed[j] /\ latest' = latest
    BY <1>1, <1>6 DEF Moves, Quiet
  <2>2. PICK r \in Replicas :
          previous'[j] = [previous[j] EXCEPT ![Package(j)] = replica[r][Package(j)]]
    BY <1>1, <1>6 DEF Moves
  <2>3. replica[r][Package(j)] = latest[Package(j)]
    BY <1>2, <1>6, <2>1 DEF Known
  <2>4. i < at[j] => previous[j][p] = latest[p]
    BY <1>6, <2>1 DEF Known, KnownAt, Remembered
  <2>5. i <= at[j] => previous'[j][p] = latest'[p]
    BY <1>2, <1>3, <2>1, <2>2, <2>3, <2>4
  <2>6. \/ pc'[j] = "admitting" /\ at'[j] = at[j] + 1
        \/ pc'[j] = "writing" /\ at'[j] = 1 /\ AtLast(j)
    BY <1>1, <1>6 DEF Moves
  <2>7. QED
    BY <1>2, <2>5, <2>6 DEF KnownAt, Remembered
<1>7. CASE pc[j] = "writing" /\ pc'[j] = "verifying"
  <2>1. ~disturbed[j] /\ at'[j] = at[j] /\ job'[j] = job[j]
        /\ previous'[j] = previous[j]
    BY <1>1, <1>7 DEF Moves
  <2>2. /\ i < at[j] => Through(j, p)
        /\ i >= at[j] => Remembered(j, p)
    BY <1>2, <1>7, <2>1 DEF Known, KnownAt
  <2>3. /\ i # at[j] => latest'[p] = latest[p]
        /\ i = at[j] => latest'[p] = job[j].plan[p]
    <3>1. CASE Writes(j)
      BY <1>2, <1>3, <3>1 DEF Writes, Version
    <3>2. CASE Quiet(j) /\ previous[j][Package(j)] = Version(j)
      BY <1>2, <2>2, <3>2 DEF Quiet, Version, Remembered
    <3>3. QED
      BY <1>1, <1>7, <3>1, <3>2 DEF Moves
  <2>4. QED
    BY <1>1, <1>2, <1>7, <2>1, <2>2, <2>3 DEF KnownAt, Through, Remembered
<1>8. CASE pc[j] = "verifying" /\ pc'[j] = "writing"
  <2>1. /\ ~disturbed[j] /\ at'[j] = at[j] + 1 /\ job'[j] = job[j]
        /\ previous'[j] = previous[j] /\ latest' = latest
        /\ \E r \in Replicas : replica[r][Package(j)] = Version(j)
    BY <1>1, <1>8 DEF Moves, Quiet
  <2>2. /\ i <= at[j] => Through(j, p)
        /\ i > at[j] => Remembered(j, p)
    BY <1>2, <1>8, <2>1 DEF Known, KnownAt, Through, Version
  <2>3. QED
    BY <1>1, <1>2, <1>8, <2>1, <2>2 DEF KnownAt, Through, Remembered
<1>9. CASE pc[j] = "verifying" /\ pc'[j] = "verifying"
  BY <1>1, <1>9 DEF Moves, Quiet, Known, KnownAt, Through, Remembered
<1>10. QED
  BY <1>1, <1>4, <1>5, <1>6, <1>7, <1>8, <1>9 DEF Moves

LEMMA KnownKept ==
  ASSUME IInv, [Next]_vars
  PROVE  Known'
<1> USE DEF IInv
<1>1. ASSUME NEW j \in Runs, OwnStep(j) PROVE Known'
  <2>1. Moves(j) /\ UNCHANGED replica
    BY <1>1, StepMoves, StepKeeps
  <2>2. ASSUME NEW k \in Runs, k # j, ~disturbed'[k]
        PROVE  /\ pc'[k] = "admitting" =>
                    \A r \in Replicas : \A p \in Packages : replica'[r][p] = latest'[p]
               /\ \A i \in Places : KnownAt(k, i)'
    <3>1. /\ pc'[k] = pc[k] /\ job'[k] = job[k] /\ at'[k] = at[k]
          /\ previous'[k] = previous[k] /\ ~disturbed[k]
          /\ latest' = latest \/ ~Running(k)
      BY <1>1, <2>2, StepKeeps
    <3>2. CASE latest' = latest
      BY <2>1, <2>2, <3>1, <3>2 DEF Known, KnownAt, Through, Remembered
    <3>3. CASE ~Running(k)
      BY <3>1, <3>3 DEF Running, KnownAt
    <3>4. QED
      BY <3>1, <3>2, <3>3
  <2>3. ASSUME ~disturbed'[j], pc'[j] = "admitting"
        PROVE  \A r \in Replicas : \A p \in Packages : replica'[r][p] = latest'[p]
    <3>1. latest' = latest
      BY <2>1, <2>3 DEF Moves, Quiet
    <3>2. \A r \in Replicas : \A p \in Packages : replica[r][p] = latest[p]
      BY <2>1, <2>3 DEF Moves, Known
    <3>3. QED
      BY <2>1, <3>1, <3>2
  <2>4. QED
    BY <1>1, <2>2, <2>3, OwnKnown DEF Known
<1>2. ASSUME NEW q \in Packages, NEW v \in Versions, Publish(q, v) PROVE Known'
  BY <1>2, Published DEF Known, KnownAt, Running, run
<1>3. ASSUME NEW s \in Replicas, NEW q \in Packages, Replicate(s, q) PROVE Known'
  <2>1. /\ UNCHANGED <<latest, pc, job, at, previous, disturbed>>
        /\ \A r \in Replicas : \A p \in Packages :
             replica'[r][p] = IF r = s /\ p = q THEN latest[q] ELSE replica[r][p]
    BY <1>3, Replicated DEF run
  <2>2. \A j \in Runs : \A p \in Packages : Through(j, p) => Through(j, p)'
    BY <2>1 DEF Through
  <2>3. ASSUME NEW j \in Runs, ~disturbed[j], NEW i \in Places
        PROVE  KnownAt(j, i)'
    <3>1. KnownAt(j, i) /\ Directories[i] \in Packages
      BY <2>3, PlacesOfPackages DEF Known
    <3>2. QED
      BY <2>1, <2>2, <3>1 DEF KnownAt, Remembered
  <2>4. QED
    BY <2>1, <2>3 DEF Known
<1>4. CASE UNCHANGED vars
  BY <1>4 DEF vars, registry, run, Known, KnownAt, Through, Remembered
<1>5. QED
  BY <1>1, <1>2, <1>3, <1>4, Steps

LEMMA InvariantKept == IInv /\ [Next]_vars => IInv'
  BY TypesKept, AdmittedKept, OnceKept, KnownKept DEF IInv

\* The invariant of the promotion: runs that overlap, publications between any
\* two of their steps, and replicas that lag (promote-npm.mjs:25-69).
THEOREM Invariant == Spec => []IInv
  BY Begins, InvariantKept, PTL DEF Spec

\* Every state of the promotion has its type.
THEOREM TypeCorrect == Spec => []TypeOK
<1>1. IInv => TypeOK
  BY DEF IInv
<1>2. QED
  BY <1>1, Invariant, PTL

\* "Admit the entire set before the first tag write" (promote-npm.mjs:44-62).
THEOREM AdmittedWhole == Spec => []WholeSetAdmitted
<1>1. IInv => WholeSetAdmitted
  <2> SUFFICES ASSUME IInv, NEW j \in Runs, \E p \in Packages : writes[j][p] > 0
               PROVE  /\ ~job[j].checkOnly /\ job[j].unfit = None
                      /\ \A p \in Packages : job[j].plan[p] \in published[p]
    BY DEF WholeSetAdmitted
  <2>1. ~job[j].checkOnly /\ \A p \in Packages : Fits(j, p)
    BY DEF IInv, Admitted
  <2>2. job[j].unfit \in Packages \cup {None}
    BY DEF IInv, TypeOK, Jobs
  <2>3. QED
    BY <2>1, <2>2 DEF Fits
<1>2. QED
  BY <1>1, Invariant, PTL

\* No run writes a tag twice, whatever npm and the replicas answer
\* (promote-npm.mjs:31-33, 62-67).
THEOREM WritesOnce == Spec => []WrittenOnce
<1>1. IInv => WrittenOnce
  BY PlacesOfPackages DEF IInv, Once, WrittenOnce
<1>2. QED
  BY <1>1, Invariant, PTL

\* "verified" is true of the registry, although a run reads replicas only and
\* leaves out writes on what they said: if nobody disturbed the run, the tags
\* are those of its plan (promote-npm.mjs:63-69).
THEOREM VerifiedTruly == Spec => VerifiedIsLatest
<1> DEFINE Claim == \A j \in Runs :
             pc[j] # "verified" /\ pc'[j] = "verified" /\ ~disturbed[j]
               => latest = job[j].plan
<1>1. ASSUME IInv, [Next]_vars PROVE Claim
  <2> SUFFICES ASSUME NEW j \in Runs, pc[j] # "verified", pc'[j] = "verified",
                      ~disturbed[j]
               PROVE  latest = job[j].plan
    OBVIOUS
  <2>1. OwnStep(j)
    <3>1. \A k \in Runs : OwnStep(k) => k = j
      BY <1>1, StepKeeps DEF IInv
    <3>2. QED
      BY <1>1, <3>1, Steps, Published, Replicated DEF IInv, run, vars
  <2>2. pc[j] = "verifying" /\ AtLast(j)
        /\ \E r \in Replicas : replica[r][Package(j)] = Version(j)
    BY <1>1, <2>1, StepMoves DEF IInv, Moves
  <2>3. \A i \in Places : latest[Directories[i]] = job[j].plan[Directories[i]]
    <3>1. \A i \in Places : i <= at[j]
      BY <1>1, <2>2, PackageTyped DEF IInv
    <3>2. at[j] \in Nat
      BY <1>1, PlacesOfPackages DEF IInv, TypeOK
    <3>3. QED
      BY <1>1, <2>2, <3>1, <3>2 DEF IInv, Known, KnownAt, Through, Places
  <2>4. latest \in [Packages -> Versions] /\ job[j].plan \in [Packages -> Versions]
    BY <1>1, PromotionAssumption DEF IInv, TypeOK, Jobs
  <2>5. QED
    BY <2>3, <2>4, PlacesOfPackages
<1>2. QED
  BY <1>1, Invariant, PTL DEF Spec, VerifiedIsLatest

\* "The SDK goes first because the front door consumes it": an undisturbed run
\* that moves the front door has the SDK where its plan says, and has seen a
\* replica show it (promote-npm.mjs:44-45, 62-67).
THEOREM SdkGoesFirst == Spec => SdkFirst
<1> DEFINE Claim == \A j \in Runs :
             (~disturbed[j] /\ writes'[j][FrontDoor] > writes[j][FrontDoor]) =>
               /\ latest[Sdk] = job[j].plan[Sdk]
               /\ \E r \in Replicas : replica[r][Sdk] = job[j].plan[Sdk]
<1>1. ASSUME IInv, [Next]_vars PROVE Claim
  <2> SUFFICES ASSUME NEW j \in Runs, ~disturbed[j],
                      writes'[j][FrontDoor] > writes[j][FrontDoor]
               PROVE  Through(j, Sdk)
    BY DEF Through
  <2>1. 1 \in Places /\ 2 \in Places /\ FrontDoor \in Packages
        /\ writes[j] \in [Packages -> 0..2]
    BY <1>1, PlacesOfPackages DEF IInv, TypeOK, Places, FrontDoor
  <2>2. writes'[j] # writes[j]
    BY <2>1
  <2>3. OwnStep(j)
    <3>1. \A k \in Runs : OwnStep(k) => k = j
      BY <1>1, <2>2, StepKeeps DEF IInv
    <3>2. QED
      BY <1>1, <2>2, <3>1, Steps, Published, Replicated DEF IInv, vars
  <2>4. Writes(j)
    BY <1>1, <2>2, <2>3, StepMoves DEF IInv, Moves, Quiet
  <2>5. Package(j) = FrontDoor
    BY <2>1, <2>4 DEF Writes
  <2>6. at[j] = 2
    BY <1>1, <2>1, <2>5, PackageTyped, PlacesOfPackages DEF IInv, Package, FrontDoor
  <2>7. QED
    BY <1>1, <2>1, <2>4, <2>6 DEF IInv, Known, KnownAt, Writes, Sdk
<1>2. QED
  BY <1>1, Invariant, PTL DEF Spec, SdkFirst
=============================================================================
