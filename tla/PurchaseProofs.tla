--------------------------- MODULE PurchaseProofs ---------------------------
(***************************************************************************)
(* What Purchase promises, proved for every set of runs, keys and          *)
(* resources: first the inductive invariant, in named parts, then what a   *)
(* step does to each part of the state, then each part of the invariant,   *)
(* and at last that Purchase implements PurchaseContract.                  *)
(***************************************************************************)
EXTENDS Purchase, TLAPS

Success == [state |-> "succeeded", receipt |-> TRUE]
Looking == {"looping", "reading", "claiming"}

\* Requests and charges name the saved key of their run, which has begun.
Owned == /\ \A q \in wire : q.key = key[q.run] /\ pc[q.run] # "idle"
         /\ \A ch \in charges : ch.key = key[ch.run]

\* The service has a record of a key if and only if it has charged it, once.
Booked == /\ \A k \in Keys : invocation[k].state # "none"
                               <=> \E ch \in charges : ch.key = k
          /\ \A a, b \in charges : a.key = b.key => a = b

\* A copy of a record may be old, but not of an invocation that is not there,
\* and a terminal one is the record.
Known(r, k) == /\ r.state # "none" => invocation[k].state # "none"
               /\ r.state \in Terminal => r = invocation[k]
Copied == \A p \in Runs : /\ Known(seen[p], key[p])
                          /\ Known(answer[p].record, key[p])

\* How many invokes a run can have made where it is.
MostInvokes(l) == CASE l = "idle" -> 0
                    [] l = "buying" -> 1
                    [] l \in {"recovering", "looping", "reading"} -> 2
                    [] OTHER -> MaxInvokes
Counted == \A p \in Runs : invokes[p] <= MostInvokes(pc[p])

Settled == \A p \in Runs : pc[p] = "done" <=> outcome[p] # "none"

\* A run that looks at an invocation, or ended pending, has one; a run that
\* claims its resource, or ended bought, has one that succeeded.
Proven ==
  \A p \in Runs :
    /\ pc[p] \in Looking \/ outcome[p] = "pending"
         => invocation[key[p]].state # "none"
    /\ pc[p] = "claiming" \/ outcome[p] = "bought"
         => invocation[key[p]] = Success
    /\ outcome[p] = "bought" /\ key[p] \in Resources => access[p]

IInv == TypeOK /\ Owned /\ Booked /\ Copied /\ Counted /\ Settled /\ Proven
-----------------------------------------------------------------------------
(***************************************************************************)
(* Types, with the bound on the invokes.                                   *)
(***************************************************************************)
ControlTypes == /\ pc' \in [Runs -> Invoking \cup {"idle", "looping", "reading",
                                                   "done", "crashed"}]
                /\ invokes' \in [Runs -> 0..MaxInvokes]
                /\ outcome' \in [Runs -> {"none", "bought", "pending", "threw"}]
                /\ wire' \subseteq [run : Runs, n : 1..MaxInvokes, key : Keys]

LEMMA EndTypes ==
  ASSUME TypeOK, NEW p \in Runs, NEW o \in {"bought", "pending", "threw"},
         End(p, o)
  PROVE  ControlTypes
  BY DEF TypeOK, End, ControlTypes

LEMMA GotoTypes ==
  ASSUME TypeOK, NEW p \in Runs, NEW phase \in {"looping", "reading"},
         Goto(p, phase)
  PROVE  ControlTypes
  BY DEF TypeOK, Goto, ControlTypes

LEMMA InvokeTypes ==
  ASSUME TypeOK, Counted, NEW p \in Runs, NEW phase \in Invoking,
         MostInvokes(pc[p]) < MaxInvokes, Invoke(p, phase)
  PROVE  ControlTypes
<1>1. invokes[p] \in 0..MaxInvokes /\ invokes[p] + 1 \in 1..MaxInvokes
  BY DEF TypeOK, Counted, MostInvokes, MaxInvokes
<1>2. [run |-> p, n |-> invokes[p] + 1, key |-> key[p]]
        \in [run : Runs, n : 1..MaxInvokes, key : Keys]
  BY <1>1 DEF TypeOK
<1>3. QED
  BY <1>1, <1>2 DEF TypeOK, Invoke, InvokeWith, ControlTypes

LEMMA FailedTypes ==
  ASSUME TypeOK, Counted, NEW p \in Runs, NEW recoverable, Failed(p, recoverable)
  PROVE  ControlTypes
<1>1. CASE pc[p] = "buying" /\ recoverable
  BY <1>1, InvokeTypes DEF Failed, Invoking, MostInvokes, MaxInvokes
<1>2. CASE ~(pc[p] = "buying" /\ recoverable)
  BY <1>2, EndTypes DEF Failed
<1>3. QED
  BY <1>1, <1>2

LEMMA FinishTypes ==
  ASSUME TypeOK, Counted, NEW p \in Runs, pc[p] = "looping", Finish(p)
  PROVE  ControlTypes
<1>1. CASE End(p, "threw") \/ End(p, "bought")
  BY <1>1, EndTypes
<1>2. CASE Invoke(p, "claiming")
  BY <1>2, InvokeTypes DEF Invoking, MostInvokes, MaxInvokes
<1>3. QED
  BY <1>1, <1>2 DEF Finish

LEMMA Nothing == NoAnswer \in Answers /\ Unknown \in Records
  BY DEF NoAnswer, Unknown, Answers, Records, States

LEMMA TellTypes ==
  ASSUME TypeOK, NEW q \in wire, NEW a \in Answers, Tell(q, a)
  PROVE  answer' \in [Runs -> Answers]
  BY DEF TypeOK, Tell

LEMMA TellRecordTypes ==
  ASSUME TypeOK, NEW q \in wire, NEW record \in Records, TellRecord(q, record)
  PROVE  answer' \in [Runs -> Answers]
<1>1. \A granted \in BOOLEAN :
        [kind |-> "ok", record |-> record, access |-> granted] \in Answers
  BY DEF Answers
<1>2. [kind |-> "ok", record |-> Unknown, access |-> FALSE] \in Answers
  BY Nothing DEF Answers
<1>3. [NoAnswer EXCEPT !.kind = "failed"] \in Answers
  BY Nothing DEF Answers, NoAnswer
<1>4. \A granted \in {FALSE, q.key \in Resources} : granted \in BOOLEAN
  <2>1. (q.key \in Resources) \in BOOLEAN
    OBVIOUS
  <2>2. QED
    BY ONLY <2>1
<1>5. QED
  BY <1>1, <1>2, <1>3, <1>4, TellTypes DEF TellRecord

\* A record the service may hold.
LEMMA NewRecords ==
  /\ [state |-> "running", receipt |-> FALSE] \in Records
  /\ Success \in Records
  /\ [state : Terminal, receipt : BOOLEAN] \subseteq Records
  BY DEF Records, States, Success, Terminal

LEMMA ServeTypes ==
  ASSUME TypeOK, NEW q \in wire, Serve(q)
  PROVE  TypeOK'
<1>1. q.run \in Runs /\ q.key \in Keys
  BY DEF TypeOK
<1>2. wire' \subseteq [run : Runs, n : 1..MaxInvokes, key : Keys]
  BY DEF TypeOK, Serve
<1>3. CASE Admit(q)
  <2>1. charges' \subseteq [run : Runs, key : Keys]
    BY <1>1, <1>3 DEF TypeOK, Admit
  <2>2. PICK record \in Records :
          /\ invocation' = [invocation EXCEPT ![q.key] = record]
          /\ TellRecord(q, record)
    BY <1>3, NewRecords DEF Admit, Success
  <2>3. invocation' \in [Keys -> Records] /\ answer' \in [Runs -> Answers]
    BY <2>2, TellRecordTypes DEF TypeOK
  <2>4. QED
    BY <1>2, <2>1, <2>3 DEF TypeOK, Serve, run
<1>4. CASE Replay(q)
  <2>1. invocation[q.key] \in Records
    BY <1>1 DEF TypeOK
  <2>2. answer' \in [Runs -> Answers]
    BY <1>4, <2>1, TellRecordTypes DEF Replay
  <2>3. QED
    BY <1>2, <1>4, <2>2 DEF TypeOK, Serve, Replay, run
<1>5. CASE Refuse(q)
  <2>1. \A kind \in {"refused", "failed"} :
          [NoAnswer EXCEPT !.kind = kind] \in Answers
    BY Nothing DEF Answers, NoAnswer
  <2>2. answer' \in [Runs -> Answers]
    BY <1>5, <2>1, TellTypes DEF Refuse
  <2>3. QED
    BY <1>2, <1>5, <2>2 DEF TypeOK, Serve, Refuse, run
<1>6. QED
  BY <1>3, <1>4, <1>5 DEF Serve

\* What an action that changes neither copies nor records has to show.
LEMMA ControlKept ==
  ASSUME TypeOK, ControlTypes, NEW p \in Runs,
         UNCHANGED <<run, expired, invocation, charges>>,
         answer' = answer \/ answer' = [answer EXCEPT ![p] = NoAnswer]
  PROVE  TypeOK'
  BY Nothing DEF TypeOK, ControlTypes, run

LEMMA StepTypes ==
  ASSUME TypeOK, Counted, NEW p \in Runs, Step(p)
  PROVE  TypeOK'
<1>1. CASE Purchase(p)
  <2>1. ControlTypes
    BY <1>1, InvokeTypes DEF Purchase, Invoking, MostInvokes, MaxInvokes
  <2>2. QED
    BY <1>1, <2>1, ControlKept DEF Purchase
<1>2. CASE Uncertain(p)
  BY <1>2, FailedTypes, ControlKept DEF Uncertain
<1>3. CASE Refusal(p)
  BY <1>3, FailedTypes, ControlKept DEF Refusal
<1>4. CASE BareError(p)
  <2>1. ControlTypes
    BY <1>4 DEF TypeOK, BareError, ControlTypes
  <2>2. QED
    BY <1>4, <2>1, ControlKept DEF BareError
<1>5. CASE Admission(p)
  <2>1. ControlTypes
    BY <1>5, EndTypes, GotoTypes DEF Admission
  <2>2. answer[p] \in Answers /\ answer[p].record \in Records
        /\ answer[p].access \in BOOLEAN
    BY DEF TypeOK, Answers
  <2>3. seen' \in [Runs -> Records] /\ access' \in [Runs -> BOOLEAN]
    BY <1>5, <2>2 DEF TypeOK, Admission
  <2>4. answer' \in [Runs -> Answers]
    BY <1>5, Nothing DEF TypeOK, Admission
  <2>5. QED
    BY <1>5, <2>1, <2>3, <2>4 DEF TypeOK, Admission, ControlTypes
<1>6. CASE Loop(p)
  <2>1. ControlTypes
    BY <1>6, FinishTypes, EndTypes, GotoTypes DEF Loop
  <2>2. QED
    BY <1>6, <2>1, ControlKept DEF Loop
<1>7. CASE Read(p)
  <2>1. ControlTypes
    BY <1>7, GotoTypes DEF Read
  <2>2. answer[p].record \in Records
    BY DEF TypeOK, Answers
  <2>3. seen' \in [Runs -> Records] /\ answer' \in [Runs -> Answers]
    BY <1>7, <2>2, Nothing DEF TypeOK, Read
  <2>4. QED
    BY <1>7, <2>1, <2>3 DEF TypeOK, Read, ControlTypes
<1>8. CASE ReadFails(p)
  BY <1>8, EndTypes, ControlKept DEF ReadFails
<1>9. CASE Claimed(p)
  <2>1. ControlTypes
    BY <1>9, EndTypes DEF Claimed
  <2>2. answer[p].access \in BOOLEAN
    BY DEF TypeOK, Answers
  <2>3. access' \in [Runs -> BOOLEAN] /\ answer' \in [Runs -> Answers]
    BY <1>9, <2>2, Nothing DEF TypeOK, Claimed
  <2>4. QED
    BY <1>9, <2>1, <2>3 DEF TypeOK, Claimed, ControlTypes
<1>10. QED
  BY <1>1, <1>2, <1>3, <1>4, <1>5, <1>6, <1>7, <1>8, <1>9 DEF Step

LEMMA TypesKept ==
  ASSUME IInv, [Next]_vars
  PROVE  TypeOK'
<1> USE DEF IInv
<1>1. ASSUME NEW p \in Runs, Step(p) PROVE TypeOK'
  BY <1>1, StepTypes
<1>2. ASSUME NEW p \in Runs, Deadline(p) PROVE TypeOK'
  BY <1>2 DEF TypeOK, Deadline, run, service
<1>3. ASSUME NEW p \in Runs, ServeRead(p) PROVE TypeOK'
  <2>1. invocation[key[p]] \in Records
    BY DEF TypeOK
  <2>2. [kind |-> "ok", record |-> invocation[key[p]], access |-> FALSE] \in Answers
    BY <2>1 DEF Answers
  <2>3. QED
    BY <1>3, <2>2 DEF TypeOK, ServeRead, run, service
<1>4. ASSUME NEW p \in Runs, Crash(p) PROVE TypeOK'
  BY <1>4, Nothing DEF TypeOK, Crash, run, service
<1>5. ASSUME NEW q \in wire, Serve(q) PROVE TypeOK'
  BY <1>5, ServeTypes
<1>6. ASSUME NEW k \in Keys, Progress(k) PROVE TypeOK'
  BY <1>6, NewRecords DEF TypeOK, Progress, run
<1>7. CASE UNCHANGED vars
  BY <1>7 DEF TypeOK, vars, run, service
<1>8. QED
  BY <1>1, <1>2, <1>3, <1>4, <1>5, <1>6, <1>7 DEF Next, Rest
-----------------------------------------------------------------------------
(***************************************************************************)
(* What a step of the system does to each part of the state.               *)
(***************************************************************************)
RunStep(p) == Step(p) \/ Deadline(p) \/ ServeRead(p) \/ Crash(p)

LEMMA Steps ==
  ASSUME [Next]_vars
  PROVE  \/ \E p \in Runs : RunStep(p)
         \/ \E q \in wire : Serve(q)
         \/ \E k \in Keys : Progress(k)
         \/ UNCHANGED vars
  BY DEF Next, Rest, RunStep

\* A step of a run leaves the service's records and the other runs alone.
LEMMA RunStepKeeps ==
  ASSUME TypeOK, NEW p \in Runs, RunStep(p)
  PROVE  /\ UNCHANGED <<key, invocation, charges>>
         /\ \A r \in Runs : r # p =>
              /\ pc'[r] = pc[r] /\ invokes'[r] = invokes[r]
              /\ outcome'[r] = outcome[r] /\ access'[r] = access[r]
              /\ seen'[r] = seen[r] /\ answer'[r] = answer[r]
<1>1. CASE Purchase(p)
  BY <1>1 DEF TypeOK, Purchase, Invoke, InvokeWith, run
<1>2. CASE Uncertain(p)
  BY <1>2 DEF TypeOK, Uncertain, Failed, End, Invoke, InvokeWith, run
<1>3. CASE Refusal(p)
  BY <1>3 DEF TypeOK, Refusal, Failed, End, Invoke, InvokeWith, run
<1>4. CASE BareError(p)
  BY <1>4 DEF TypeOK, BareError, run
<1>5. CASE Admission(p)
  BY <1>5 DEF TypeOK, Admission, End, Goto
<1>6. CASE Loop(p)
  BY <1>6 DEF TypeOK, Loop, Finish, End, Goto, Invoke, InvokeWith, run
<1>7. CASE Read(p)
  BY <1>7 DEF TypeOK, Read, Goto
<1>8. CASE ReadFails(p)
  BY <1>8 DEF TypeOK, ReadFails, End, run
<1>9. CASE Claimed(p)
  BY <1>9 DEF TypeOK, Claimed, End
<1>10. CASE Deadline(p)
  BY <1>10 DEF Deadline, run, service
<1>11. CASE ServeRead(p)
  BY <1>11 DEF TypeOK, ServeRead, run, service
<1>12. CASE Crash(p)
  BY <1>12 DEF TypeOK, Crash, run, service
<1>13. QED
  BY <1>1, <1>2, <1>3, <1>4, <1>5, <1>6, <1>7, <1>8, <1>9, <1>10, <1>11, <1>12
     DEF RunStep, Step

\* Where a step takes its run, how often it has invoked by then, and what it
\* then holds.
Moves(p) ==
  \/ /\ pc[p] = "idle" /\ pc'[p] = "buying" /\ invokes'[p] = invokes[p] + 1
     /\ outcome'[p] = outcome[p] /\ access'[p] = access[p] /\ seen'[p] = seen[p]
  \/ /\ pc[p] = "buying" /\ pc'[p] = "recovering" /\ invokes'[p] = invokes[p] + 1
     /\ outcome'[p] = outcome[p] /\ access'[p] = access[p] /\ seen'[p] = seen[p]
  \/ /\ pc[p] \in {"buying", "recovering"} /\ pc'[p] = "looping"
     /\ invokes'[p] = invokes[p] /\ outcome'[p] = outcome[p]
     /\ answer[p].record.state # "none" /\ seen'[p] = answer[p].record
  \/ /\ pc[p] = "looping" /\ pc'[p] = "reading" /\ invokes'[p] = invokes[p]
     /\ outcome'[p] = outcome[p] /\ access'[p] = access[p] /\ seen'[p] = seen[p]
  \/ /\ pc[p] = "reading" /\ pc'[p] = "looping" /\ invokes'[p] = invokes[p]
     /\ outcome'[p] = outcome[p] /\ access'[p] = access[p]
     /\ seen'[p] = answer[p].record
  \/ /\ pc[p] = "looping" /\ pc'[p] = "claiming" /\ invokes'[p] = invokes[p] + 1
     /\ seen[p].state = "succeeded" /\ seen[p].receipt
     /\ outcome'[p] = outcome[p] /\ access'[p] = access[p] /\ seen'[p] = seen[p]
  \/ /\ pc[p] = "looping" /\ pc'[p] = "done" /\ outcome'[p] = "bought"
     /\ seen[p].state = "succeeded" /\ seen[p].receipt
     /\ key[p] \in Resources => access[p]
     /\ invokes'[p] = invokes[p] /\ access'[p] = access[p] /\ seen'[p] = seen[p]
  \/ /\ pc[p] = "claiming" /\ pc'[p] = "done" /\ outcome'[p] = "bought"
     /\ access'[p] /\ invokes'[p] = invokes[p] /\ seen'[p] = seen[p]
  \/ /\ pc[p] = "looping" /\ pc'[p] = "done" /\ outcome'[p] = "pending"
     /\ invokes'[p] = invokes[p] /\ access'[p] = access[p] /\ seen'[p] = seen[p]
  \/ /\ pc[p] \notin {"idle", "done", "crashed"}
     /\ pc'[p] = "done" /\ outcome'[p] = "threw"
     /\ invokes'[p] = invokes[p] /\ seen'[p] = seen[p]
  \/ /\ pc[p] \notin {"idle", "done", "crashed"}
     /\ pc'[p] = "crashed" /\ outcome'[p] = outcome[p]
     /\ invokes'[p] = invokes[p] /\ seen'[p] = seen[p]
  \/ /\ pc'[p] = pc[p] /\ outcome'[p] = outcome[p] /\ invokes'[p] = invokes[p]
     /\ access'[p] = access[p] /\ seen'[p] = seen[p]

LEMMA FailedMoves ==
  ASSUME TypeOK, NEW p \in Runs, NEW recoverable, Failed(p, recoverable),
         pc[p] \in Invoking, UNCHANGED run
  PROVE  Moves(p)
<1>1. CASE pc[p] = "buying" /\ recoverable
  BY <1>1 DEF TypeOK, Failed, Invoke, InvokeWith, run, Moves
<1>2. CASE ~(pc[p] = "buying" /\ recoverable)
  BY <1>2 DEF TypeOK, Failed, End, Invoking, run, Moves
<1>3. QED
  BY <1>1, <1>2

LEMMA RunMoves ==
  ASSUME TypeOK, NEW p \in Runs, RunStep(p)
  PROVE  Moves(p)
<1>1. CASE Purchase(p)
  BY <1>1 DEF TypeOK, Purchase, Invoke, InvokeWith, run, Moves
<1>2. CASE Uncertain(p)
  BY <1>2, FailedMoves DEF Uncertain
<1>3. CASE Refusal(p)
  BY <1>3, FailedMoves DEF Refusal
<1>4. CASE BareError(p)
  BY <1>4 DEF TypeOK, BareError, Invoking, run, Moves
<1>5. CASE Admission(p)
  <2>1. CASE answer[p].record.state = "none"
    BY <1>5, <2>1 DEF TypeOK, Admission, End, Moves
  <2>2. CASE answer[p].record.state # "none"
    BY <1>5, <2>2 DEF TypeOK, Admission, Goto, Moves
  <2>3. QED
    BY <2>1, <2>2
<1>6. CASE Loop(p)
  <2>1. CASE Finish(p)
    <3>1. CASE seen[p].state # "succeeded" \/ ~seen[p].receipt
      BY <1>6, <2>1, <3>1 DEF TypeOK, Loop, Finish, End, run, Moves
    <3>2. CASE /\ seen[p].state = "succeeded" /\ seen[p].receipt
               /\ key[p] \in Resources /\ ~access[p]
      BY <1>6, <2>1, <3>2 DEF TypeOK, Loop, Finish, Invoke, InvokeWith, run, Moves
    <3>3. CASE /\ seen[p].state = "succeeded" /\ seen[p].receipt
               /\ ~(key[p] \in Resources /\ ~access[p])
      BY <1>6, <2>1, <3>3 DEF TypeOK, Loop, Finish, End, run, Moves
    <3>4. QED
      BY <3>1, <3>2, <3>3
  <2>2. CASE End(p, "pending")
    BY <1>6, <2>2 DEF TypeOK, Loop, End, run, Moves
  <2>3. CASE Goto(p, "reading")
    BY <1>6, <2>3 DEF TypeOK, Loop, Goto, run, Moves
  <2>4. QED
    BY <1>6, <2>1, <2>2, <2>3 DEF Loop
<1>7. CASE Read(p)
  BY <1>7 DEF TypeOK, Read, Goto, Moves
<1>8. CASE ReadFails(p)
  BY <1>8 DEF TypeOK, ReadFails, End, run, Moves
<1>9. CASE Claimed(p)
  <2>1. CASE answer[p].access
    BY <1>9, <2>1 DEF TypeOK, Claimed, End, Moves
  <2>2. CASE ~answer[p].access
    BY <1>9, <2>2 DEF TypeOK, Claimed, End, Moves
  <2>3. QED
    BY <2>1, <2>2
<1>10. CASE Deadline(p)
  BY <1>10 DEF Deadline, run, service, Moves
<1>11. CASE ServeRead(p)
  BY <1>11 DEF ServeRead, run, service, Moves
<1>12. CASE Crash(p)
  BY <1>12 DEF TypeOK, Crash, run, service, Moves
<1>13. QED
  BY <1>1, <1>2, <1>3, <1>4, <1>5, <1>6, <1>7, <1>8, <1>9, <1>10, <1>11, <1>12
     DEF RunStep, Step

\* What the wire gains is a request of a run that has begun, for its own key.
LEMMA WireGrows ==
  ASSUME TypeOK, [Next]_vars
  PROVE  \A q \in wire' : \/ q \in wire
                          \/ q.key = key[q.run] /\ pc'[q.run] # "idle"
<1>1. ASSUME NEW p \in Runs, NEW phase \in Invoking, Invoke(p, phase)
      PROVE  \A q \in wire' : \/ q \in wire
                              \/ q.key = key[q.run] /\ pc'[q.run] # "idle"
  <2>1. pc'[p] # "idle"
    BY <1>1 DEF TypeOK, Invoke, InvokeWith, Invoking
  <2>2. QED
    BY <1>1, <2>1 DEF Invoke, InvokeWith
<1>2. ASSUME NEW p \in Runs, RunStep(p)
      PROVE  \/ wire' \subseteq wire
             \/ \E phase \in Invoking : Invoke(p, phase)
  BY <1>2 DEF RunStep, Step, Purchase, Uncertain, Refusal, BareError, Admission,
              Loop, Read, ReadFails, Claimed, Deadline, ServeRead, Crash,
              Failed, Finish, End, Goto, Invoking, service
<1>3. ASSUME NEW r \in wire, Serve(r) PROVE wire' \subseteq wire
  BY <1>3 DEF Serve
<1>4. ASSUME NEW k \in Keys, Progress(k) PROVE wire' \subseteq wire
  BY <1>4 DEF Progress
<1>5. CASE UNCHANGED vars
  BY <1>5 DEF vars, service
<1>6. QED
  BY <1>1, <1>2, <1>3, <1>4, <1>5, Steps

\* A run that has begun stays so, and keeps its key.
LEMMA RunsGoOn ==
  ASSUME TypeOK, [Next]_vars
  PROVE  /\ key' = key
         /\ \A p \in Runs : pc[p] # "idle" => pc'[p] # "idle"
<1>1. ASSUME NEW p \in Runs, RunStep(p)
      PROVE  key' = key /\ \A r \in Runs : pc[r] # "idle" => pc'[r] # "idle"
  BY <1>1, RunStepKeeps, RunMoves DEF Moves
<1>2. ASSUME NEW q \in wire, Serve(q)
      PROVE  key' = key /\ pc' = pc
  BY <1>2 DEF Serve, run
<1>3. ASSUME NEW k \in Keys, Progress(k)
      PROVE  key' = key /\ pc' = pc
  BY <1>3 DEF Progress, run
<1>4. CASE UNCHANGED vars
  BY <1>4 DEF vars, run
<1>5. QED
  BY <1>1, <1>2, <1>3, <1>4, Steps

\* The records and the charges change together, when a key is admitted, or an
\* invocation that runs comes to its end.
LEMMA Ledger ==
  ASSUME TypeOK, [Next]_vars
  PROVE  \/ UNCHANGED <<invocation, charges>>
         \/ \E q \in wire : Admit(q)
         \/ \E k \in Keys : Progress(k) /\ UNCHANGED charges
<1>1. ASSUME NEW p \in Runs, RunStep(p) PROVE UNCHANGED <<invocation, charges>>
  BY <1>1, RunStepKeeps
<1>2. ASSUME NEW q \in wire, Serve(q)
      PROVE  UNCHANGED <<invocation, charges>> \/ Admit(q)
  BY <1>2 DEF Serve, Replay, Refuse
<1>3. ASSUME NEW k \in Keys, Progress(k) PROVE UNCHANGED charges
  BY <1>3 DEF Progress
<1>4. CASE UNCHANGED vars
  BY <1>4 DEF vars, service
<1>5. QED
  BY <1>1, <1>2, <1>3, <1>4, Steps

LEMMA AdmitBooks ==
  ASSUME TypeOK, NEW q \in wire, Admit(q)
  PROVE  /\ q.run \in Runs /\ q.key \in Keys
         /\ invocation[q.key].state = "none"
         /\ charges' = charges \cup {[run |-> q.run, key |-> q.key]}
         /\ invocation'[q.key].state \in {"running", "succeeded"}
         /\ invocation'[q.key].state = "succeeded" => invocation'[q.key] = Success
         /\ \A k \in Keys : k # q.key => invocation'[k] = invocation[k]
<1>1. q.run \in Runs /\ q.key \in Keys
  BY DEF TypeOK
<1>2. PICK record \in {[state |-> "running", receipt |-> FALSE], Success} :
        invocation' = [invocation EXCEPT ![q.key] = record]
  BY DEF Admit, Success
<1>3. /\ invocation'[q.key] = record
      /\ \A k \in Keys : k # q.key => invocation'[k] = invocation[k]
  BY <1>1, <1>2 DEF TypeOK
<1>4. /\ record.state \in {"running", "succeeded"}
      /\ record.state = "succeeded" => record = Success
  BY DEF Success
<1>5. QED
  BY <1>1, <1>3, <1>4 DEF Admit

LEMMA ProgressEnds ==
  ASSUME TypeOK, NEW k \in Keys, Progress(k)
  PROVE  /\ invocation[k].state = "running"
         /\ invocation'[k].state \in Terminal
         /\ \A j \in Keys : j # k => invocation'[j] = invocation[j]
  BY DEF TypeOK, Progress

\* A record stays, and stays as it is once it is terminal.
LEMMA RecordsStay ==
  ASSUME TypeOK, [Next]_vars, NEW k \in Keys
  PROVE  /\ invocation[k].state # "none" => invocation'[k].state # "none"
         /\ invocation[k].state \in Terminal => invocation'[k] = invocation[k]
<1>1. ASSUME NEW q \in wire, Admit(q)
      PROVE  /\ invocation[k].state # "none" => invocation'[k] = invocation[k]
             /\ invocation[k].state \in Terminal => invocation'[k] = invocation[k]
  BY <1>1, AdmitBooks DEF Terminal
<1>2. ASSUME NEW j \in Keys, Progress(j)
      PROVE  /\ invocation[k].state # "none" => invocation'[k].state # "none"
             /\ invocation[k].state \in Terminal => invocation'[k] = invocation[k]
  BY <1>2, ProgressEnds DEF Terminal
<1>3. QED
  BY <1>1, <1>2, Ledger

\* What a run is told is what it knows, nothing, or what the service now has.
LEMMA Told ==
  ASSUME TypeOK, NEW q \in wire, NEW record, TellRecord(q, record), NEW p \in Runs
  PROVE  \/ answer'[p] = answer[p]
         \/ answer'[p].record = Unknown
         \/ p = q.run /\ answer'[p].record = record
  BY DEF TypeOK, TellRecord, Tell, NoAnswer

LEMMA CopiesCome ==
  ASSUME TypeOK, Owned, [Next]_vars, NEW p \in Runs
  PROVE  /\ seen'[p] \in {seen[p], answer[p].record}
         /\ answer'[p].record \in {Unknown, answer[p].record, invocation'[key[p]]}
<1>1. ASSUME NEW r \in Runs, RunStep(r), r # p
      PROVE  seen'[p] = seen[p] /\ answer'[p] = answer[p]
  BY <1>1, RunStepKeeps
<1>2. ASSUME RunStep(p)
      PROVE  /\ seen'[p] \in {seen[p], answer[p].record}
             /\ answer'[p].record \in {Unknown, answer[p].record, invocation'[key[p]]}
  <2>1. seen'[p] \in {seen[p], answer[p].record}
    BY <1>2, RunMoves DEF Moves
  <2>2. \/ answer' = answer
        \/ answer' = [answer EXCEPT ![p] = NoAnswer]
        \/ ServeRead(p)
    BY <1>2 DEF RunStep, Step, Purchase, Uncertain, Refusal, BareError,
                Admission, Loop, Read, ReadFails, Claimed, Deadline, Crash
  <2>3. CASE ServeRead(p)
    BY <2>1, <2>3 DEF TypeOK, ServeRead, service
  <2>4. QED
    BY <2>1, <2>2, <2>3 DEF TypeOK, NoAnswer
<1>3. ASSUME NEW q \in wire, Serve(q)
      PROVE  /\ seen' = seen
             /\ answer'[p].record \in {Unknown, answer[p].record, invocation'[key[p]]}
  <2>1. q.run \in Runs /\ q.key = key[q.run] /\ q.key \in Keys
    BY DEF TypeOK, Owned
  <2>2. CASE Admit(q)
    <3>1. PICK record : /\ invocation' = [invocation EXCEPT ![q.key] = record]
                        /\ TellRecord(q, record)
      BY <2>2 DEF Admit
    <3>2. invocation'[q.key] = record
      BY <2>1, <3>1 DEF TypeOK
    <3>3. QED
      BY <1>3, <2>1, <3>1, <3>2, Told DEF Serve, run
  <2>3. CASE Replay(q)
    BY <1>3, <2>1, <2>3, Told DEF Serve, Replay, run
  <2>4. CASE Refuse(q)
    BY <1>3, <2>4 DEF TypeOK, Serve, Refuse, Tell, NoAnswer, run
  <2>5. QED
    BY <1>3, <2>2, <2>3, <2>4 DEF Serve
<1>4. ASSUME NEW k \in Keys, Progress(k)
      PROVE  seen' = seen /\ answer' = answer
  BY <1>4 DEF Progress, run
<1>5. CASE UNCHANGED vars
  BY <1>5 DEF vars, run
<1>6. QED
  BY <1>1, <1>2, <1>3, <1>4, <1>5, Steps
-----------------------------------------------------------------------------
(***************************************************************************)
(* The invariant, part by part.                                            *)
(***************************************************************************)
LEMMA Begins == Init => IInv
<1> SUFFICES ASSUME Init PROVE IInv
  OBVIOUS
<1>1. TypeOK
  BY Nothing DEF Init, TypeOK, Invoking, MaxInvokes
<1>2. Owned /\ Booked
  BY DEF Init, Owned, Booked, Unknown
<1>3. Copied
  BY DEF Init, Copied, Known, NoAnswer, Unknown, Terminal
<1>4. Counted /\ Settled /\ Proven
  BY DEF Init, Counted, MostInvokes, Settled, Proven, Looking
<1>5. QED
  BY <1>1, <1>2, <1>3, <1>4 DEF IInv

LEMMA OwnedKept ==
  ASSUME IInv, [Next]_vars
  PROVE  Owned'
<1>1. /\ key' = key
      /\ \A p \in Runs : pc[p] # "idle" => pc'[p] # "idle"
  BY RunsGoOn DEF IInv
<1>2. \A q \in wire : q.run \in Runs
  BY DEF IInv, TypeOK
<1>3. \A q \in wire' : q.key = key'[q.run] /\ pc'[q.run] # "idle"
  BY <1>1, <1>2, WireGrows DEF IInv, Owned
<1>4. \A ch \in charges' : ch.key = key'[ch.run]
  <2>1. \A q \in wire : Admit(q) => charges' = charges \cup {[run |-> q.run, key |-> q.key]}
    BY AdmitBooks DEF IInv
  <2>2. charges' = charges \/ \E q \in wire :
          charges' = charges \cup {[run |-> q.run, key |-> q.key]}
    BY <2>1, Ledger DEF IInv
  <2>3. QED
    BY <1>1, <2>2 DEF IInv, Owned
<1>5. QED
  BY <1>3, <1>4 DEF Owned

LEMMA BookedKept ==
  ASSUME IInv, [Next]_vars
  PROVE  Booked'
<1> USE DEF IInv
<1>1. CASE UNCHANGED <<invocation, charges>>
  BY <1>1 DEF Booked
<1>2. ASSUME NEW q \in wire, Admit(q) PROVE Booked'
  <2>1. /\ invocation'[q.key].state # "none"
        /\ invocation[q.key].state = "none" /\ q.key \in Keys
        /\ \A k \in Keys : k # q.key => invocation'[k] = invocation[k]
        /\ charges' = charges \cup {[run |-> q.run, key |-> q.key]}
    BY <1>2, AdmitBooks
  <2>2. \A ch \in charges : ch.key # q.key
    BY <2>1 DEF Booked
  <2>3. \A k \in Keys : invocation'[k].state # "none" <=> \E ch \in charges' : ch.key = k
    <3>1. \E ch \in charges' : ch.key = q.key
      <4>1. [run |-> q.run, key |-> q.key] \in charges'
        BY <2>1
      <4>2. QED
        BY <4>1
    <3>2. ASSUME NEW k \in Keys, k # q.key
          PROVE  (\E ch \in charges' : ch.key = k) <=> (\E ch \in charges : ch.key = k)
      BY <2>1, <3>2
    <3>3. ASSUME NEW k \in Keys, k # q.key
          PROVE  invocation'[k].state # "none" <=> \E ch \in charges' : ch.key = k
      BY <2>1, <3>2, <3>3 DEF Booked
    <3>4. QED
      BY <2>1, <3>1, <3>3
  <2>4. \A a, b \in charges' : a.key = b.key => a = b
    BY <2>1, <2>2 DEF Booked
  <2>5. QED
    BY <2>3, <2>4 DEF Booked
<1>3. ASSUME NEW k \in Keys, Progress(k), UNCHANGED charges PROVE Booked'
  <2>1. \A j \in Keys : invocation'[j].state # "none" <=> invocation[j].state # "none"
    BY <1>3, ProgressEnds DEF Terminal
  <2>2. QED
    BY <1>3, <2>1 DEF Booked
<1>4. QED
  BY <1>1, <1>2, <1>3, Ledger

LEMMA CopiedKept ==
  ASSUME IInv, [Next]_vars
  PROVE  Copied'
<1> SUFFICES ASSUME NEW p \in Runs
             PROVE  Known(seen[p], key[p])' /\ Known(answer[p].record, key[p])'
  BY DEF Copied
<1>1. key' = key /\ key[p] \in Keys
  BY RunsGoOn DEF IInv, TypeOK
<1>2. /\ invocation[key[p]].state # "none" => invocation'[key[p]].state # "none"
      /\ invocation[key[p]].state \in Terminal
           => invocation'[key[p]] = invocation[key[p]]
  BY <1>1, RecordsStay DEF IInv
<1>3. /\ seen'[p] \in {seen[p], answer[p].record}
      /\ answer'[p].record \in {Unknown, answer[p].record, invocation'[key[p]]}
  BY CopiesCome DEF IInv
<1>4. Known(seen[p], key[p]) /\ Known(answer[p].record, key[p])
  BY DEF IInv, Copied
<1>5. Unknown.state = "none" /\ "none" \notin Terminal
  BY DEF Unknown, Terminal
<1>6. QED
  BY <1>1, <1>2, <1>3, <1>4, <1>5 DEF Known

LEMMA CountedKept ==
  ASSUME IInv, [Next]_vars
  PROVE  Counted'
<1> USE DEF IInv, Counted
<1>1. \A p \in Runs : invokes[p] \in Nat
  BY DEF TypeOK, MaxInvokes
<1>2. ASSUME NEW p \in Runs, RunStep(p) PROVE Counted'
  <2>1. invokes'[p] <= MostInvokes(pc'[p])
    BY <1>1, <1>2, RunMoves DEF Moves, MostInvokes, MaxInvokes
  <2>2. QED
    BY <1>2, <2>1, RunStepKeeps
<1>3. ASSUME NEW q \in wire, Serve(q) PROVE Counted'
  BY <1>3 DEF Serve
<1>4. ASSUME NEW k \in Keys, Progress(k) PROVE Counted'
  BY <1>4 DEF Progress
<1>5. CASE UNCHANGED vars
  BY <1>5 DEF vars
<1>6. QED
  BY <1>2, <1>3, <1>4, <1>5, Steps

LEMMA SettledKept ==
  ASSUME IInv, [Next]_vars
  PROVE  Settled'
<1> USE DEF IInv, Settled
<1>1. ASSUME NEW p \in Runs, RunStep(p) PROVE Settled'
  <2>1. pc'[p] = "done" <=> outcome'[p] # "none"
    BY <1>1, RunMoves DEF Moves
  <2>2. QED
    BY <1>1, <2>1, RunStepKeeps
<1>2. ASSUME NEW q \in wire, Serve(q) PROVE Settled'
  BY <1>2 DEF Serve
<1>3. ASSUME NEW k \in Keys, Progress(k) PROVE Settled'
  BY <1>3 DEF Progress
<1>4. CASE UNCHANGED vars
  BY <1>4 DEF vars
<1>5. QED
  BY <1>1, <1>2, <1>3, <1>4, Steps

\* A terminal copy is the record: what a run decides on it is true.
LEMMA CopyIsRecord ==
  ASSUME IInv, NEW p \in Runs, seen[p].state = "succeeded", seen[p].receipt
  PROVE  invocation[key[p]] = Success
<1>1. seen[p] \in Records
  BY DEF IInv, TypeOK
<1>2. seen[p] = Success
  BY <1>1 DEF Records, Success
<1>3. QED
  BY <1>2 DEF IInv, Copied, Known, Success, Terminal

LEMMA ProvenKept ==
  ASSUME IInv, [Next]_vars
  PROVE  Proven'
<1> USE DEF IInv
<1> DEFINE Part(p) ==
      /\ pc[p] \in Looking \/ outcome[p] = "pending"
           => invocation[key[p]].state # "none"
      /\ pc[p] = "claiming" \/ outcome[p] = "bought"
           => invocation[key[p]] = Success
      /\ outcome[p] = "bought" /\ key[p] \in Resources => access[p]
<1>1. key' = key /\ \A p \in Runs : key[p] \in Keys
  BY RunsGoOn DEF TypeOK
<1>2. \A k \in Keys :
        /\ invocation[k].state # "none" => invocation'[k].state # "none"
        /\ invocation[k] = Success => invocation'[k] = Success
  BY RecordsStay DEF Success, Terminal
<1>3. ASSUME NEW p \in Runs, pc'[p] = pc[p], outcome'[p] = outcome[p],
             access'[p] = access[p]
      PROVE  Part(p)'
  BY <1>1, <1>2, <1>3 DEF Proven
<1>4. ASSUME NEW p \in Runs, RunStep(p) PROVE Part(p)'
  <2>1. invocation' = invocation /\ (outcome[p] # "none" => pc[p] = "done")
    BY <1>4, RunStepKeeps DEF Settled
  <2>2. answer[p].record.state # "none" => invocation[key[p]].state # "none"
    BY DEF Copied, Known
  <2>3. Part(p)
    BY DEF Proven
  <2>4. seen[p].state = "succeeded" /\ seen[p].receipt => invocation[key[p]] = Success
    BY CopyIsRecord
  <2>5. Moves(p)
    BY <1>4, RunMoves
  <2>6. QED
    BY <1>1, <2>1, <2>2, <2>3, <2>4, <2>5 DEF Moves, Looking, Success
<1>5. ASSUME NEW p \in Runs PROVE Part(p)'
  <2>1. ASSUME NEW r \in Runs, RunStep(r), r # p PROVE Part(p)'
    BY <1>3, <2>1, RunStepKeeps
  <2>2. ASSUME NEW q \in wire, Serve(q) PROVE Part(p)'
    BY <1>3, <2>2 DEF Serve, run
  <2>3. ASSUME NEW k \in Keys, Progress(k) PROVE Part(p)'
    BY <1>3, <2>3 DEF Progress, run
  <2>4. CASE UNCHANGED vars
    BY <1>3, <2>4 DEF vars, run
  <2>5. QED
    BY <1>4, <2>1, <2>2, <2>3, <2>4, Steps
<1>6. QED
  BY <1>5 DEF Proven

LEMMA InvariantKept ==
  ASSUME IInv, [Next]_vars
  PROVE  IInv'
  BY TypesKept, OwnedKept, BookedKept, CopiedKept, CountedKept, SettledKept,
     ProvenKept DEF IInv
-----------------------------------------------------------------------------
(***************************************************************************)
(* The theorems.                                                           *)
(***************************************************************************)
\* The strengthening that the properties need holds of every behaviour, for
\* every set of runs, keys and resources (purchase.mjs:10-38).
THEOREM Invariant == Spec => []IInv
<1>1. Init => IInv
  BY Begins
<1>2. IInv /\ [Next]_vars => IInv'
  BY InvariantKept
<1>3. QED
  BY <1>1, <1>2, PTL DEF Spec

\* The state keeps its types; a run invokes three times at most: the purchase,
\* one recovery and the claiming replay (purchase.mjs:15-21, 34).
THEOREM TypeCorrect == Spec => []TypeOK
<1>1. IInv => TypeOK
  BY DEF IInv
<1>2. QED
  BY <1>1, Invariant, PTL

\* One purchase is charged once, and one saved key is charged once, whatever is
\* lost, late, repeated, crashed or run again (purchase.mjs:11, 19-21, 34).
THEOREM ChargedOnce == Spec => []NoSecondCharge
<1>1. IInv => NoSecondCharge
  BY DEF IInv, Owned, Booked, NoSecondCharge
<1>2. QED
  BY <1>1, Invariant, PTL

\* What is returned as bought succeeded and has its receipt and its capability,
\* although the run decided on an old copy of the record (purchase.mjs:30-37).
THEOREM Bought == Spec => []BoughtIsProven
<1>1. IInv => BoughtIsProven
  BY DEF IInv, Proven, Success, BoughtIsProven
<1>2. QED
  BY <1>1, Invariant, PTL

\* A pending answer names an invocation that was paid for (purchase.mjs:26).
THEOREM Pending == Spec => []PendingIsAdmitted
<1>1. ASSUME IInv PROVE PendingIsAdmitted
  <2>1. \A p \in Runs : key[p] \in Keys
    BY <1>1 DEF IInv, TypeOK
  <2>2. QED
    BY <1>1, <2>1 DEF IInv, Proven, Booked, PendingIsAdmitted
<1>2. QED
  BY <1>1, Invariant, PTL
-----------------------------------------------------------------------------
(***************************************************************************)
(* Purchase implements PurchaseContract: a step moves the stage of one     *)
(* run, or the account of one key, or neither.                             *)
(***************************************************************************)
mapped == <<key, stageOf, accountOf>>

LEMMA AccountValue ==
  ASSUME NEW k \in Keys
  PROVE  /\ accountOf[k] = "open" <=> invocation[k].state = "none"
         /\ accountOf[k] = "taken" <=> invocation[k].state = "running"
         /\ invocation[k].state = "succeeded" => accountOf[k] = "settled"
         /\ invocation[k].state \in {"failed", "cancelled"} => accountOf[k] = "lost"
  BY DEF accountOf

LEMMA StagesStay ==
  ASSUME \A p \in Runs : pc'[p] = pc[p] /\ outcome'[p] = outcome[p]
  PROVE  stageOf' = stageOf
  BY DEF stageOf

LEMMA RunSimulates ==
  ASSUME IInv, NEW p \in Runs, RunStep(p)
  PROVE  [Promise!ContractNext]_mapped
<1>1. key' = key /\ accountOf' = accountOf
  BY RunStepKeeps DEF IInv, accountOf
<1>2. \A r \in Runs : r # p => stageOf'[r] = stageOf[r]
  BY RunStepKeeps DEF IInv, stageOf
<1>3. ASSUME NEW s, stageOf'[p] = s
      PROVE  stageOf' = [stageOf EXCEPT ![p] = s]
  BY <1>2, <1>3 DEF stageOf
<1>4. CASE stageOf'[p] = stageOf[p]
  <2>1. stageOf' = stageOf
    BY <1>2, <1>4 DEF stageOf
  <2>2. QED
    BY <1>1, <2>1 DEF mapped
<1>5. CASE stageOf[p] = "idle" /\ stageOf'[p] = "buying"
  BY <1>1, <1>3, <1>5 DEF Promise!ContractNext, Promise!Start, Promise!Move
<1>6. CASE stageOf[p] = "buying" /\ stageOf'[p] = "bought" /\ accountOf[key[p]] = "settled"
  BY <1>1, <1>3, <1>6 DEF Promise!ContractNext, Promise!EndBought, Promise!Move
<1>7. CASE stageOf[p] = "buying" /\ stageOf'[p] = "pending" /\ accountOf[key[p]] # "open"
  BY <1>1, <1>3, <1>7 DEF Promise!ContractNext, Promise!EndPending, Promise!Move
<1>8. CASE stageOf[p] = "buying" /\ stageOf'[p] = "threw"
  BY <1>1, <1>3, <1>8 DEF Promise!ContractNext, Promise!EndThrown, Promise!Move
<1>9. CASE stageOf[p] = "buying" /\ stageOf'[p] = "crashed"
  BY <1>1, <1>3, <1>9 DEF Promise!ContractNext, Promise!EndCrashed, Promise!Move
<1>10. QED
  <2>1. Moves(p) /\ IInv'
    BY RunMoves, InvariantKept DEF IInv, Next, RunStep
  <2>2. key[p] \in Keys
    BY DEF IInv, TypeOK
  <2>3. outcome'[p] = "bought" => accountOf[key[p]] = "settled"
    BY <1>1, <2>1, <2>2, AccountValue, RunStepKeeps DEF IInv, Proven, Success
  <2>4. outcome'[p] = "pending" => accountOf[key[p]] # "open"
    BY <1>1, <2>1, <2>2, AccountValue, RunStepKeeps DEF IInv, Proven
  <2>5. \/ stageOf'[p] = stageOf[p]
        \/ stageOf[p] = "idle" /\ stageOf'[p] = "buying"
        \/ /\ stageOf[p] = "buying"
           /\ \/ stageOf'[p] = outcome'[p]
                 /\ outcome'[p] \in {"bought", "pending", "threw"}
              \/ stageOf'[p] = "crashed"
    BY <2>1 DEF Moves, stageOf
  <2>6. QED
    BY <1>4, <1>5, <1>6, <1>7, <1>8, <1>9, <2>3, <2>4, <2>5

LEMMA ServeSimulates ==
  ASSUME IInv, NEW q \in wire, Serve(q)
  PROVE  [Promise!ContractNext]_mapped
<1>1. key' = key /\ stageOf' = stageOf
  BY StagesStay DEF Serve, run
<1>2. CASE UNCHANGED invocation
  BY <1>1, <1>2 DEF mapped, accountOf
<1>3. CASE Admit(q)
  <2>1. /\ q.run \in Runs /\ q.key \in Keys /\ invocation[q.key].state = "none"
        /\ invocation'[q.key].state \in {"running", "succeeded"}
        /\ \A k \in Keys : k # q.key => invocation'[k] = invocation[k]
    BY <1>3, AdmitBooks DEF IInv
  <2>2. key[q.run] = q.key /\ stageOf[q.run] # "idle"
    BY <2>1 DEF IInv, TypeOK, Owned, stageOf
  <2>3. accountOf[q.key] = "open"
    BY <2>1, AccountValue
  <2>4. accountOf'[q.key] \in {"taken", "settled"}
    BY <2>1 DEF accountOf
  <2>5. accountOf' = [accountOf EXCEPT ![q.key] = accountOf'[q.key]]
    BY <2>1 DEF accountOf
  <2>6. Promise!Charge(q.key)
    BY <1>1, <2>1, <2>2, <2>3, <2>4, <2>5 DEF Promise!Charge
  <2>7. QED
    BY <2>1, <2>6 DEF Promise!ContractNext
<1>4. QED
  BY <1>2, <1>3 DEF Serve, Replay, Refuse

LEMMA ProgressSimulates ==
  ASSUME IInv, NEW k \in Keys, Progress(k)
  PROVE  [Promise!ContractNext]_mapped
<1>1. key' = key /\ stageOf' = stageOf
  BY StagesStay DEF Progress, run
<1>2. /\ invocation[k].state = "running" /\ invocation'[k].state \in Terminal
      /\ \A j \in Keys : j # k => invocation'[j] = invocation[j]
  BY ProgressEnds DEF IInv
<1>3. accountOf[k] = "taken" /\ accountOf'[k] \in {"settled", "lost"}
  BY <1>2 DEF accountOf, Terminal
<1>4. accountOf' = [accountOf EXCEPT ![k] = accountOf'[k]]
  BY <1>2 DEF accountOf
<1>5. Promise!Settle(k)
  BY <1>1, <1>3, <1>4 DEF Promise!Settle
<1>6. QED
  BY <1>5 DEF Promise!ContractNext

\* purchase() keeps what its callers, the journeys, rely on: a charge per key,
\* and an ending that tells the truth about it (purchase.mjs:10-38).
THEOREM Implements == Spec => ImplementsContract
<1>1. Init => Promise!ContractInit
  BY DEF Init, Promise!ContractInit, stageOf, accountOf, Unknown
<1>2. ASSUME IInv, [Next]_vars PROVE [Promise!ContractNext]_mapped
  <2>1. CASE UNCHANGED vars
    BY <2>1 DEF vars, run, service, mapped, stageOf, accountOf
  <2>2. QED
    BY <1>2, <2>1, Steps, RunSimulates, ServeSimulates, ProgressSimulates
<1>3. QED
  BY <1>1, <1>2, Invariant, PTL
     DEF Spec, ImplementsContract, Promise!Contract, Promise!pvars, mapped
=============================================================================
