---------------------------- MODULE ServiceProofs ----------------------------
(***************************************************************************)
(* Proofs about the two components that serve without end: TaskLog, for    *)
(* any sets of requests and threads; and AuditorLoop, for any cadences     *)
(* that keep below the deadman's threshold.                                *)
(***************************************************************************)
EXTENDS TaskLog, MCAuditorLoop, TLAPS
-----------------------------------------------------------------------------
(* TaskLog *)

\* A daemon that is not serving has no thread at work: the threads die with
\* the process and the socket is opened only after recovery.
IdleUnlessServing ==
  phase # "serving" => \A t \in Threads : pc[t] = "idle"

\* A row that does not exist has no history.
FreshRows ==
  \A r \in Requests : log[r].status = "absent" => runs[r] = 0 /\ seen[r] = {}

\* A handler's result waits to be recorded, and settled rows carry outcomes.
OutcomesPresent ==
  /\ \A t \in Threads : pc[t] = "finish" => res[t] \in Outcomes
  /\ \A r \in Requests : Terminal(r) => log[r].outcome \in Outcomes

\* The inductive invariant behind the safety theorems.
IInv ==
  /\ TypeOK
  /\ IdleUnlessServing
  /\ ExclusiveExecution
  /\ FreshRows
  /\ OutcomesPresent
  /\ AtMostOnce
  /\ ReplayConsistent

\* TaskLog starts with an empty table and no thread at work.
LEMMA InitIInv == Init => IInv
  BY DEF Init, IInv, TypeOK, IdleUnlessServing, ExclusiveExecution, FreshRows,
         OutcomesPresent, AtMostOnce, ReplayConsistent, Working, Terminal,
         Absent, NoOutcome, Outcomes

\* A settled row replays as a reply.
LEMMA ReplayType ==
  ASSUME IInv, NEW r \in Requests, Terminal(r)
  PROVE  Replay(log[r]) \in Replies
  BY DEF IInv, OutcomesPresent, Replay, Replies

\* Every step of the daemon preserves the inductive invariant.
LEMMA NextIInv == IInv /\ [Next]_vars => IInv'
<1> SUFFICES ASSUME IInv, [Next]_vars PROVE IInv'
  OBVIOUS
<1> USE DEF IInv, TypeOK, IdleUnlessServing, ExclusiveExecution, FreshRows,
            OutcomesPresent, AtMostOnce, ReplayConsistent, Working, Terminal
<1>1. ASSUME NEW t \in Threads, NEW r \in Requests, Receive(t, r) PROVE IInv'
  BY <1>1 DEF Receive
<1>2. ASSUME NEW t \in Threads, SelectFound(t) PROVE IInv'
  BY <1>2, ReplayType DEF SelectFound
<1>3. ASSUME NEW t \in Threads, SelectNothing(t) PROVE IInv'
  BY <1>3 DEF SelectNothing
<1>4. ASSUME NEW t \in Threads, Insert(t) PROVE IInv'
  BY <1>4 DEF Insert
<1>5. ASSUME NEW t \in Threads, InsertRefused(t) PROVE IInv'
  BY <1>5 DEF InsertRefused
<1>6. ASSUME NEW t \in Threads, HandlerDone(t) PROVE IInv'
  BY <1>6 DEF HandlerDone, HandlerKinds, Outcomes
<1>7. ASSUME NEW t \in Threads, HandlerRaisesOther(t) PROVE IInv'
  BY <1>7 DEF HandlerRaisesOther
<1>8. ASSUME NEW t \in Threads, Finish(t) PROVE IInv'
  <2> DEFINE r == arg[t]
             row == [status |-> StatusFor(res[t]), outcome |-> res[t]]
             reply == [form |-> IF res[t].kind = "error" THEN "error" ELSE "result",
                       outcome |-> res[t]]
  <2>1. r \in Requests /\ res[t] \in Outcomes /\ log[r].status = "in_progress"
    BY <1>8 DEF Finish
  <2>2. log' = [log EXCEPT ![r] = row]
    BY <1>8, <2>1 DEF Finish, FinishTaskLog
  <2>3. seen' \in {seen, [seen EXCEPT ![r] = @ \union {reply}]} /\ seen[r] = {}
    BY <1>8, <2>1 DEF Finish
  <2>4. reply \in Replies /\ Replay(row) = reply
    BY <2>1 DEF Outcomes, Replies, Replay, StatusFor
  <2>5. row.status \in {"completed", "failed"} /\ row.outcome = res[t]
    BY DEF StatusFor
  <2> HIDE DEF row, reply
  <2>6. ReplayConsistent'
    BY <2>1, <2>2, <2>3, <2>4, <2>5
  <2>7. TypeOK'
    <3>1. row \in [status : {"absent", "in_progress", "completed", "failed"},
                   outcome : Outcomes \union {NoOutcome}]
      BY <2>1 DEF row, StatusFor
    <3>2. seen' \in [Requests -> SUBSET Replies]
      BY <2>1, <2>3, <2>4
    <3>3. res' \in [Threads -> Outcomes \union {NoOutcome}]
      BY <1>8 DEF Finish
    <3> QED BY <1>8, <2>1, <2>2, <3>1, <3>2, <3>3 DEF Finish
  <2>8. (IdleUnlessServing /\ ExclusiveExecution /\ OutcomesPresent)'
    BY <1>8, <2>1, <2>2, <2>5 DEF Finish
  <2>9. (FreshRows /\ AtMostOnce)'
    BY <1>8, <2>1, <2>2, <2>3, <2>5 DEF Finish
  <2> QED BY <2>6, <2>7, <2>8, <2>9
<1>9. ASSUME NEW r \in Requests, RecoverRow(r) PROVE IInv'
  BY <1>9 DEF RecoverRow, RecoveryKinds, FinishTaskLog, StatusFor, Outcomes
<1>10. ASSUME NEW r \in Requests, Age(r) PROVE IInv'
  BY <1>10 DEF Age
<1>11. CASE Boot
  BY <1>11 DEF Boot
<1>12. CASE EvictAndServe
  BY <1>12 DEF EvictAndServe, Absent, NoOutcome
<1>13. CASE Crash
  BY <1>13 DEF Crash
<1>14. CASE UNCHANGED vars
  BY <1>14 DEF vars, Replay
<1> QED
  BY <1>1, <1>2, <1>3, <1>4, <1>5, <1>6, <1>7, <1>8, <1>9, <1>10, <1>11, <1>12,
     <1>13, <1>14 DEF Next, WithTaskLog

\* The inductive invariant holds throughout.
THEOREM SafetyInvariant == Spec => []IInv
<1> QED BY InitIInv, NextIInv, PTL DEF Spec

\* with_task_log keeps the type invariant of the task log.
THEOREM TypeCorrect == Spec => []TypeOK
<1>1. IInv => TypeOK
  BY DEF IInv
<1> QED BY <1>1, SafetyInvariant, PTL

\* The primary key on request_id makes executions exclusive: no two threads
\* are ever past the INSERT of the same request id.
THEOREM Exclusive == Spec => []ExclusiveExecution
<1>1. IInv => ExclusiveExecution
  BY DEF IInv
<1> QED BY <1>1, SafetyInvariant, PTL

\* Retries, races and crashes never enter a handler twice for one row.
THEOREM OnceOnly == Spec => []AtMostOnce
<1>1. IInv => AtMostOnce
  BY DEF IInv
<1> QED BY <1>1, SafetyInvariant, PTL

\* Clients are never told two different outcomes of one row.
THEOREM Consistent == Spec => []ReplayConsistent
<1>1. IInv => ReplayConsistent
  BY DEF IInv
<1> QED BY <1>1, SafetyInvariant, PTL

\* A served socket never hides an interrupted request: every in_progress row
\* has its thread or was left behind by an unforeseen exception.
THEOREM Owned == Spec => []InProgressOwned
<1>1. Init => InProgressOwned
  BY DEF Init, InProgressOwned
<1>2. IInv /\ InProgressOwned /\ [Next]_vars => InProgressOwned'
  <2> SUFFICES ASSUME IInv, InProgressOwned, [Next]_vars,
                      phase' = "serving", NEW r \in Requests,
                      log'[r].status = "in_progress"
               PROVE  r \in stuck' \/ \E t \in Threads : Working(t)' /\ arg'[t] = r
    BY DEF InProgressOwned
  <2> USE DEF IInv, TypeOK, InProgressOwned, Working
  <2>1. ASSUME NEW t \in Threads, NEW q \in Requests, Receive(t, q)
        PROVE r \in stuck' \/ \E u \in Threads : Working(u)' /\ arg'[u] = r
    <3>1. r \in stuck \/ \E u \in Threads : Working(u) /\ arg[u] = r
      BY <2>1 DEF Receive
    <3>2. ASSUME NEW u \in Threads, Working(u) /\ arg[u] = r
          PROVE Working(u)' /\ arg'[u] = r
      BY <2>1, <3>2 DEF Receive
    <3> QED BY <2>1, <3>1, <3>2 DEF Receive
  <2>2. ASSUME NEW t \in Threads, WithTaskLog(t), arg[t] # r
        PROVE r \in stuck' \/ \E u \in Threads : Working(u)' /\ arg'[u] = r
    <3>1. log[r] = log'[r] /\ phase = phase' /\ arg' = arg /\ stuck \subseteq stuck'
      BY <2>2 DEF WithTaskLog, SelectFound, SelectNothing, Insert, InsertRefused,
                  HandlerDone, HandlerRaisesOther, Finish, FinishTaskLog
    <3>2. \A u \in Threads : u # t => pc'[u] = pc[u]
      BY <2>2 DEF WithTaskLog, SelectFound, SelectNothing, Insert, InsertRefused,
                  HandlerDone, HandlerRaisesOther, Finish
    <3> QED BY <2>2, <3>1, <3>2
  <2>3. ASSUME NEW t \in Threads, WithTaskLog(t), arg[t] = r
        PROVE r \in stuck' \/ \E u \in Threads : Working(u)' /\ arg'[u] = r
    <3>1. CASE SelectFound(t) \/ SelectNothing(t) \/ InsertRefused(t)
      <4>1. log[r] = log'[r] /\ phase = phase' /\ arg' = arg /\ stuck = stuck'
        BY <3>1 DEF SelectFound, SelectNothing, InsertRefused
      <4>2. \A u \in Threads : Working(u) => pc'[u] = pc[u]
        BY <3>1 DEF SelectFound, SelectNothing, InsertRefused
      <4> QED BY <4>1, <4>2
    <3>2. CASE Insert(t)
      BY <3>2, <2>3 DEF Insert
    <3>3. CASE HandlerDone(t)
      BY <3>3, <2>3 DEF HandlerDone
    <3>4. CASE HandlerRaisesOther(t)
      BY <3>4, <2>3 DEF HandlerRaisesOther
    <3>5. CASE Finish(t)
      <4>1. log'[r].status \in {"absent", "completed", "failed"}
        BY <3>5, <2>3 DEF Finish, FinishTaskLog, StatusFor
      <4> QED BY <4>1
    <3> QED BY <2>3, <3>1, <3>2, <3>3, <3>4, <3>5 DEF WithTaskLog
  <2>4. CASE EvictAndServe
    BY <2>4 DEF EvictAndServe, Absent
  <2>5. ASSUME NEW q \in Requests, RecoverRow(q) \/ Age(q)
        PROVE r \in stuck' \/ \E u \in Threads : Working(u)' /\ arg'[u] = r
    BY <2>5 DEF RecoverRow, Age
  <2>6. CASE Boot \/ Crash \/ UNCHANGED vars
    BY <2>6 DEF Boot, Crash, vars
  <2> QED BY <2>1, <2>2, <2>3, <2>4, <2>5, <2>6 DEF Next
<1> QED BY <1>1, <1>2, SafetyInvariant, PTL DEF Spec
-----------------------------------------------------------------------------
(* Refinement *)

\* The initial states of the task log map to initial states of Idempotency.
LEMMA InitRefines == Init => Idem!Init
  BY DEF Init, Idem!Init, Absent, Terminal, Life, SettledAnswer

\* Settling the in_progress row of r is Idempotency's Answer step.
LEMMA SettleAnswers ==
  ASSUME IInv, NEW r \in Requests, NEW row, log[r].status = "in_progress",
         row.status \in {"completed", "failed"},
         log' = [log EXCEPT ![r] = row],
         seen' \in {seen, [seen EXCEPT ![r] = @ \union {Replay(row)}]}
  PROVE  Idem!Answer(r, Replay(row))
<1> USE DEF IInv, TypeOK, Terminal
<1>1. Life[r] = "working" /\ Life' = [Life EXCEPT ![r] = "answered"]
  BY DEF Life
<1>2. SettledAnswer' = [SettledAnswer EXCEPT ![r] = Replay(row)]
  BY DEF SettledAnswer
<1> QED BY <1>1, <1>2 DEF Idem!Answer

\* A step that changes neither rows nor replies is invisible to Idempotency.
LEMMA InvisibleStep == UNCHANGED <<log, seen>> => UNCHANGED Idem!vars
  BY DEF Idem!vars, Life, SettledAnswer, Terminal

\* Every step of the task log maps to a step of Idempotency or to none.
LEMMA NextRefines == IInv /\ [Next]_vars => [Idem!Next]_(Idem!vars)
<1> SUFFICES ASSUME IInv, [Next]_vars PROVE [Idem!Next]_(Idem!vars)
  OBVIOUS
<1>1. ASSUME NEW t \in Threads, SelectFound(t), Terminal(arg[t]) PROVE Idem!Next
  <2>1. arg[t] \in Requests
    BY DEF IInv, TypeOK
  <2>2. Life[arg[t]] = "answered" /\ SettledAnswer[arg[t]] = Replay(log[arg[t]])
    BY <1>1, <2>1 DEF Life, SettledAnswer, Terminal
  <2>3. UNCHANGED <<Life, SettledAnswer>>
    BY <1>1 DEF SelectFound, Life, SettledAnswer, Terminal
  <2>4. Idem!Tell(arg[t])
    BY <1>1, <2>2, <2>3 DEF SelectFound, Idem!Tell
  <2> QED BY <2>1, <2>4 DEF Idem!Next
<1>2. ASSUME NEW t \in Threads, SelectFound(t), ~Terminal(arg[t])
      PROVE UNCHANGED <<log, seen>>
  BY <1>2 DEF SelectFound, IInv, TypeOK
<1>3. ASSUME NEW t \in Threads, Insert(t) PROVE Idem!Next
  <2>1. arg[t] \in Requests
    BY DEF IInv, TypeOK
  <2>2. Life[arg[t]] = "new" /\ Life' = [Life EXCEPT ![arg[t]] = "working"]
    BY <1>3, <2>1 DEF Insert, Life, Terminal, IInv, TypeOK
  <2>3. SettledAnswer' = SettledAnswer
    BY <1>3, <2>1 DEF Insert, SettledAnswer, Terminal, IInv, TypeOK
  <2>4. Idem!Work(arg[t])
    BY <1>3, <2>2, <2>3 DEF Insert, Idem!Work
  <2> QED BY <2>1, <2>4 DEF Idem!Next
<1>4. ASSUME NEW t \in Threads, Finish(t) PROVE Idem!Next
  <2> DEFINE r == arg[t]
             row == [status |-> StatusFor(res[t]), outcome |-> res[t]]
             reply == [form |-> IF res[t].kind = "error" THEN "error" ELSE "result",
                       outcome |-> res[t]]
  <2>1. r \in Requests /\ res[t] \in Outcomes /\ log[r].status = "in_progress"
    BY <1>4 DEF Finish, IInv, TypeOK, ExclusiveExecution, Working, OutcomesPresent
  <2>2. log' = [log EXCEPT ![r] = row]
    BY <1>4, <2>1 DEF Finish, FinishTaskLog
  <2>3. reply \in Replies /\ Replay(row) = reply
    BY <2>1 DEF Outcomes, Replies, Replay, StatusFor
  <2>4. row.status \in {"completed", "failed"}
    BY DEF StatusFor
  <2>5. seen' \in {seen, [seen EXCEPT ![r] = @ \union {reply}]}
    BY <1>4 DEF Finish
  <2> HIDE DEF r, row, reply
  <2>6. Idem!Answer(r, Replay(row))
    BY <2>1, <2>2, <2>3, <2>4, <2>5, SettleAnswers
  <2> QED BY <2>1, <2>3, <2>6 DEF Idem!Next
<1>5. ASSUME NEW r \in Requests, RecoverRow(r) PROVE Idem!Next
  <2>1. PICK o \in Outcomes :
          log' = [log EXCEPT ![r] = [status |-> StatusFor(o), outcome |-> o]]
    BY <1>5 DEF RecoverRow, RecoveryKinds, FinishTaskLog, Outcomes
  <2> DEFINE row == [status |-> StatusFor(o), outcome |-> o]
  <2>2. row.status \in {"completed", "failed"} /\ Replay(row) \in Replies
    BY DEF StatusFor, Replay, Replies
  <2>3. log[r].status = "in_progress" /\ seen' = seen
    BY <1>5 DEF RecoverRow
  <2> HIDE DEF row
  <2>4. Idem!Answer(r, Replay(row))
    BY <2>1, <2>2, <2>3, SettleAnswers DEF row
  <2> QED BY <2>2, <2>4 DEF Idem!Next
<1>6. ASSUME EvictAndServe PROVE Idem!Next
  <2> DEFINE gone == {r \in old : Terminal(r)}
  <2>1. gone \in SUBSET Requests
    BY DEF IInv, TypeOK
  <2>2. \A r \in gone : Life[r] = "answered"
    BY <2>1 DEF Life, Terminal
  <2>3. Life' = [r \in Requests |-> IF r \in gone THEN "new" ELSE Life[r]]
    BY <1>6 DEF EvictAndServe, Life, Absent, Terminal
  <2>4. SettledAnswer' =
          [r \in Requests |-> IF r \in gone THEN "unanswered" ELSE SettledAnswer[r]]
    BY <1>6 DEF EvictAndServe, SettledAnswer, Absent, Terminal
  <2>5. seen' = [r \in Requests |-> IF r \in gone THEN {} ELSE seen[r]]
    BY <1>6 DEF EvictAndServe
  <2> HIDE DEF gone
  <2>6. Idem!Forget(gone)
    BY <2>2, <2>3, <2>4, <2>5 DEF Idem!Forget
  <2> QED BY <2>1, <2>6 DEF Idem!Next
<1>7. ASSUME NEW t \in Threads,
             SelectNothing(t) \/ InsertRefused(t) \/ HandlerDone(t) \/ HandlerRaisesOther(t)
      PROVE UNCHANGED <<log, seen>>
  BY <1>7 DEF SelectNothing, InsertRefused, HandlerDone, HandlerRaisesOther
<1>8. ASSUME NEW t \in Threads, NEW r \in Requests, Receive(t, r)
      PROVE UNCHANGED <<log, seen>>
  BY <1>8 DEF Receive
<1>9. ASSUME NEW r \in Requests, Age(r) PROVE UNCHANGED <<log, seen>>
  BY <1>9 DEF Age
<1>10. ASSUME Boot \/ Crash \/ UNCHANGED vars PROVE UNCHANGED <<log, seen>>
  BY <1>10 DEF Boot, Crash, vars
<1> QED
  BY <1>1, <1>2, <1>3, <1>4, <1>5, <1>6, <1>7, <1>8, <1>9, <1>10, InvisibleStep
  DEF Next, WithTaskLog

\* The task log implements Idempotency: with SQL statements as the only atomic
\* steps, threads, crashes and recovery, a request id is worked on once and
\* answered with one answer until its row is evicted.
THEOREM Refinement == Spec => ImplementsIdempotency
<1> QED
  BY InitRefines, NextRefines, SafetyInvariant, PTL
  DEF Spec, ImplementsIdempotency, Idem!Spec
-----------------------------------------------------------------------------
(* AuditorLoop: what a heartbeat vouches for, what a deduplicated tick stands for, and *)
(* that the deadman script raises no false alarm. *)

Kinds == {"none", "deduplicated"} \union Loop!Answers

\* Verdicts and flags have their types.
Flags ==
  /\ verdict \in [kind : Kinds, beat : BOOLEAN] /\ stop \in BOOLEAN
  /\ deadman \in [due : Nat, alert : BOOLEAN]

\* The Harbor, the loop, the files and the clocks have theirs.
World == harbor \in Harbors /\ notes \in Seq(Nat) /\ Len(notes) <= MaxNotes
LoopSteps == loop \in [at : {"stopped", "tick", "deep", "sleep"}, left : Nat]
Files ==
  /\ saved \in [sig : Loop!Signatures \union {None}, age : 0..ForceRefresh]
  /\ asked \in [sig : Loop!Signatures, age : 0..ForceRefresh]
Clocks == hb \in Nat \union {None} /\ thread \in 0..Loop!Closed /\ answered \in 0..Loop!LongAgo

\* The file is as old as an answer: the LLM has not been silent for longer, neither
\* altogether nor about the state in the file.
SavedIsAnswered ==
  saved.age < ForceRefresh =>
    /\ answered <= saved.age
    /\ saved.sig = asked.sig => asked.age <= saved.age

\* After a tick that touched the heartbeat, its age and what is left of the sleep add up
\* to no more than the longest cadence.
BeatIsYoung ==
  verdict.beat /\ hb # None =>
    /\ loop.at = "sleep" => hb + loop.left <= Quiet
    /\ loop.at = "deep" => hb = 0

\* The inductive invariant.
LoopIInv ==
  /\ Flags /\ World /\ LoopSteps /\ Files /\ Clocks
  /\ SavedIsAnswered /\ BeatIsYoung /\ Loop!HeartbeatHonest
-----------------------------------------------------------------------------
\* What a tick computes is a signature.
LEMMA SignatureType ==
  ASSUME Loop!AuditorLoopAssumption
  PROVE  World => Loop!Signature \in Loop!Signatures
<1> SUFFICES ASSUME World PROVE Loop!Signature \in Loop!Signatures
  OBVIOUS
<1>1. DOMAIN notes = 1..Len(notes) /\ 1..Len(notes) \subseteq 1..MaxNotes
  BY DEF Loop!AuditorLoopAssumption, World
<1>2. {i \in DOMAIN notes : notes[i] > 0} \in SUBSET (1..MaxNotes)
  BY <1>1
<1>3. QED
  BY <1>2 DEF Loop!Signature, Loop!Signatures, World

\* An iteration ends stopped, or asleep for at most the longest cadence.
LEMMA RestType ==
  ASSUME Loop!AuditorLoopAssumption, NEW sent, NEW next \in Loop!Rest(sent)
  PROVE  /\ next \in [at : {"stopped", "sleep"}, left : Nat]
         /\ next.at = "sleep" => next.left <= Quiet
BY DEF Loop!AuditorLoopAssumption, Loop!Rest, Loop!Cadences, Loop!Stopped

\* Touch leaves a heartbeat of age 0, or none of its own.
LEMMA TouchType ==
  ASSUME Loop!AuditorLoopAssumption, NEW kind \in Kinds, Loop!Touch(kind)
  PROVE  /\ verdict' \in [kind : Kinds, beat : BOOLEAN] /\ verdict'.kind = kind
         /\ hb' = 0 \/ (hb' = hb /\ ~verdict'.beat)
<1>1. CASE hb' = 0 /\ verdict' = [kind |-> kind, beat |-> TRUE]
  BY <1>1
<1>2. CASE hb' = hb /\ verdict' = [kind |-> kind, beat |-> FALSE]
  BY <1>2
<1>3. QED
  BY <1>1, <1>2 DEF Loop!Touch

\* The invariant holds at first.
LEMMA InitLoop ==
  ASSUME Loop!AuditorLoopAssumption
  PROVE  Loop!Init => LoopIInv
<1> SUFFICES ASSUME Loop!Init PROVE LoopIInv
  OBVIOUS
<1> USE DEF Loop!AuditorLoopAssumption, Loop!Init
<1>1. World /\ LoopSteps
  BY DEF World, LoopSteps
<1>2. Flags
  BY DEF Flags, Kinds
<1>3. ~verdict.beat
  BY Zenon
<1>4. Files /\ Clocks
  BY DEF Files, Clocks, Loop!NoState, Loop!Closed, Loop!LongAgo
<1>5. SavedIsAnswered /\ Loop!HeartbeatHonest
  BY DEF SavedIsAnswered, Loop!HeartbeatHonest, Loop!NoState
<1>6. QED
  BY <1>1, <1>2, <1>3, <1>4, <1>5 DEF LoopIInv, BeatIsYoung

\* Every step keeps it.
LEMMA NextLoop ==
  ASSUME Loop!AuditorLoopAssumption, LoopIInv, [Loop!Next]_Loop!vars
  PROVE  LoopIInv'
<1> USE DEF Loop!AuditorLoopAssumption
<1> USE DEF LoopIInv, Loop!world, Loop!history
<1> DEFINE Napping == loop'.at = "sleep" => loop'.left <= Quiet
           Beaten == hb' = 0 \/ (hb' = hb /\ ~verdict'.beat)
<1>0. Loop!Signature \in Loop!Signatures
  BY SignatureType
<1>1. CASE Loop!Deduplicate
  <2>1. LoopSteps' /\ Napping
    BY <1>1, RestType DEF Loop!Deduplicate, LoopSteps
  <2>2. verdict' \in [kind : Kinds, beat : BOOLEAN] /\ Beaten
    BY <1>1, TouchType DEF Loop!Deduplicate, Kinds
  <2>3. UNCHANGED <<harbor, notes, saved, thread, stop, deadman, asked, answered>>
    BY <1>1 DEF Loop!Deduplicate
  <2>4. saved.age < ForceRefresh
    BY <1>1 DEF Loop!Deduplicate, Loop!ShouldSkip
  <2>5. Flags' /\ World' /\ Files'
    BY <2>2, <2>3 DEF Flags, World, Files
  <2>6. Clocks'
    BY <2>2, <2>3 DEF Clocks, Loop!Closed, Loop!LongAgo
  <2>7. SavedIsAnswered' /\ Loop!HeartbeatHonest'
    BY <2>2, <2>3, <2>4 DEF SavedIsAnswered, Loop!HeartbeatHonest, Files, Clocks, Loop!LongAgo
  <2>8. BeatIsYoung'
    BY <2>1, <2>2 DEF BeatIsYoung, LoopSteps
  <2>9. QED
    BY <2>1, <2>5, <2>6, <2>7, <2>8
<1>2. CASE Loop!Judge
  <2>1. PICK a \in Loop!Answers : /\ Loop!Touch(a)
                             /\ loop' \in IF a = "flagged" THEN {Loop!At("deep")}
                                         ELSE Loop!Rest(thread)
    BY <1>2 DEF Loop!Judge
  <2>2. LoopSteps' /\ Napping
    BY <2>1, RestType DEF Loop!At, LoopSteps
  <2>3. verdict' \in [kind : Kinds, beat : BOOLEAN] /\ Beaten
    BY <2>1, TouchType DEF Kinds
  <2>4. /\ UNCHANGED <<harbor, notes, thread, stop, deadman>> /\ answered' = 0
        /\ saved' \in {saved, [sig |-> Loop!Signature, age |-> 0]}
        /\ asked' = IF asked.sig = Loop!Signature THEN [asked EXCEPT !.age = 0] ELSE asked
    BY <1>2 DEF Loop!Judge
  <2>5. Flags' /\ World'
    BY <2>3, <2>4 DEF Flags, World
  <2>6. Files'
    BY <1>0, <2>4 DEF Files
  <2>7. Clocks' /\ Loop!HeartbeatHonest'
    BY <2>3, <2>4 DEF Loop!HeartbeatHonest, Clocks, Loop!Closed, Loop!LongAgo
  <2>8. SavedIsAnswered'
    BY <2>4 DEF SavedIsAnswered, Files
  <2>9. BeatIsYoung'
    BY <2>2, <2>3 DEF BeatIsYoung, LoopSteps
  <2>10. QED
    BY <2>2, <2>5, <2>6, <2>7, <2>8, <2>9
<1>3. CASE Loop!Unavailable
  <2>1. LoopSteps'
    BY <1>3, RestType DEF Loop!Unavailable, LoopSteps
  <2>2. verdict' \in [kind : Kinds, beat : BOOLEAN] /\ ~verdict'.beat
    BY <1>3 DEF Loop!Unavailable, Kinds, Loop!Answers
  <2>3. UNCHANGED <<harbor, notes, saved, hb, thread, stop, deadman, asked, answered>>
    BY <1>3 DEF Loop!Unavailable
  <2>4. Flags' /\ World' /\ BeatIsYoung'
    BY <2>2, <2>3 DEF Flags, World, BeatIsYoung
  <2>5. Files' /\ Clocks' /\ SavedIsAnswered' /\ Loop!HeartbeatHonest'
    BY <2>3 DEF Files, Clocks, SavedIsAnswered, Loop!HeartbeatHonest, Loop!Closed, Loop!LongAgo
  <2>6. QED
    BY <2>1, <2>4, <2>5
<1>4. CASE Loop!DeepAnalyze
  <2>1. LoopSteps' /\ Napping /\ loop'.at # "deep"
    BY <1>4, RestType DEF Loop!DeepAnalyze, LoopSteps
  <2>2. /\ loop.at = "deep" /\ thread' \in {thread, 0}
        /\ UNCHANGED <<harbor, notes, saved, hb, verdict, stop, deadman, asked, answered>>
    BY <1>4 DEF Loop!DeepAnalyze
  <2>3. Flags' /\ World' /\ Files' /\ SavedIsAnswered' /\ Loop!HeartbeatHonest'
    BY <2>2 DEF Flags, World, Files, SavedIsAnswered, Loop!HeartbeatHonest
  <2>4. Clocks'
    BY <2>2 DEF Clocks, Loop!Closed, Loop!LongAgo
  <2>5. BeatIsYoung'
    BY <2>1, <2>2 DEF BeatIsYoung, LoopSteps
  <2>6. QED
    BY <2>1, <2>3, <2>4, <2>5
<1>5. CASE Loop!Wake \/ Loop!Raise \/ Loop!Start
  <2>1. loop' \in {Loop!Stopped, Loop!At("tick")}
    BY <1>5 DEF Loop!Wake, Loop!Raise, Loop!Start
  <2>2. LoopSteps' /\ loop'.at \notin {"sleep", "deep"}
    BY <2>1 DEF Loop!Stopped, Loop!At, LoopSteps
  <2>3. /\ UNCHANGED <<harbor, notes, saved, hb, thread, verdict, deadman, asked, answered>>
        /\ stop' \in BOOLEAN
    BY <1>5 DEF Loop!Wake, Loop!Raise, Loop!Start, Flags
  <2>4. Flags' /\ World' /\ Files' /\ SavedIsAnswered' /\ Loop!HeartbeatHonest'
    BY <2>3 DEF Flags, World, Files, SavedIsAnswered, Loop!HeartbeatHonest
  <2>5. Clocks' /\ BeatIsYoung'
    BY <2>2, <2>3 DEF Clocks, BeatIsYoung, Loop!Closed, Loop!LongAgo
  <2>6. QED
    BY <2>2, <2>4, <2>5
<1>6. CASE Loop!StopSignal \/ Loop!DeadmanRun \/ Loop!HarborChanges \/ Loop!RegisterClarification
  <2>1. UNCHANGED <<saved, hb, thread, loop, verdict, asked, answered>>
    BY <1>6 DEF Loop!StopSignal, Loop!DeadmanRun, Loop!HarborChanges, Loop!RegisterClarification
  <2>2. Flags'
    <3>1. stop' \in BOOLEAN
      BY <1>6 DEF Loop!StopSignal, Loop!DeadmanRun, Loop!HarborChanges,
                  Loop!RegisterClarification, Flags
    <3>2. CASE Loop!DeadmanRun
      <4>1. deadman' = [due |-> Period, alert |-> Loop!IsStale] /\ Loop!IsStale \in BOOLEAN
        BY <3>2 DEF Loop!DeadmanRun, Loop!IsStale
      <4>2. QED
        BY <2>1, <3>1, <4>1 DEF Flags
    <3>3. CASE UNCHANGED deadman
      BY <2>1, <3>1, <3>3 DEF Flags
    <3>4. QED
      BY <1>6, <3>2, <3>3 DEF Loop!StopSignal, Loop!HarborChanges, Loop!RegisterClarification
  <2>3. World'
    <3>1. CASE Loop!RegisterClarification
      BY <3>1 DEF Loop!RegisterClarification, World
    <3>2. CASE UNCHANGED notes
      BY <1>6, <3>2 DEF Loop!StopSignal, Loop!DeadmanRun, Loop!HarborChanges,
                        Loop!RegisterClarification, World
    <3>3. QED
      BY <1>6, <3>1, <3>2 DEF Loop!StopSignal, Loop!DeadmanRun, Loop!HarborChanges
  <2>4. LoopSteps' /\ Files' /\ SavedIsAnswered' /\ BeatIsYoung'
    BY <2>1 DEF LoopSteps, Files, SavedIsAnswered, BeatIsYoung
  <2>5. Clocks' /\ Loop!HeartbeatHonest'
    BY <2>1 DEF Clocks, Loop!HeartbeatHonest, Loop!Closed, Loop!LongAgo
  <2>6. QED
    BY <2>2, <2>3, <2>4, <2>5
<1>7. CASE Loop!Pass
  <2>1. World'
    <3>1. notes' = [i \in 1..Len(notes) |-> IF notes[i] > 0 THEN notes[i] - 1 ELSE 0]
      BY <1>7 DEF Loop!Pass, World
    <3>2. notes' \in [1..Len(notes) -> Nat] /\ Len(notes) \in Nat
      BY <3>1 DEF World
    <3>3. notes' \in Seq(Nat) /\ Len(notes') = Len(notes)
      BY <3>2
    <3>4. QED
      BY <1>7, <3>3 DEF Loop!Pass, World
  <2>2. deadman' \in [due : Nat, alert : BOOLEAN]
    BY <1>7 DEF Loop!Pass, Flags
  <2>3. /\ LoopSteps' /\ loop'.at \in {"stopped", "sleep"}
        /\ loop'.at = "sleep" => loop.at = "sleep" /\ loop'.left + 1 = loop.left
    BY <1>7 DEF Loop!Pass, LoopSteps
  <2>4. /\ saved' = [saved EXCEPT !.age = Loop!Older(saved.age, ForceRefresh)]
        /\ asked' = [asked EXCEPT !.age = Loop!Older(asked.age, ForceRefresh)]
    BY <1>7 DEF Loop!Pass
  <2>5. /\ answered' = Loop!Older(answered, Loop!LongAgo)
        /\ thread' = Loop!Older(thread, Loop!Closed)
        /\ hb' = IF hb = None THEN None ELSE Loop!Older(hb, Loop!Stale)
        /\ UNCHANGED <<harbor, verdict, stop>>
    BY <1>7 DEF Loop!Pass
  <2>6. /\ Loop!Older(saved.age, ForceRefresh) \in 0..ForceRefresh
        /\ Loop!Older(asked.age, ForceRefresh) \in 0..ForceRefresh
    BY DEF Files, Loop!Older
  <2>7. /\ Files' /\ saved'.sig = saved.sig /\ asked'.sig = asked.sig
        /\ saved'.age = Loop!Older(saved.age, ForceRefresh)
        /\ asked'.age = Loop!Older(asked.age, ForceRefresh)
    BY <2>4, <2>6 DEF Files
  <2>8. Clocks'
    BY <2>5 DEF Clocks, Loop!Older, Loop!Stale, Loop!Closed, Loop!LongAgo
  <2>9. SavedIsAnswered'
    <3>1. saved.age \in 0..ForceRefresh /\ asked.age \in 0..ForceRefresh
      BY DEF Files
    <3>2. QED
      BY <2>5, <2>7, <3>1 DEF Clocks, SavedIsAnswered, Loop!Older, Loop!LongAgo
  <2>10. BeatIsYoung'
    BY <2>3, <2>5 DEF Clocks, LoopSteps, BeatIsYoung, Loop!Older, Loop!Stale
  <2>11. Loop!HeartbeatHonest'
    BY <2>5 DEF Clocks, Loop!HeartbeatHonest, Loop!Older, Loop!Stale, Loop!LongAgo
  <2>12. Flags'
    BY <2>2, <2>5 DEF Flags
  <2>13. QED
    BY <2>1, <2>3, <2>7, <2>8, <2>9, <2>10, <2>11, <2>12
<1>8. CASE UNCHANGED Loop!vars
  BY <1>8 DEF Loop!vars, Flags, World, LoopSteps, Files, Clocks, SavedIsAnswered, BeatIsYoung,
              Loop!HeartbeatHonest, Loop!Closed, Loop!LongAgo
<1>9. QED
  BY <1>1, <1>2, <1>3, <1>4, <1>5, <1>6, <1>7, <1>8 DEF Loop!Next, Loop!LoopStep
-----------------------------------------------------------------------------
\* HeartbeatHonest in every behaviour: a heartbeat young enough for the deadman script
\* (heartbeat.is_stale) was touched less than FORCE_REFRESH_SECONDS after an answer of
\* the LLM, for any cadences and thresholds.
THEOREM HeartbeatVouches == Loop!Spec => []HeartbeatHonest
<1> USE LoopConstants
<1>1. LoopIInv => HeartbeatHonest
  BY DEF LoopIInv, HeartbeatHonest
<1>2. QED
  BY <1>1, InitLoop, NextLoop, PTL DEF Loop!Spec

\* DedupIsFresh in every behaviour: a tick that watch_once skips stands for an answer
\* about the very same signature, younger than FORCE_REFRESH_SECONDS.
THEOREM SkippedTicksFresh == Loop!Spec => DedupIsFresh
<1> USE LoopConstants
<1>1. ASSUME LoopIInv, [Loop!Next]_Loop!vars
      PROVE  [loop.at = "tick" /\ loop'.at = "sleep" /\ verdict'.kind = "deduplicated"
                /\ asked.sig = Loop!Signature => asked.age < ForceRefresh]_Loop!vars
  <2> SUFFICES ASSUME Loop!Next, loop.at = "tick", loop'.at = "sleep",
                      verdict'.kind = "deduplicated", asked.sig = Loop!Signature
               PROVE  asked.age < ForceRefresh
    BY <1>1
  <2>1. Loop!Deduplicate
    <3>1. CASE Loop!Judge
      <4>1. PICK a \in Loop!Answers : Loop!Touch(a)
        BY <3>1 DEF Loop!Judge
      <4>2. verdict'.kind = a
        BY <4>1, TouchType DEF Kinds
      <4>3. QED
        BY <4>2 DEF Loop!Answers
    <3>2. CASE Loop!Unavailable
      BY <3>2 DEF Loop!Unavailable
    <3>3. CASE Loop!DeepAnalyze \/ Loop!Wake \/ Loop!Start \/ Loop!Pass
      BY <3>3 DEF Loop!DeepAnalyze, Loop!Wake, Loop!Start, Loop!Pass, Loop!At
    <3>4. CASE \/ Loop!Raise \/ Loop!StopSignal \/ Loop!DeadmanRun \/ Loop!HarborChanges
               \/ Loop!RegisterClarification
      BY <3>4 DEF Loop!Raise, Loop!StopSignal, Loop!DeadmanRun, Loop!HarborChanges,
                  Loop!RegisterClarification, Loop!Stopped
    <3>5. QED
      BY <3>1, <3>2, <3>3, <3>4 DEF Loop!Next, Loop!LoopStep
  <2>2. saved.sig = Loop!Signature /\ saved.age < ForceRefresh
    BY <2>1 DEF Loop!Deduplicate, Loop!ShouldSkip
  <2>3. QED
    BY <1>1, <2>2 DEF Loop!AuditorLoopAssumption, LoopIInv, Files, SavedIsAnswered
<1>2. QED
  BY <1>1, InitLoop, NextLoop, PTL DEF Loop!Spec, DedupIsFresh, Loop!DedupIsFresh

\* NoFalseAlarm in every behaviour: the script alerts only when the loop is not asleep
\* after a tick that touched the heartbeat, for any cadence up to the threshold.
THEOREM AlarmsJustified == Loop!Spec => NoFalseAlarm
<1> USE LoopConstants
<1>1. ASSUME LoopIInv, [Loop!Next]_Loop!vars
      PROVE  [~deadman.alert /\ deadman'.alert => loop.at # "sleep" \/ ~verdict.beat]_Loop!vars
  <2>1. CASE Loop!DeadmanRun
    <3>1. deadman'.alert => Loop!IsStale
      BY <2>1 DEF Loop!DeadmanRun
    <3>2. Loop!IsStale /\ loop.at = "sleep" => ~verdict.beat
      BY <1>1 DEF Loop!AuditorLoopAssumption, Loop!IsStale, LoopIInv, LoopSteps, Clocks, BeatIsYoung
    <3>3. QED
      BY <3>1, <3>2
  <2>2. CASE ~Loop!DeadmanRun /\ Loop!Next
    <3>1. CASE Loop!Pass
      <4>1. deadman'.alert = deadman.alert
        BY <1>1, <3>1 DEF Loop!Pass, LoopIInv, Flags
      <4>2. QED
        BY <4>1, Zenon
    <3>2. CASE ~Loop!Pass
      <4>1. UNCHANGED deadman
        BY <2>2, <3>2 DEF Loop!Next, Loop!LoopStep, Loop!Deduplicate, Loop!Judge,
                          Loop!Unavailable, Loop!DeepAnalyze, Loop!Wake, Loop!Raise,
                          Loop!StopSignal, Loop!Start, Loop!HarborChanges, Loop!RegisterClarification
      <4>2. QED
        BY <4>1
    <3>3. QED
      BY <3>1, <3>2
  <2>3. QED
    BY <1>1, <2>1, <2>2
<1>2. QED
  BY <1>1, InitLoop, NextLoop, PTL DEF Loop!Spec, NoFalseAlarm, Loop!NoFalseAlarm
=============================================================================
