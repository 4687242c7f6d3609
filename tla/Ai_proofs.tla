------------------------------- MODULE Ai_proofs -------------------------------
(***************************************************************************)
(* Of the parts of MCAi, for any bounds: a request to a model gets one     *)
(* answer, and neither a call nor an answer survives a change of the       *)
(* policy; the index obeys the analysts; and what Collections_proofs       *)
(* proves of executions holds of the parts that compare and remove them.   *)
(* Of the rules an answer is checked by: what is shown rests on the case.  *)
(***************************************************************************)
EXTENDS MCAi, FiniteSetTheorems, FunctionTheorems, WellFoundedInduction, TLAPS

\* A worker counts its calls only while it calls, and what it finishes is not an answer.
WorkersAreConsistent ==
  \A w \in Workers :
    /\ worker[w].step \notin {"grant", "call"} => worker[w].tries = 0
    /\ worker[w].step = "grant" => worker[w].tries < MaxTries
    /\ worker[w].step = "finish" => worker[w].outcome \in {"failed", "canceled"}

\* A run that waits was never claimed.
QueuedIsUnclaimed == airun.status \in {"none", "queued"} => airun.claims = 0

\* What somebody has loaded is older than the change that will be made of it.
VersionsFollow ==
  /\ edits <= MaxEdits /\ policy.version <= edits
  /\ \A l \in loaded.set : l.seen.version < l.by /\ l.by <= edits

\* The answer of a run is the last thing that happens to it.
AnswerIsLast == airun.status \in {"none"} \cup Answers!Live => answers = 0

\* A change of the policy ends a run that waits and marks one that works; neither is undone.
ChangeStops == changed => \/ airun.status \in Answers!Ended
                          \/ airun.status = "running" /\ airun.cancel

AnswersIInv ==
  /\ Answers!TypeOK /\ edits \in Nat
  /\ WorkersAreConsistent /\ QueuedIsUnclaimed /\ VersionsFollow
  /\ AnswerIsLast /\ Answers!OneAnswer /\ ChangeStops

-----------------------------------------------------------------------------
(* The types, by their parts.                                              *)

Rows == [status : {"none"} \cup Answers!Live \cup Answers!Ended, version : 0 .. MaxEdits, location : {"local", "cloud"},
         claims : 0 .. MaxClaims, token : 0 .. MaxClaims, lapsed : BOOLEAN, cancel : BOOLEAN]
Loads == [create : SUBSET Answers!Policies, cancel : SUBSET Answers!Live, set : SUBSET Answers!Sessions]
Tasks == [step : {"idle", "check", "retrieve", "grant", "call", "persist", "finish"},
          token : 0 .. MaxClaims, stage : Answers!Stages, tries : 0 .. MaxTries, outcome : {"none"} \cup Answers!Ended]

\* The constants and the variables in the form the arithmetic needs.
LEMMA Facts ==
  ASSUME Answers!AiRunsAssumption, AnswersIInv
  PROVE  /\ MaxClaims \in Nat \ {0} /\ MaxTries \in Nat \ {0} /\ MaxFaults \in Nat /\ MaxEdits \in Nat
         /\ airun \in Rows /\ loaded \in Loads /\ worker \in [Workers -> Tasks] /\ policy \in Answers!Policies
         /\ airun.claims \in Nat /\ faults \in 0 .. MaxFaults /\ edits \in Nat /\ answers \in 0 .. 2
  BY DEF Answers!AiRunsAssumption, AnswersIInv, Answers!TypeOK, Rows, Loads, Tasks

\* What changes keeps its type, and the rest is unchanged.
LEMMA TypesKept ==
  ASSUME Answers!AiRunsAssumption, AnswersIInv,
         outbox' = outbox \/ Answers!Enqueue \/ Answers!MarkDone, inbox' \in BOOLEAN, UNCHANGED <<Answers!caseVars, kind, changed, edits>>,
         overtaken' \in BOOLEAN, faults' \in 0 .. MaxFaults, answers' \in 0 .. 2,
         airun' \in Rows, loaded' \in Loads, worker' \in [Workers -> Tasks]
  PROVE  Answers!TypeOK'
  BY DEF AnswersIInv, Answers!TypeOK, Answers!OutboxTypeOK, Answers!Enqueue, Answers!MarkDone,
     Answers!caseVars, Rows, Loads, Tasks

\* Before a run is requested the invariant holds.
LEMMA AnswersInit == ASSUME Answers!AiRunsAssumption, Answers!Init PROVE AnswersIInv
<1>1. 0 \in 0 .. MaxClaims /\ 0 \in 0 .. MaxTries /\ 0 \in 0 .. MaxFaults /\ 0 \in 0 .. MaxEdits /\ 0 <= MaxEdits
  BY DEF Answers!AiRunsAssumption
<1>2. airun \in Rows /\ loaded \in Loads /\ worker \in [Workers -> Tasks] /\ policy \in Answers!Policies
  BY <1>1 DEF Answers!Init, Answers!NoRun, Answers!Nothing, Answers!Idle, Rows, Loads, Tasks,
     Answers!Policies, Answers!Stages
<1>3. Answers!TypeOK
  <2>1. Answers!OutboxTypeOK
    BY DEF Answers!Init, Answers!OutboxInit, Answers!OutboxTypeOK
  <2>3. answers \in 0 .. 2 /\ faults \in 0 .. MaxFaults
    BY <1>1 DEF Answers!Init
  <2>2. {changed, overtaken} \subseteq BOOLEAN
    BY DEF Answers!Init
  <2> QED
    BY <1>1, <1>2, <2>1, <2>2, <2>3 DEF Answers!Init, Answers!TypeOK, Rows, Loads, Tasks
<1>4. WorkersAreConsistent /\ QueuedIsUnclaimed /\ AnswerIsLast /\ Answers!OneAnswer /\ ChangeStops
  BY DEF Answers!Init, WorkersAreConsistent, QueuedIsUnclaimed, AnswerIsLast, Answers!OneAnswer,
     ChangeStops, Answers!NoRun, Answers!Idle
<1>5. VersionsFollow
  BY <1>1 DEF Answers!Init, VersionsFollow, Answers!Nothing
<1> QED
  BY <1>1, <1>3, <1>4, <1>5 DEF Answers!Init, AnswersIInv

-----------------------------------------------------------------------------
(* The worker.                                                             *)

\* What most steps of workers have in common: the program's data stay, and one worker moves.
LEMMA WorkerMoves ==
  ASSUME Answers!AiRunsAssumption, AnswersIInv, NEW w \in Workers, NEW task \in Tasks,
         worker' = [worker EXCEPT ![w] = task],
         task.step \notin {"grant", "call"} => task.tries = 0,
         task.step = "grant" => task.tries < MaxTries,
         task.step = "finish" => task.outcome \in {"failed", "canceled"}
  PROVE  worker' \in [Workers -> Tasks] /\ WorkersAreConsistent'
<1>1. worker \in [Workers -> Tasks]
  BY Facts
<1>2. worker'[w] = task /\ \A v \in Workers \ {w} : worker'[v] = worker[v]
  BY <1>1
<1> QED
  BY <1>1, <1>2 DEF AnswersIInv, WorkersAreConsistent

\* The run stays where it is, or its lease is renewed, and so does the rest but for a worker.
LEMMA RowStays ==
  ASSUME Answers!AiRunsAssumption, AnswersIInv, worker' \in [Workers -> Tasks], WorkersAreConsistent',
         airun' = airun \/ Answers!Renewed, inbox' \in BOOLEAN, faults' \in 0 .. MaxFaults,
         UNCHANGED <<outbox, Answers!caseVars, kind, answers, loaded, Answers!historyVars, edits>>
  PROVE  AnswersIInv'
<1>1. airun' \in Rows /\ UNCHANGED <<airun.status, airun.claims, airun.cancel>>
  BY Facts DEF Answers!Renewed, Rows
<1>2. Answers!TypeOK'
  BY <1>1, Facts, TypesKept DEF Answers!historyVars, AnswersIInv, Answers!TypeOK
<1>3. QueuedIsUnclaimed' /\ AnswerIsLast' /\ Answers!OneAnswer' /\ ChangeStops'
  BY <1>1 DEF Answers!historyVars, AnswersIInv, QueuedIsUnclaimed, AnswerIsLast, Answers!OneAnswer,
     ChangeStops
<1>4. VersionsFollow'
  BY DEF Answers!caseVars, AnswersIInv, VersionsFollow
<1> QED
  BY <1>2, <1>3, <1>4 DEF AnswersIInv

\* An idle worker has no task.
LEMMA LeavesTask ==
  ASSUME Answers!AiRunsAssumption
  PROVE  Answers!Idle \in Tasks /\ Answers!Idle.step = "idle" /\ Answers!Idle.tries = 0
  BY DEF Answers!AiRunsAssumption, Answers!Idle, Tasks, Answers!Stages

\* A worker that stops before its answer goes on to finish with that outcome.
LEMMA StopsTask ==
  ASSUME Answers!AiRunsAssumption, AnswersIInv, NEW w \in Workers, NEW outcome \in {"failed", "canceled"}, Answers!Stops(w, outcome)
  PROVE  worker' \in [Workers -> Tasks] /\ WorkersAreConsistent'
<1> DEFINE task == [Answers!Idle EXCEPT !.step = "finish", !.token = worker[w].token, !.outcome = outcome]
<1>1. worker' = [worker EXCEPT ![w] = task]
  BY DEF Answers!Stops
<1>2. task \in Tasks /\ task.step = "finish" /\ task.tries = 0 /\ task.outcome = outcome
  BY Facts, LeavesTask DEF Answers!Idle, Tasks, Answers!Ended
<1> HIDE DEF task
<1> QED
  BY <1>1, <1>2, WorkerMoves

\* A worker that leaves its task disturbs no other.
LEMMA LeavesWorkers ==
  ASSUME Answers!AiRunsAssumption, AnswersIInv, NEW w \in Workers, Answers!Leaves(w)
  PROVE  worker' \in [Workers -> Tasks] /\ WorkersAreConsistent'
  BY LeavesTask, WorkerMoves DEF Answers!Leaves

\* A worker whose calls are not counted goes to a step, perhaps of another stage.
LEMMA GoesOn ==
  ASSUME Answers!AiRunsAssumption, AnswersIInv, NEW w \in Workers, worker[w].tries = 0,
         NEW step \in {"check", "retrieve", "grant", "persist"}, NEW stage \in Answers!Stages,
         worker' = [worker EXCEPT ![w].step = step, ![w].stage = stage]
  PROVE  worker' \in [Workers -> Tasks] /\ WorkersAreConsistent'
<1> DEFINE task == [worker[w] EXCEPT !.step = step, !.stage = stage]
<1>1. worker' = [worker EXCEPT ![w] = task]
  BY Facts
<1>2. task \in Tasks /\ task.step = step /\ task.tries = 0
  BY Facts DEF Tasks
<1>3. step # "finish" /\ 0 < MaxTries
  BY Facts
<1> HIDE DEF task
<1> QED
  BY <1>1, <1>2, <1>3, WorkerMoves

\* The check at the head of each stage keeps the invariant.
LEMMA CheckStep ==
  ASSUME Answers!AiRunsAssumption, AnswersIInv, NEW w \in Workers, Answers!Check(w)
  PROVE  AnswersIInv'
<1>1. /\ airun' = airun \/ Answers!Renewed
      /\ UNCHANGED <<Answers!outboxVars, Answers!caseVars, kind, answers, loaded, Answers!historyVars, faults, edits>>
  BY DEF Answers!Check
<1>2. worker[w].tries = 0 /\ worker[w].stage \in Answers!Stages /\ worker \in [Workers -> Tasks]
  BY Facts DEF Answers!Check, AnswersIInv, WorkersAreConsistent, Tasks
<1>3. \/ Answers!Leaves(w) \/ Answers!Stops(w, "canceled")
      \/ worker' = [worker EXCEPT ![w].step = "grant"]
      \/ worker' = [worker EXCEPT ![w].stage = "retrieving"]
      \/ worker' = [worker EXCEPT ![w].step = "retrieve"]
      \/ worker' = [worker EXCEPT ![w].step = "persist"]
  BY <1>2 DEF Answers!Check, Answers!Goes, Answers!Stages
<1>4. worker' \in [Workers -> Tasks] /\ WorkersAreConsistent'
  <2>1. CASE Answers!Leaves(w) \/ Answers!Stops(w, "canceled")
    BY <2>1, LeavesWorkers, StopsTask
  <2>2. ASSUME NEW step \in {"grant", "retrieve", "persist"}, worker' = [worker EXCEPT ![w].step = step]
        PROVE  worker' \in [Workers -> Tasks] /\ WorkersAreConsistent'
    <3>1. worker' = [worker EXCEPT ![w].step = step, ![w].stage = worker[w].stage]
      BY <1>2, <2>2 DEF Tasks
    <3> QED
      BY <1>2, <3>1, GoesOn
  <2>3. CASE worker' = [worker EXCEPT ![w].stage = "retrieving"]
    <3>1. worker' = [worker EXCEPT ![w].step = "check", ![w].stage = "retrieving"]
      BY <1>2, <2>3 DEF Tasks, Answers!Check
    <3> QED
      BY <1>2, <3>1, GoesOn DEF Answers!Stages
  <2> QED
    BY <1>3, <2>1, <2>2, <2>3
<1> QED
  BY <1>1, <1>4, RowStays DEF Answers!outboxVars, AnswersIInv, Answers!TypeOK, Answers!OutboxTypeOK

\* Retrieval writes no row.
LEMMA RetrieveStep ==
  ASSUME Answers!AiRunsAssumption, AnswersIInv, NEW w \in Workers, Answers!Retrieve(w)
  PROVE  AnswersIInv'
<1>1. UNCHANGED <<Answers!outboxVars, Answers!caseVars, kind, airun, answers, loaded, Answers!historyVars, faults, edits>>
  BY DEF Answers!Retrieve
<1>2. worker[w].tries = 0
  BY DEF Answers!Retrieve, AnswersIInv, WorkersAreConsistent
<1>3. \/ Answers!Leaves(w) \/ Answers!Stops(w, "canceled")
      \/ \E stage \in Answers!Stages : worker' = [worker EXCEPT ![w].step = "check", ![w].stage = stage]
  BY DEF Answers!Retrieve, Answers!Stages
<1>4. worker' \in [Workers -> Tasks] /\ WorkersAreConsistent'
  BY <1>2, <1>3, LeavesWorkers, StopsTask, GoesOn
<1> QED
  BY <1>1, <1>4, RowStays DEF Answers!outboxVars, AnswersIInv, Answers!TypeOK, Answers!OutboxTypeOK

\* A call is counted when it is granted.
LEMMA GrantStep ==
  ASSUME Answers!AiRunsAssumption, AnswersIInv, NEW w \in Workers, Answers!Grant(w)
  PROVE  AnswersIInv'
<1>1. /\ airun' = airun \/ Answers!Renewed
      /\ UNCHANGED <<Answers!outboxVars, Answers!caseVars, kind, answers, loaded, Answers!historyVars, faults, edits>>
  BY DEF Answers!Grant
<1> DEFINE task == [worker[w] EXCEPT !.step = "call", !.tries = worker[w].tries + 1]
<1>2. Answers!Leaves(w) \/ Answers!Stops(w, "canceled") \/ Answers!Stops(w, "failed") \/ worker' = [worker EXCEPT ![w] = task]
  BY Facts DEF Answers!Grant
<1>3. task \in Tasks /\ task.step = "call"
  <2>1. worker[w] \in Tasks /\ worker[w].tries < MaxTries
    BY Facts DEF Answers!Grant, AnswersIInv, WorkersAreConsistent
  <2>2. worker[w].tries + 1 \in 0 .. MaxTries
    BY <2>1, Facts DEF Tasks
  <2> QED
    BY <2>1, <2>2 DEF Tasks
<1> HIDE DEF task
<1>4. worker' \in [Workers -> Tasks] /\ WorkersAreConsistent'
  BY <1>2, <1>3, LeavesWorkers, StopsTask, WorkerMoves
<1> QED
  BY <1>1, <1>4, RowStays DEF Answers!outboxVars, AnswersIInv, Answers!TypeOK, Answers!OutboxTypeOK

\* The answer of the provider, or the retry of the call, writes no row.
LEMMA CallStep ==
  ASSUME Answers!AiRunsAssumption, AnswersIInv, NEW w \in Workers, Answers!Call(w)
  PROVE  AnswersIInv'
<1>1. UNCHANGED <<Answers!outboxVars, Answers!caseVars, kind, airun, answers, loaded, Answers!historyVars, faults, edits>>
  BY DEF Answers!Call
<1> DEFINE again == [worker[w] EXCEPT !.step = "grant"]
           next == [worker[w] EXCEPT !.step = "check", !.stage = Answers!After(worker[w].stage), !.tries = 0]
<1>2. \/ Answers!Leaves(w) \/ Answers!Stops(w, "canceled") \/ Answers!Stops(w, "failed")
      \/ worker[w].tries < MaxTries /\ worker' = [worker EXCEPT ![w] = again]
      \/ worker' = [worker EXCEPT ![w] = next]
  BY Facts DEF Answers!Call, Answers!Goes
<1>3. again \in Tasks /\ again.step = "grant" /\ again.tries = worker[w].tries
  BY Facts DEF Tasks
<1>4. next \in Tasks /\ next.step = "check" /\ next.tries = 0
  <2>1. Answers!After(worker[w].stage) \in Answers!Stages /\ worker[w] \in Tasks /\ 0 \in 0 .. MaxTries
    BY Facts DEF Answers!After, Answers!Stages
  <2> QED
    BY <2>1 DEF Tasks
<1> HIDE DEF again, next
<1>5. worker' \in [Workers -> Tasks] /\ WorkersAreConsistent'
  BY <1>2, <1>3, <1>4, LeavesWorkers, StopsTask, WorkerMoves
<1> QED
  BY <1>1, <1>5, RowStays DEF Answers!outboxVars, AnswersIInv, Answers!TypeOK, Answers!OutboxTypeOK

\* The run ends: with the only answer, or without one.
LEMMA RunEnds ==
  ASSUME Answers!AiRunsAssumption, AnswersIInv, worker' \in [Workers -> Tasks], WorkersAreConsistent',
         airun.status = "running", outbox' = outbox \/ Answers!MarkDone, inbox' \in BOOLEAN,
         NEW outcome \in Answers!Ended, airun' = [airun EXCEPT !.status = outcome, !.token = 0, !.lapsed = FALSE],
         answers' = IF outcome = "completed" THEN answers + 1 ELSE answers,
         UNCHANGED <<Answers!caseVars, kind, loaded, Answers!historyVars, faults, edits>>
  PROVE  AnswersIInv'
<1>1. airun' \in Rows /\ airun'.status = outcome /\ airun'.status \notin {"none", "queued", "running"}
  <2>1. 0 \in 0 .. MaxClaims
    BY Facts
  <2> QED
    BY <2>1, Facts DEF Rows, Answers!Ended
<1>2. answers = 0 /\ answers' \in 0 .. 1
  BY DEF AnswersIInv, AnswerIsLast, Answers!Live
<1>3. Answers!TypeOK'
  BY <1>1, <1>2, Facts, TypesKept DEF Answers!historyVars, AnswersIInv, Answers!TypeOK
<1>4. QueuedIsUnclaimed' /\ AnswerIsLast' /\ Answers!OneAnswer' /\ ChangeStops'
  BY <1>1, <1>2 DEF QueuedIsUnclaimed, AnswerIsLast, Answers!OneAnswer, ChangeStops, Answers!Live,
     Answers!Ended
<1>5. VersionsFollow'
  BY DEF Answers!caseVars, AnswersIInv, VersionsFollow
<1> QED
  BY <1>3, <1>4, <1>5 DEF AnswersIInv

\* The one transaction that stores the answer keeps the invariant.
LEMMA PersistStep ==
  ASSUME Answers!AiRunsAssumption, AnswersIInv, NEW w \in Workers, Answers!Persist(w)
  PROVE  AnswersIInv'
<1>1. UNCHANGED <<inbox, Answers!caseVars, kind, loaded, Answers!historyVars, faults, edits>>
  BY DEF Answers!Persist
<1>2. CASE Answers!Holds(w) /\ answers' = answers + 1 /\ Answers!Completes(w)
  <2>1. worker' \in [Workers -> Tasks] /\ WorkersAreConsistent'
    BY <1>2, LeavesWorkers DEF Answers!Completes
  <2> QED
    BY <1>1, <1>2, <2>1, RunEnds DEF Answers!Holds, Answers!Completes, Answers!Ended, AnswersIInv,
       Answers!TypeOK, Answers!OutboxTypeOK
<1>3. CASE (Answers!Leaves(w) \/ Answers!Stops(w, "canceled")) /\ UNCHANGED <<airun, outbox, answers>>
  <2>1. worker' \in [Workers -> Tasks] /\ WorkersAreConsistent'
    BY <1>3, LeavesWorkers, StopsTask
  <2> QED
    BY <1>1, <1>3, <2>1, RowStays DEF AnswersIInv, Answers!TypeOK, Answers!OutboxTypeOK
<1> QED
  BY <1>2, <1>3 DEF Answers!Persist

\* Writing the end of a run keeps the invariant.
LEMMA FinishStep ==
  ASSUME Answers!AiRunsAssumption, AnswersIInv, NEW w \in Workers, Answers!Finish(w)
  PROVE  AnswersIInv'
<1>1. UNCHANGED <<inbox, Answers!caseVars, kind, answers, loaded, Answers!historyVars, faults, edits>>
  BY DEF Answers!Finish
<1>2. worker' \in [Workers -> Tasks] /\ WorkersAreConsistent'
  BY LeavesWorkers DEF Answers!Finish
<1>3. worker[w].outcome \in {"failed", "canceled"}
  BY DEF Answers!Finish, AnswersIInv, WorkersAreConsistent
<1>4. CASE Answers!Holds(w)
  BY <1>1, <1>2, <1>3, <1>4, RunEnds DEF Answers!Finish, Answers!Holds, Answers!Ended, AnswersIInv,
     Answers!TypeOK, Answers!OutboxTypeOK
<1>5. CASE ~Answers!Holds(w)
  BY <1>1, <1>2, <1>5, RowStays DEF Answers!Finish, AnswersIInv, Answers!TypeOK, Answers!OutboxTypeOK
<1> QED
  BY <1>4, <1>5

\* A worker that claims a run goes to its first stage; the last lease that ended ends the run.
LEMMA ClaimStep ==
  ASSUME Answers!AiRunsAssumption, AnswersIInv, NEW w \in Workers, Answers!Claim(w)
  PROVE  AnswersIInv'
<1>1. UNCHANGED <<Answers!caseVars, kind, answers, loaded, Answers!historyVars, faults, edits>> /\ inbox' \in BOOLEAN
  BY DEF Answers!Claim, Answers!TakeMessage
<1> DEFINE n == airun.claims + 1
           task == [Answers!Idle EXCEPT !.step = "check", !.token = n, !.stage = Answers!FirstStage]
<1>2. CASE airun.status = "queued" \/ (airun.status = "running" /\ airun.lapsed /\ airun.claims < MaxClaims)
  <2>1. n \in 0 .. MaxClaims
    BY <1>2, Facts DEF AnswersIInv, QueuedIsUnclaimed
  <2>2. /\ airun' = [airun EXCEPT !.status = "running", !.claims = n, !.token = n, !.lapsed = FALSE]
        /\ worker' = [worker EXCEPT ![w] = task] /\ UNCHANGED outbox
    BY <1>2 DEF Answers!Claim
  <2>3. task \in Tasks /\ task.step = "check" /\ task.tries = 0
    BY <2>1, LeavesTask DEF Answers!Idle, Tasks, Answers!FirstStage, Answers!Stages
  <2>4. airun' \in Rows /\ airun'.status = "running" /\ airun'.cancel = airun.cancel
    BY <2>1, <2>2, Facts DEF Rows, Answers!Live
  <2> HIDE DEF n, task
  <2>5. worker' \in [Workers -> Tasks] /\ WorkersAreConsistent'
    BY <2>2, <2>3, WorkerMoves
  <2>6. Answers!TypeOK'
    BY <1>1, <2>2, <2>4, <2>5, Facts, TypesKept DEF Answers!historyVars, AnswersIInv, Answers!TypeOK
  <2>7. QueuedIsUnclaimed' /\ AnswerIsLast' /\ Answers!OneAnswer' /\ ChangeStops'
    BY <1>1, <1>2, <2>4 DEF Answers!historyVars, AnswersIInv, QueuedIsUnclaimed, AnswerIsLast,
       Answers!OneAnswer, ChangeStops, Answers!Live, Answers!Ended
  <2>8. VersionsFollow'
    BY <1>1 DEF Answers!caseVars, AnswersIInv, VersionsFollow
  <2> QED
    BY <1>1, <2>5, <2>6, <2>7, <2>8 DEF AnswersIInv
<1>3. CASE ~(airun.status = "queued" \/ (airun.status = "running" /\ airun.lapsed /\ airun.claims < MaxClaims))
  <2>1. worker' = worker
    BY <1>3 DEF Answers!Claim
  <2>2. worker' \in [Workers -> Tasks] /\ WorkersAreConsistent'
    BY <2>1, Facts DEF AnswersIInv, WorkersAreConsistent
  <2>3. CASE airun.status = "running" /\ airun.lapsed
    <3>1. airun' = [airun EXCEPT !.status = "failed", !.token = 0, !.lapsed = FALSE] /\ Answers!MarkDone
      BY <1>3, <2>3 DEF Answers!Claim
    <3> QED
      BY <1>1, <2>2, <2>3, <3>1, RunEnds DEF Answers!Ended
  <2>4. CASE ~(airun.status = "running" /\ airun.lapsed)
    <3>1. UNCHANGED <<airun, outbox>>
      BY <1>3, <2>4 DEF Answers!Claim
    <3> QED
      BY <1>1, <2>2, <3>1, Facts, RowStays
  <2> QED
    BY <2>3, <2>4
<1> QED
  BY <1>2, <1>3

\* A worker that dies leaves the rows alone.
LEMMA CrashStep ==
  ASSUME Answers!AiRunsAssumption, AnswersIInv, NEW w \in Workers, Answers!Crash(w)
  PROVE  AnswersIInv'
<1>1. worker' \in [Workers -> Tasks] /\ WorkersAreConsistent'
  BY LeavesWorkers DEF Answers!Crash
<1>2. faults' \in 0 .. MaxFaults
  BY Facts DEF Answers!Crash
<1> QED
  BY <1>1, <1>2, RowStays DEF Answers!Crash, Answers!outboxVars, AnswersIInv, Answers!TypeOK,
     Answers!OutboxTypeOK

-----------------------------------------------------------------------------
(* The clock, the dispatcher and the requests of analysts.                 *)

\* The workers stay, and the answer; the run stops at most.
LEMMA RequestStep ==
  ASSUME Answers!AiRunsAssumption, AnswersIInv, Answers!TypeOK', VersionsFollow', edits' \in Nat,
         UNCHANGED airun \/ airun' = Answers!Stopped(airun) \/ airun' = [airun EXCEPT !.lapsed = TRUE],
         UNCHANGED changed \/ (airun' = Answers!Stopped(airun) /\ airun.status # "none"),
         UNCHANGED <<answers, worker, overtaken>>
  PROVE  AnswersIInv'
<1>1. WorkersAreConsistent'
  BY DEF AnswersIInv, WorkersAreConsistent
<1>2. airun.status \in {"none"} \cup Answers!Live \cup Answers!Ended /\ airun \in Rows
  BY Facts DEF Rows
<1>3. /\ airun'.claims = airun.claims
      /\ \/ airun'.status = airun.status /\ (airun.cancel => airun'.cancel)
         \/ airun.status = "queued" /\ airun'.status = "canceled"
  BY <1>2 DEF Answers!Stopped, Rows
<1>4. QueuedIsUnclaimed' /\ AnswerIsLast' /\ Answers!OneAnswer'
  BY <1>3 DEF AnswersIInv, QueuedIsUnclaimed, AnswerIsLast, Answers!OneAnswer, Answers!Live
<1>5. ChangeStops'
  <2>1. CASE changed' = changed
    BY <1>3, <2>1 DEF AnswersIInv, ChangeStops, Answers!Ended
  <2>2. CASE airun' = Answers!Stopped(airun) /\ airun.status # "none"
    BY <1>2, <2>2 DEF ChangeStops, Answers!Stopped, Rows, Answers!Live, Answers!Ended
  <2> QED
    BY <2>1, <2>2
<1> QED
  BY <1>1, <1>4, <1>5 DEF AnswersIInv

\* A stopped row is still well typed.
LEMMA StoppedRow == ASSUME Answers!AiRunsAssumption, AnswersIInv PROVE Answers!Stopped(airun) \in Rows
  BY Facts DEF Answers!Stopped, Rows, Answers!Live, Answers!Ended

\* An expired lease keeps the invariant.
LEMMA LeaseExpiresStep ==
  ASSUME Answers!AiRunsAssumption, AnswersIInv, Answers!LeaseExpires
  PROVE  AnswersIInv'
<1>1. /\ airun' = [airun EXCEPT !.lapsed = TRUE] /\ faults' \in 0 .. MaxFaults
      /\ UNCHANGED <<Answers!outboxVars, Answers!caseVars, kind, answers, loaded, worker, Answers!historyVars, edits>>
  BY Facts DEF Answers!LeaseExpires
<1>2. airun' \in Rows
  BY <1>1, Facts DEF Rows
<1>3. Answers!TypeOK' /\ VersionsFollow'
  BY <1>1, <1>2, Facts, TypesKept DEF Answers!outboxVars, Answers!caseVars, Answers!historyVars,
     AnswersIInv, Answers!TypeOK, Answers!OutboxTypeOK, VersionsFollow
<1>4. UNCHANGED <<answers, worker, changed, overtaken>> /\ edits' \in Nat
  BY <1>1, Facts DEF Answers!historyVars
<1> QED
  BY <1>1, <1>3, <1>4, RequestStep

\* The dispatcher keeps the invariant.
LEMMA DispatchStep == ASSUME Answers!AiRunsAssumption, AnswersIInv, Answers!Dispatch PROVE AnswersIInv'
<1>1. UNCHANGED <<Answers!caseVars, kind, airun, answers, loaded, worker, Answers!historyVars, faults, edits>> /\ Answers!OutboxTypeOK'
  BY DEF Answers!Dispatch, Answers!Publish, Answers!Requeue, Answers!LoseMessage, AnswersIInv,
     Answers!TypeOK, Answers!OutboxTypeOK
<1>2. Answers!TypeOK' /\ VersionsFollow'
  BY <1>1 DEF Answers!caseVars, Answers!historyVars, AnswersIInv, Answers!TypeOK, VersionsFollow
<1> QED
  BY <1>1, <1>2, RequestStep DEF Answers!historyVars, AnswersIInv

\* A request loads what it will decide on.
LEMMA LoadStep ==
  ASSUME Answers!AiRunsAssumption, AnswersIInv, Answers!LoadCreate \/ Answers!LoadCancel \/ Answers!LoadSettings
  PROVE  AnswersIInv'
<1>1. UNCHANGED <<Answers!outboxVars, Answers!caseVars, kind, airun, answers, worker, Answers!historyVars, faults>>
  BY DEF Answers!LoadCreate, Answers!LoadCancel, Answers!LoadSettings
<1>2. loaded' \in Loads /\ VersionsFollow' /\ edits' \in Nat
  <2>1. CASE Answers!LoadCreate
    BY <1>1, <2>1, Facts DEF Answers!LoadCreate, Answers!caseVars, AnswersIInv, VersionsFollow, Loads
  <2>2. CASE Answers!LoadCancel
    BY <1>1, <2>2, Facts DEF Answers!LoadCancel, Answers!caseVars, AnswersIInv, VersionsFollow, Loads
  <2>3. CASE Answers!LoadSettings
    <3> DEFINE l == [seen |-> policy, by |-> edits + 1]
    <3>1. edits' = edits + 1 /\ edits + 1 <= MaxEdits /\ loaded' = [loaded EXCEPT !.set = @ \cup {l}]
      BY <2>3, Facts DEF Answers!LoadSettings, Answers!Edit
    <3>2. l \in Answers!Sessions /\ l.seen.version < l.by /\ l.by = edits + 1
      BY <3>1, Facts DEF Answers!Sessions, Answers!Policies, AnswersIInv, VersionsFollow
    <3> HIDE DEF l
    <3>3. loaded' \in Loads /\ loaded'.set = loaded.set \cup {l}
      BY <3>1, <3>2, Facts DEF Loads
    <3>4. ASSUME NEW k \in loaded'.set PROVE k.seen.version < k.by /\ k.by <= edits'
      <4>1. CASE k = l
        BY <3>1, <3>2, <4>1, Facts
      <4>2. CASE k \in loaded.set
        BY <3>1, <4>2, Facts DEF AnswersIInv, VersionsFollow, Loads, Answers!Sessions
      <4> QED
        BY <3>3, <4>1, <4>2
    <3> QED
      BY <1>1, <3>1, <3>3, <3>4, Facts DEF Answers!caseVars, AnswersIInv, VersionsFollow, Answers!Policies
  <2> QED
    BY <2>1, <2>2, <2>3
<1>3. Answers!TypeOK'
  BY <1>1, <1>2, Facts DEF Answers!outboxVars, Answers!caseVars, Answers!historyVars, AnswersIInv,
     Answers!TypeOK, Answers!OutboxTypeOK, Loads
<1> QED
  BY <1>1, <1>2, <1>3, RequestStep DEF Answers!historyVars, AnswersIInv

\* The run starts as it was loaded: nothing was changed since.
LEMMA CreateStep == ASSUME Answers!AiRunsAssumption, AnswersIInv, Answers!Create PROVE AnswersIInv'
<1>1. /\ airun.status = "none" /\ Answers!Enqueue /\ loaded' = [loaded EXCEPT !.create = {}]
      /\ UNCHANGED <<inbox, Answers!caseVars, kind, answers, worker, Answers!historyVars, faults, edits>>
  BY DEF Answers!Create
<1>2. PICK seen \in loaded.create, location \in {"local", "cloud"} :
        airun' = [Answers!NoRun EXCEPT !.status = "queued", !.version = seen.version, !.location = location]
  BY DEF Answers!Create
<1>3. seen.version \in 0 .. MaxEdits /\ 0 \in 0 .. MaxClaims
  BY Facts DEF Loads, Answers!Policies
<1>4. airun' \in Rows /\ airun'.status = "queued" /\ airun'.claims = 0
  BY <1>2, <1>3 DEF Answers!NoRun, Rows, Answers!Live
<1>5. loaded' \in Loads /\ loaded'.set = loaded.set
  BY <1>1, Facts DEF Loads
<1>6. Answers!TypeOK'
  BY <1>1, <1>4, <1>5, Facts, TypesKept DEF Answers!historyVars, AnswersIInv, Answers!TypeOK,
     Answers!OutboxTypeOK
<1>7. VersionsFollow' /\ WorkersAreConsistent'
  BY <1>1, <1>5 DEF Answers!caseVars, AnswersIInv, VersionsFollow, WorkersAreConsistent
<1>8. QueuedIsUnclaimed' /\ AnswerIsLast' /\ Answers!OneAnswer' /\ ChangeStops'
  BY <1>1, <1>4 DEF Answers!historyVars, AnswersIInv, QueuedIsUnclaimed, AnswerIsLast, Answers!OneAnswer,
     ChangeStops, Answers!Ended
<1> QED
  BY <1>1, <1>6, <1>7, <1>8 DEF AnswersIInv

\* A cancellation that decides on a status it saw cancels a run that waits, or marks one that works;
\* decided on another, it is counted as overtaken.
LEMMA RequestCancelStep ==
  ASSUME Answers!AiRunsAssumption, AnswersIInv, Answers!RequestCancel
  PROVE  AnswersIInv'
<1>1. /\ loaded' = [loaded EXCEPT !.cancel = {}]
      /\ overtaken' = (overtaken \/ airun.status \notin loaded.cancel)
      /\ UNCHANGED <<inbox, Answers!caseVars, kind, answers, worker, changed, faults, edits>>
      /\ outbox' = outbox \/ Answers!MarkDone
  BY DEF Answers!RequestCancel
<1>2. \/ "queued" \in loaded.cancel /\ airun' = [airun EXCEPT !.status = "canceled", !.cancel = TRUE]
      \/ airun' = [airun EXCEPT !.cancel = TRUE]
  BY DEF Answers!RequestCancel
<1>3. airun' \in Rows /\ airun'.claims = airun.claims
      /\ \/ airun'.status = "canceled"
         \/ airun'.status = airun.status /\ airun'.cancel
  BY <1>2, Facts DEF Rows, Answers!Ended
<1>4. loaded' \in Loads /\ loaded'.set = loaded.set /\ loaded.cancel \subseteq Answers!Live
  BY <1>1, Facts DEF Loads
<1>5. Answers!TypeOK'
  BY <1>1, <1>3, <1>4, Facts, TypesKept DEF AnswersIInv, Answers!TypeOK, Answers!OutboxTypeOK
<1>6. VersionsFollow' /\ WorkersAreConsistent'
  BY <1>1, <1>4 DEF Answers!caseVars, AnswersIInv, VersionsFollow, WorkersAreConsistent
<1>7. QueuedIsUnclaimed' /\ AnswerIsLast' /\ ChangeStops'
  BY <1>1, <1>3 DEF AnswersIInv, QueuedIsUnclaimed, AnswerIsLast, ChangeStops, Answers!Live, Answers!Ended
<1>8. Answers!OneAnswer'
  BY <1>1, <1>3, <1>4 DEF AnswersIInv, Answers!OneAnswer, AnswerIsLast, Answers!Live
<1> QED
  BY <1>1, <1>5, <1>6, <1>7, <1>8 DEF AnswersIInv

\* A new policy stops the runs it does not allow.
LEMMA SetPolicyStep == ASSUME Answers!AiRunsAssumption, AnswersIInv, Answers!SetPolicy PROVE AnswersIInv'
<1>1. PICK l \in loaded.set, new \in Answers!Modes :
        /\ policy' = [mode |-> new, version |-> l.seen.version + 1]
        /\ loaded' = [loaded EXCEPT !.set = @ \ {l}]
        /\ changed' = (changed \/ (airun.status # "none" /\ new # policy.mode))
  BY DEF Answers!SetPolicy
<1>2. /\ airun' = Answers!Stopped(airun)
      /\ UNCHANGED <<Answers!outboxVars, caseStatus, access, kind, answers, worker, overtaken, faults, edits>>
  BY DEF Answers!SetPolicy
<1>3. loaded' \in Loads /\ loaded'.set \subseteq loaded.set /\ l \in Answers!Sessions
  BY <1>1, Facts DEF Loads
<1>4. l.seen.version + 1 <= edits /\ edits <= MaxEdits
  BY <1>3, Facts DEF AnswersIInv, VersionsFollow, Answers!Sessions, Answers!Policies
<1>5. policy' \in Answers!Policies /\ policy'.version <= edits
  BY <1>1, <1>3, <1>4, Facts DEF Answers!Sessions, Answers!Policies
<1>6. VersionsFollow'
  BY <1>2, <1>3, <1>5 DEF AnswersIInv, VersionsFollow
<1>7. changed' \in BOOLEAN
  BY <1>1 DEF AnswersIInv, Answers!TypeOK
<1>8. airun' \in Rows
  BY <1>2, StoppedRow
<1>9. Answers!TypeOK'
  BY <1>2, <1>3, <1>5, <1>7, <1>8, Facts DEF Answers!outboxVars, AnswersIInv, Answers!TypeOK,
     Answers!OutboxTypeOK, Rows, Loads
<1> QED
  BY <1>1, <1>2, <1>6, <1>9, Facts, RequestStep DEF AnswersIInv, Answers!TypeOK

\* Losing access or the case stops a run and answers nothing.
LEMMA AccessStep ==
  ASSUME Answers!AiRunsAssumption, AnswersIInv,
         Answers!LoseAccess \/ \E status \in {"active", "archived", "deleting"} : Answers!SetCase(status)
  PROVE  AnswersIInv'
<1>1. /\ airun' = airun \/ airun' = Answers!Stopped(airun)
      /\ caseStatus' \in {"active", "archived", "deleting"} /\ access' \in BOOLEAN
      /\ edits' = edits + 1 /\ edits + 1 <= MaxEdits
      /\ UNCHANGED <<Answers!outboxVars, policy, kind, answers, loaded, worker, Answers!historyVars, faults>>
  <2>1. Answers!Edit => edits' = edits + 1 /\ edits + 1 <= MaxEdits
    BY Facts DEF Answers!Edit
  <2>2. caseStatus \in {"active", "archived", "deleting"} /\ access \in BOOLEAN
    BY DEF AnswersIInv, Answers!TypeOK
  <2>3. CASE Answers!LoseAccess
    BY <2>1, <2>2, <2>3 DEF Answers!LoseAccess
  <2>4. ASSUME NEW status \in {"active", "archived", "deleting"}, Answers!SetCase(status)
        PROVE  /\ airun' = airun \/ airun' = Answers!Stopped(airun)
               /\ caseStatus' = status /\ Answers!Edit
               /\ UNCHANGED <<Answers!outboxVars, policy, access, kind, answers, loaded, worker, Answers!historyVars, faults>>
    BY <2>4 DEF Answers!SetCase
  <2> QED
    BY <2>1, <2>2, <2>3, <2>4
<1>2. airun' \in Rows
  BY <1>1, Facts, StoppedRow
<1>3. Answers!TypeOK'
  BY <1>1, <1>2, Facts DEF Answers!outboxVars, Answers!historyVars, AnswersIInv, Answers!TypeOK,
     Answers!OutboxTypeOK, Rows, Loads
<1>4. VersionsFollow'
  BY <1>1, Facts DEF AnswersIInv, VersionsFollow, Loads, Answers!Sessions, Answers!Policies
<1> QED
  BY <1>1, <1>3, <1>4, Facts, RequestStep DEF Answers!historyVars

\* A step that changes nothing keeps the invariant.
LEMMA StutterStep ==
  ASSUME Answers!AiRunsAssumption, AnswersIInv, UNCHANGED Answers!vars
  PROVE  AnswersIInv'
<1>1. Answers!TypeOK' /\ VersionsFollow' /\ UNCHANGED <<airun, answers, worker, Answers!historyVars, edits>>
  BY DEF Answers!vars, Answers!outboxVars, Answers!caseVars, Answers!historyVars, AnswersIInv,
     Answers!TypeOK, Answers!OutboxTypeOK, VersionsFollow
<1> QED
  BY <1>1, RequestStep DEF Answers!historyVars, AnswersIInv

\* IInv is inductive.
LEMMA AnswersStep ==
  ASSUME Answers!AiRunsAssumption, AnswersIInv, [Answers!Next]_(Answers!vars)
  PROVE  AnswersIInv'
  BY ClaimStep, CheckStep, RetrieveStep, GrantStep, CallStep, PersistStep, FinishStep, CrashStep,
     LeaseExpiresStep, DispatchStep, LoadStep, CreateStep, RequestCancelStep, SetPolicyStep, AccessStep,
     StutterStep DEF Answers!Next, Answers!WorkerStep

-----------------------------------------------------------------------------
(* What holds of each step.                                                *)

\* No call is granted and no answer stored after the mode was changed, or once the requester lost access:
\* whoever changes the policy stops the run in the same transaction, and a worker looks at both again.
LEMMA StepsObeyThePolicy ==
  ASSUME Answers!AiRunsAssumption, AnswersIInv, Answers!Next
  PROVE  Answers!PolicyIsObeyed
<1> SUFFICES ASSUME NEW w \in Workers
             PROVE  /\ (worker[w].step = "grant" /\ worker'[w].step = "call")
                         => ~changed /\ Answers!Permits(policy.mode, airun.location)
                    /\ answers' # answers => ~changed /\ access
  BY DEF Answers!PolicyIsObeyed
<1>1. worker \in [Workers -> Tasks]
  BY Facts
<1>2. airun.status = "running" /\ ~airun.cancel => ~changed
  BY DEF AnswersIInv, ChangeStops, Answers!Ended
<1>3. ASSUME answers' # answers PROVE ~changed /\ access
  <2>1. PICK v \in Workers : Answers!Persist(v)
    BY <1>3 DEF Answers!Next, Answers!WorkerStep, Answers!Claim, Answers!Check, Answers!Retrieve,
       Answers!Grant, Answers!Call, Answers!Finish, Answers!Crash, Answers!Dispatch, Answers!LeaseExpires,
       Answers!LoadCreate, Answers!Create, Answers!LoadCancel, Answers!RequestCancel, Answers!LoadSettings,
       Answers!SetPolicy, Answers!LoseAccess, Answers!SetCase
  <2> QED
    BY SMTT(40), <1>2, <1>3, <2>1 DEF Answers!Persist, Answers!Holds, Answers!Authorized
<1>4. ASSUME worker[w].step = "grant", worker'[w].step = "call"
      PROVE  ~changed /\ Answers!Permits(policy.mode, airun.location)
  <2>1. PICK v \in Workers : Answers!Claim(v) \/ Answers!WorkerStep(v) \/ Answers!Crash(v)
    BY <1>4 DEF Answers!Next, Answers!Dispatch, Answers!LeaseExpires, Answers!LoadCreate, Answers!Create,
       Answers!LoadCancel, Answers!RequestCancel, Answers!LoadSettings, Answers!SetPolicy,
       Answers!LoseAccess, Answers!SetCase
  <2>2. v = w
    BY <1>1, <1>4, <2>1 DEF Answers!WorkerStep, Answers!Claim, Answers!Check, Answers!Retrieve,
       Answers!Grant, Answers!Call, Answers!Persist, Answers!Finish, Answers!Crash, Answers!Goes,
       Answers!Stops, Answers!Leaves, Answers!Completes
  <2>3. Answers!Grant(w)
    BY <1>1, <1>4, <2>1, <2>2 DEF Answers!WorkerStep, Answers!Claim, Answers!Check, Answers!Retrieve,
       Answers!Call, Answers!Persist, Answers!Finish, Answers!Crash, Answers!Leaves, Answers!Idle
  <2>4. ~Answers!Leaves(w) /\ ~Answers!Stops(w, "canceled") /\ ~Answers!Stops(w, "failed")
    <3>1. Answers!Leaves(w) => worker'[w].step = "idle"
      BY <1>1 DEF Answers!Leaves, Answers!Idle
    <3>2. ASSUME NEW outcome, Answers!Stops(w, outcome) PROVE worker'[w].step = "finish"
      BY <1>1, <3>2 DEF Answers!Stops, Answers!Idle
    <3> QED
      BY <1>4, <3>1, <3>2
  <2> QED
    BY <1>2, <2>3, <2>4 DEF Answers!Grant, Answers!Holds
<1> QED
  BY <1>3, <1>4

-----------------------------------------------------------------------------
(* The answers among the parts of MCAi.                                    *)

PartIInv == part = "answers" => AnswersIInv

\* The chosen part starts in its initial states, and only its own steps change it.
LEMMA PartInvariance == Spec => []PartIInv
<1>1. Init => PartIInv
  BY AnswersAssumption, AnswersInit DEF Init, PartIInv
<1>2. ASSUME PartIInv, [Next]_vars, part' = "answers" PROVE AnswersIInv'
  <2>1. CASE Next
    <3>1. part = "answers" /\ Answers!Next
      BY <1>2, <2>1 DEF Next, Is, NextIndexing, NextAnswers, NextCollections, NextQuestion
    <3> QED BY <3>1, <1>2, AnswersAssumption, AnswersStep DEF PartIInv
  <2>2. CASE UNCHANGED vars
    <3>1. part = "answers" /\ UNCHANGED Answers!vars
      BY <1>2, <2>2 DEF vars, answerVars, Answers!vars, Answers!outboxVars, Answers!caseVars,
         Answers!historyVars
    <3> QED BY <3>1, <1>2, AnswersAssumption, AnswersStep DEF PartIInv
  <2> QED BY <1>2, <2>1, <2>2
<1>3. PartIInv /\ [Next]_vars => PartIInv'
  BY <1>2 DEF PartIInv
<1> QED BY <1>1, <1>3, PTL DEF Spec

\* A request gets at most one answer, and is completed exactly if it got it, unless a cancellation
\* decided on a status it loaded earlier: the answer is stored with the end of the run, under its token.
THEOREM OneAnswerAlways == Spec => []OneAnswer
<1>1. PartIInv => OneAnswer
  BY DEF PartIInv, AnswersIInv, OneAnswer
<1> QED BY <1>1, PartInvariance, PTL

\* No call is granted and no answer stored under a policy that was changed since the request, by
\* whichever worker and after whichever crash.
THEOREM PolicyIsAlwaysObeyed == Spec => PolicyIsObeyed
<1>1. ASSUME PartIInv, [Next]_vars PROVE [part = "answers" => Answers!PolicyIsObeyed]_vars
  <2> SUFFICES ASSUME Next, part = "answers" PROVE Answers!PolicyIsObeyed
    BY <1>1
  <2>1. Answers!Next
    BY DEF Next, Is, NextIndexing, NextAnswers, NextCollections, NextQuestion
  <2> QED BY <1>1, <2>1, AnswersAssumption, StepsObeyThePolicy DEF PartIInv
<1> QED BY <1>1, PartInvariance, PTL DEF Spec, PolicyIsObeyed

-----------------------------------------------------------------------------
(* The index.                                                              *)

\* What is kept of each record, and what a worker knows of its batch.
IndexRows == [status : Indexing!Settled \cup {"none", "pending", "indexing"}, holder : Workers \cup {"nobody"},
              lapsed : BOOLEAN, due : BOOLEAN, cancel : BOOLEAN,
              attempts : 0 .. MaxAttempts, profile : Indexing!Models \cup {0}]
Batches == [step : {"idle", "claim", "batch", "embed", "write", "look", "close", "close_more"},
            digest : Indexing!Models \cup {0}, todo : SUBSET Records]

IndexIInv ==
  /\ state \in [Records -> IndexRows] /\ chunks \in [Records -> Indexing!Models \cup {0}]
  /\ worker \in [Workers -> Batches]
  /\ model \in Indexing!Models /\ active \in Indexing!Models \cup {0}

\* What the property says of one record.
Obeys(r) ==
  /\ state[r].status \in Indexing!Settled => state'[r].status \in {state[r].status, "pending", "none"}
  /\ state[r].cancel /\ state'[r].status = "indexed" => state[r].status = "indexed"
  /\ chunks'[r] \notin {0, chunks[r]} => Indexing!Allowed

\* Nothing is indexed at first.
LEMMA IndexInit == ASSUME Indexing!IndexingAssumption, Indexing!Init PROVE IndexIInv
<1>1. 0 \in 0 .. MaxAttempts /\ 1 \in Indexing!Models
  BY DEF Indexing!IndexingAssumption, Indexing!Models
<1>2. Indexing!NoState \in IndexRows /\ Indexing!Idle \in Batches
  BY <1>1 DEF Indexing!NoState, Indexing!Nobody, Indexing!Idle, IndexRows, Batches
<1> QED
  BY <1>1, <1>2 DEF Indexing!Init, IndexIInv

\* A worker finishes only what it holds.
LEMMA FinishRow ==
  ASSUME Indexing!IndexingAssumption, IndexIInv, NEW w, NEW r, NEW status \in {"pending", "failed", "canceled"},
         Indexing!Finish(w, r, status)
  PROVE  /\ state' \in [Records -> IndexRows]
         /\ \A s \in Records : state'[s].status # state[s].status => state[s].status = "indexing" /\ state'[s].status = status
<1>1. CASE Indexing!Holds(w, r)
  <2> DEFINE row == [state[r] EXCEPT !.status = status, !.holder = "nobody", !.lapsed = FALSE, !.due = FALSE]
  <2>1. state' = [state EXCEPT ![r] = row]
    BY <1>1 DEF Indexing!Finish, Indexing!Nobody
  <2>2. ASSUME r \in Records PROVE row \in IndexRows /\ row.status = status
    BY <2>2 DEF IndexIInv, IndexRows, Indexing!Settled
  <2>3. state[r].status = "indexing"
    BY <1>1 DEF Indexing!Holds
  <2> HIDE DEF row
  <2>4. CASE r \in Records
    BY <2>1, <2>2, <2>3, <2>4 DEF IndexIInv
  <2>5. CASE r \notin Records
    BY <2>1, <2>5 DEF IndexIInv
  <2> QED BY <2>4, <2>5
<1>2. CASE ~Indexing!Holds(w, r)
  BY <1>2 DEF Indexing!Finish, IndexIInv
<1> QED BY <1>1, <1>2

\* So it is when it may be tried again.
LEMMA RetryRow ==
  ASSUME Indexing!IndexingAssumption, IndexIInv, NEW w, NEW r, Indexing!RetryOrFail(w, r)
  PROVE  \E status \in {"pending", "failed", "canceled"} : Indexing!Finish(w, r, status)
  BY DEF Indexing!RetryOrFail

\* The worker goes to another step of its batch, or has less to do.
LEMMA BatchMoves ==
  ASSUME IndexIInv, NEW w, 
         \/ \E step \in {"embed", "write", "close", "close_more"} : Indexing!Goes(w, step)
         \/ \E r : Indexing!Rest(w, r)
  PROVE  worker' \in [Workers -> Batches]
<1>1. ASSUME NEW step \in {"embed", "write", "close", "close_more"}, Indexing!Goes(w, step)
      PROVE  worker' \in [Workers -> Batches]
  BY <1>1 DEF Indexing!Goes, IndexIInv, Batches
<1>2. ASSUME NEW r, Indexing!Rest(w, r) PROVE worker' \in [Workers -> Batches]
  <2> DEFINE rest == worker[w].todo \ {r}
             next == IF rest = {} THEN "look" ELSE "batch"
  <2>1. worker' = [worker EXCEPT ![w].step = next, ![w].todo = rest]
    BY <1>2 DEF Indexing!Rest
  <2>2. next \in {"look", "batch"} /\ (w \in Workers => rest \in SUBSET Records)
    BY DEF IndexIInv, Batches
  <2> HIDE DEF rest, next
  <2> QED BY ZenonT(60), <2>1, <2>2 DEF IndexIInv, Batches
<1> QED BY <1>1, <1>2

\* The end of a batch, or of its worker, frees the rows and leaves their status.
LEMMA LeavesBatch ==
  ASSUME Indexing!IndexingAssumption, IndexIInv, NEW w, Indexing!Leaves(w)
  PROVE  /\ state' \in [Records -> IndexRows] /\ worker' \in [Workers -> Batches]
         /\ \A r \in Records : state'[r].status = state[r].status
<1>1. Indexing!Idle \in Batches
  BY DEF Indexing!Idle, Batches
<1>2. worker' \in [Workers -> Batches]
  BY <1>1 DEF Indexing!Leaves, IndexIInv
<1>3. \A r \in Records : [state[r] EXCEPT !.holder = "nobody"] \in IndexRows
  BY DEF IndexIInv, IndexRows
<1> QED BY <1>2, <1>3 DEF Indexing!Leaves, Indexing!Nobody, IndexIInv, IndexRows

\* No step of a worker but the write adds chunks or a record to the index.
LEMMA Settling ==
  ASSUME IndexIInv, UNCHANGED chunks, 
    \A r \in Records : state'[r].status # state[r].status =>
        state[r].status \notin Indexing!Settled /\ state'[r].status # "indexed"
  PROVE \A r \in Records : Obeys(r)
  BY DEF Obeys

\* Only due rows are claimed, and none of these is settled.
LEMMA ClaimRows ==
  ASSUME Indexing!IndexingAssumption, IndexIInv, NEW w \in Workers, Indexing!Claim(w)
  PROVE  IndexIInv' /\ \A r \in Records : Obeys(r)
<1> DEFINE ids == {r \in Records : Indexing!Due(r)}
           Row(r) == IF r \in ids
                THEN [state[r] EXCEPT !.status = "indexing", !.holder = w, !.lapsed = FALSE, !.attempts = Indexing!Counted(@)]
                ELSE state[r]
           next == IF ids = {} THEN "look" ELSE "batch"
<1>1. \A n \in 0 .. MaxAttempts : Indexing!Counted(n) \in 0 .. MaxAttempts
  BY DEF Indexing!Counted, Indexing!IndexingAssumption
<1>2. \A r \in Records : Row(r) \in IndexRows /\ (Row(r).status # state[r].status => r \in ids /\ Row(r).status = "indexing")
  BY ZenonT(60), <1>1 DEF IndexIInv, IndexRows
<1>3. state' = [r \in Records |-> Row(r)] /\ worker' = [worker EXCEPT ![w].step = next, ![w].todo = ids]
  BY DEF Indexing!Claim
<1>4. \A r \in ids : state[r].status \notin Indexing!Settled
  BY DEF Indexing!Due, Indexing!Settled
<1>5. next \in {"look", "batch"} /\ ids \in SUBSET Records
  OBVIOUS
<1> HIDE DEF ids, Row, next
<1>6. state' \in [Records -> IndexRows] /\ \A r \in Records : state'[r] = Row(r)
  BY <1>2, <1>3
<1>7. worker' \in [Workers -> Batches]
  BY ZenonT(60), <1>3, <1>5 DEF IndexIInv, Batches
<1>8. UNCHANGED <<chunks, model, active>>
  BY DEF Indexing!Claim
<1> QED BY <1>2, <1>4, <1>6, <1>7, <1>8, Settling DEF IndexIInv

\* What a worker does before it writes.
LEMMA BatchRows ==
  ASSUME Indexing!IndexingAssumption, IndexIInv, NEW w \in Workers,
         Indexing!NoModel(w) \/ Indexing!ReadRecord(w) \/ Indexing!Embed(w)
  PROVE  IndexIInv' /\ \A r \in Records : Obeys(r)
<1> DEFINE r == Indexing!Current(w)
<1>1. /\ UNCHANGED state \/ \E status \in {"pending", "failed", "canceled"} : Indexing!Finish(w, r, status)
      /\ (\E step \in {"embed", "write", "close", "close_more"} : Indexing!Goes(w, step)) \/ Indexing!Rest(w, r)
  <2>1. CASE Indexing!NoModel(w)
    BY <2>1, RetryRow DEF Indexing!NoModel
  <2>2. CASE Indexing!ReadRecord(w)
    BY <2>2 DEF Indexing!ReadRecord
  <2>3. CASE Indexing!Embed(w)
    BY <2>3, RetryRow DEF Indexing!Embed
  <2> QED BY <2>1, <2>2, <2>3
<1>2. UNCHANGED <<chunks, model>> /\ active' \in Indexing!Models \cup {0}
  BY DEF Indexing!NoModel, Indexing!ReadRecord, Indexing!Embed, IndexIInv, Batches
<1> HIDE DEF r
<1>3. /\ state' \in [Records -> IndexRows]
      /\ \A s \in Records : state'[s].status # state[s].status => state[s].status = "indexing" /\ state'[s].status # "indexed"
  <2>1. CASE UNCHANGED state
    BY <2>1 DEF IndexIInv
  <2>2. ASSUME NEW status \in {"pending", "failed", "canceled"}, Indexing!Finish(w, r, status)
        PROVE /\ state' \in [Records -> IndexRows]
              /\ \A s \in Records : state'[s].status # state[s].status => state[s].status = "indexing" /\ state'[s].status # "indexed"
    BY <2>2, FinishRow
  <2> QED BY <1>1, <2>1, <2>2
<1>4. worker' \in [Workers -> Batches]
  BY <1>1, BatchMoves
<1>5. \A s \in Records : Obeys(s)
  BY <1>2, <1>3, Settling DEF Indexing!Settled
<1> QED BY <1>2, <1>3, <1>4, <1>5 DEF IndexIInv

\* It writes what it holds, if that was not canceled and the case allows it.
LEMMA WriteRow ==
  ASSUME Indexing!IndexingAssumption, IndexIInv, NEW w \in Workers, Indexing!Write(w)
  PROVE  IndexIInv' /\ \A r \in Records : Obeys(r)
<1> DEFINE r == Indexing!Current(w)
           digest == worker[w].digest
           row == [state[r] EXCEPT !.status = "indexed", !.profile = digest, !.holder = "nobody", !.lapsed = FALSE, !.due = FALSE]
<1>1. Indexing!Rest(w, r) /\ UNCHANGED <<model, active>> /\ digest \in Indexing!Models \cup {0}
  BY DEF Indexing!Write, IndexIInv, Batches
<1>2. worker' \in [Workers -> Batches]
  <2> HIDE DEF r
  <2> QED BY <1>1, BatchMoves
<1>3. CASE Indexing!Holds(w, r) /\ Indexing!MayWrite(r)
  <2>1. chunks' = [chunks EXCEPT ![r] = digest] /\ state' = [state EXCEPT ![r] = row]
    BY <1>3 DEF Indexing!Write, Indexing!Nobody
  <2>2. state[r].status = "indexing" /\ ~state[r].cancel /\ Indexing!Allowed
    BY <1>3 DEF Indexing!Holds, Indexing!MayWrite
  <2>3. r \in Records => row \in IndexRows /\ row.status = "indexed"
    BY <1>1 DEF IndexIInv, IndexRows, Indexing!Settled
  <2> HIDE DEF row, digest, r
  <2>4. state' \in [Records -> IndexRows] /\ chunks' \in [Records -> Indexing!Models \cup {0}]
    BY <1>1, <2>1, <2>3 DEF IndexIInv
  <2>5. ASSUME NEW s \in Records PROVE Obeys(s)
    <3>1. CASE s = r
      BY <2>2, <3>1 DEF Obeys, Indexing!Settled
    <3>2. CASE s # r
      BY <2>1, <3>2 DEF Obeys, IndexIInv
    <3> QED BY <3>1, <3>2
  <2> QED BY <1>1, <1>2, <2>4, <2>5 DEF IndexIInv
<1>4. CASE ~(Indexing!Holds(w, r) /\ Indexing!MayWrite(r))
  <2>1. Indexing!Finish(w, r, "canceled") /\ UNCHANGED chunks
    BY <1>4 DEF Indexing!Write
  <2> HIDE DEF r
  <2>2. /\ state' \in [Records -> IndexRows]
        /\ \A s \in Records : state'[s].status # state[s].status => state[s].status = "indexing" /\ state'[s].status = "canceled"
    BY <2>1, FinishRow
  <2> QED BY <1>1, <1>2, <2>1, <2>2, Settling DEF IndexIInv, Indexing!Settled
<1> QED BY <1>3, <1>4

\* A batch begins, ends, or its worker dies.
LEMMA BatchEnds ==
  ASSUME Indexing!IndexingAssumption, IndexIInv, NEW w \in Workers,
         Indexing!Begin(w) \/ Indexing!Look(w) \/ Indexing!Close(w) \/ Indexing!Crash(w)
  PROVE  IndexIInv' /\ \A r \in Records : Obeys(r)
<1>1. CASE Indexing!Begin(w)
  <2>1. worker' \in [Workers -> Batches]
    <3>1. \A digest \in {model, 0} : [Indexing!Idle EXCEPT !.step = "claim", !.digest = digest] \in Batches
      BY DEF Indexing!Idle, Batches, IndexIInv
    <3> QED BY <1>1, <3>1 DEF Indexing!Begin, IndexIInv
  <2> QED BY <1>1, <2>1, Settling DEF Indexing!Begin, IndexIInv
<1>2. CASE Indexing!Look(w)
  <2>1. \E step \in {"embed", "write", "close", "close_more"} : Indexing!Goes(w, step)
    BY <1>2 DEF Indexing!Look
  <2>2. worker' \in [Workers -> Batches]
    BY <2>1, BatchMoves
  <2> QED BY <1>2, <2>2, Settling DEF Indexing!Look, IndexIInv
<1>3. CASE Indexing!Close(w) \/ Indexing!Crash(w)
  <2>1. Indexing!Leaves(w) /\ UNCHANGED <<chunks, model, active>>
    BY <1>3 DEF Indexing!Close, Indexing!Crash
  <2> QED BY <2>1, LeavesBatch, Settling DEF IndexIInv
<1> QED BY <1>1, <1>2, <1>3

\* The clock, and what analysts do to one record.
LEMMA RecordMoves ==
  ASSUME Indexing!IndexingAssumption, IndexIInv, NEW r \in Records,
         Indexing!BecomesDue(r) \/ Indexing!LeaseExpires(r) \/ Indexing!Mark(r) \/ Indexing!Remove(r)
  PROVE  IndexIInv' /\ \A s \in Records : Obeys(s)
<1>1. 0 \in 0 .. MaxAttempts
  BY DEF Indexing!IndexingAssumption
<1>2. CASE Indexing!BecomesDue(r) \/ Indexing!LeaseExpires(r)
  <2> DEFINE due == [state[r] EXCEPT !.due = TRUE]
             lapsed == [state[r] EXCEPT !.lapsed = TRUE]
  <2>1. UNCHANGED <<chunks, model, active, worker>> /\ (state' = [state EXCEPT ![r] = due] \/ state' = [state EXCEPT ![r] = lapsed])
    BY <1>2 DEF Indexing!BecomesDue, Indexing!LeaseExpires
  <2>2. {due, lapsed} \subseteq IndexRows /\ due.status = state[r].status /\ lapsed.status = state[r].status
    BY ZenonT(60) DEF IndexIInv, IndexRows
  <2> HIDE DEF due, lapsed
  <2>3. state' \in [Records -> IndexRows] /\ \A s \in Records : state'[s].status = state[s].status
    BY <2>1, <2>2 DEF IndexIInv
  <2> QED BY <2>1, <2>3, Settling DEF IndexIInv
<1>3. CASE Indexing!Mark(r)
  <2>1. Indexing!Pending \in IndexRows /\ Indexing!Pending.status = "pending"
    BY <1>1 DEF Indexing!Pending, Indexing!NoState, Indexing!Nobody, IndexRows
  <2>2. /\ UNCHANGED <<chunks, model, active, worker>> /\ state[r].status = "none"
        /\ state' = [state EXCEPT ![r] = Indexing!Pending]
    BY <1>3 DEF Indexing!Mark
  <2>3. state' \in [Records -> IndexRows] /\ \A s \in Records : state'[s].status # state[s].status =>
           s = r /\ state'[s].status = "pending"
    BY <2>1, <2>2 DEF IndexIInv
  <2> QED BY <2>2, <2>3, Settling DEF IndexIInv, Indexing!Settled
<1>4. CASE Indexing!Remove(r)
  <2>1. Indexing!NoState \in IndexRows /\ Indexing!NoState.status = "none"
    BY <1>1 DEF Indexing!NoState, Indexing!Nobody, IndexRows
  <2>2. /\ UNCHANGED <<model, active, worker>>
        /\ state' = [state EXCEPT ![r] = Indexing!NoState] /\ chunks' = [chunks EXCEPT ![r] = 0]
    BY <1>4 DEF Indexing!Remove
  <2>3. state' \in [Records -> IndexRows] /\ chunks' \in [Records -> Indexing!Models \cup {0}]
    BY <2>1, <2>2 DEF IndexIInv
  <2>4. ASSUME NEW s \in Records PROVE Obeys(s)
    BY <2>1, <2>2 DEF Obeys, IndexIInv
  <2> QED BY <2>2, <2>3, <2>4 DEF IndexIInv
<1> QED BY <1>2, <1>3, <1>4

\* What analysts ask of the whole index.
LEMMA IndexRequests ==
  ASSUME Indexing!IndexingAssumption, IndexIInv,
         Indexing!CancelIndexing \/ \E scope \in {"failed", "stale", "all"} : Indexing!Reindex(scope)
  PROVE  IndexIInv' /\ \A r \in Records : Obeys(r)
<1>1. UNCHANGED <<chunks, model, active, worker>>
  BY DEF Indexing!CancelIndexing, Indexing!Reindex
<1>2. CASE Indexing!CancelIndexing
  <2> DEFINE Row(r) == CASE state[r].status = "pending" -> [state[r] EXCEPT !.status = "canceled", !.cancel = TRUE]
                        [] state[r].status = "indexing" -> [state[r] EXCEPT !.cancel = TRUE]
                        [] OTHER -> state[r]
  <2>1. state' = [r \in Records |-> Row(r)]
    BY <1>2 DEF Indexing!CancelIndexing
  <2>2. \A r \in Records : Row(r) \in IndexRows /\ (Row(r).status # state[r].status => state[r].status = "pending" /\ Row(r).status = "canceled")
    BY DEF IndexIInv, IndexRows, Indexing!Settled
  <2> HIDE DEF Row
  <2> QED BY <1>1, <2>1, <2>2, Settling DEF IndexIInv, Indexing!Settled
<1>3. ASSUME NEW scope, Indexing!Reindex(scope) PROVE IndexIInv' /\ \A r \in Records : Obeys(r)
  <2> DEFINE Row(r) == IF Indexing!InScope(r, scope) THEN [Indexing!Pending EXCEPT !.profile = state[r].profile] ELSE state[r]
  <2>1. state' = [r \in Records |-> Row(r)]
    BY <1>3 DEF Indexing!Reindex
  <2>2. 0 \in 0 .. MaxAttempts
    BY DEF Indexing!IndexingAssumption
  <2>3. \A r \in Records : Row(r) \in IndexRows /\ Row(r).status \in {state[r].status, "pending"}
    BY <2>2 DEF IndexIInv, IndexRows, Indexing!Pending, Indexing!NoState, Indexing!Nobody
  <2> HIDE DEF Row
  <2>4. \A r \in Records : Obeys(r)
    BY <1>1, <2>1, <2>3 DEF Obeys
  <2> QED BY <1>1, <2>1, <2>3, <2>4 DEF IndexIInv
<1> QED BY <1>2, <1>3

\* What leaves the rows and the workers alone.
LEMMA IndexAround ==
  ASSUME Indexing!IndexingAssumption, IndexIInv,
         \/ Indexing!SetMode \/ Indexing!CloseCase \/ Indexing!InstallModel
         \/ Indexing!ScheduleIndexWork \/ Indexing!Dispatch
         \/ UNCHANGED Indexing!vars
  PROVE  IndexIInv' /\ \A r \in Records : Obeys(r)
<1>1. UNCHANGED <<state, chunks, worker, active>> /\ model' \in Indexing!Models
  <2>1. CASE Indexing!InstallModel
    BY <2>1 DEF Indexing!InstallModel, IndexIInv, Indexing!Models, Indexing!IndexingAssumption
  <2>2. CASE Indexing!SetMode \/ Indexing!CloseCase \/ Indexing!ScheduleIndexWork \/ Indexing!Dispatch \/ UNCHANGED Indexing!vars
    BY <2>2
         DEF Indexing!SetMode, Indexing!CloseCase, Indexing!ScheduleIndexWork, Indexing!Dispatch, Indexing!vars, IndexIInv
  <2> QED BY <2>1, <2>2
<1> QED BY <1>1, Settling DEF IndexIInv

\* Every step keeps the types and does with each record what the property asks.
LEMMA IndexStep ==
  ASSUME Indexing!IndexingAssumption, IndexIInv, [Indexing!Next]_(Indexing!vars)
  PROVE  IndexIInv' /\ Indexing!IndexingObeys
<1>1. IndexIInv' /\ \A r \in Records : Obeys(r)
  BY ClaimRows, BatchRows, WriteRow, BatchEnds, RecordMoves, IndexRequests, IndexAround
     DEF Indexing!Next, Indexing!WorkerStep
<1> QED BY <1>1 DEF Obeys, Indexing!IndexingObeys

\* The index among the parts of MCAi.
IndexPart == part = "indexing" => IndexIInv

\* It holds of every behaviour of the index.
LEMMA IndexInvariance == Spec => []IndexPart
<1>1. Init => IndexPart
  BY IndexAssumption, IndexInit DEF Init, IndexPart
<1>2. ASSUME IndexPart, [Next]_vars, part' = "indexing" PROVE IndexIInv'
  <2>1. CASE Next
    <3>1. part = "indexing" /\ Indexing!Next
      BY <1>2, <2>1 DEF Next, Is, NextIndexing, NextAnswers, NextCollections, NextQuestion
    <3> QED BY <3>1, <1>2, IndexAssumption, IndexStep DEF IndexPart
  <2>2. CASE UNCHANGED vars
    <3>1. part = "indexing" /\ UNCHANGED Indexing!vars
      BY <1>2, <2>2 DEF vars, indexVars, Indexing!vars, Indexing!outboxVars, Indexing!settingsVars
    <3> QED BY <3>1, <1>2, IndexAssumption, IndexStep DEF IndexPart
  <2> QED BY <1>2, <2>1, <2>2
<1>3. IndexPart /\ [Next]_vars => IndexPart'
  BY <1>2 DEF IndexPart
<1> QED BY <1>1, <1>3, PTL DEF Spec

\* What an analyst decides about the index holds against workers that embed for minutes: a settled record
\* changes only when it is asked for again or deleted, one whose indexing was canceled is not indexed, and
\* nothing is added to the index of a case that was closed or has AI switched off.
THEOREM IndexingAlwaysObeys == Spec => IndexingObeys
<1>1. ASSUME IndexPart, [Next]_vars PROVE [part = "indexing" => Indexing!IndexingObeys]_vars
  <2> SUFFICES ASSUME Next, part = "indexing" PROVE Indexing!IndexingObeys
    BY <1>1
  <2>1. Indexing!Next
    BY DEF Next, Is, NextIndexing, NextAnswers, NextCollections, NextQuestion
  <2> QED BY <1>1, <2>1, IndexAssumption, IndexStep DEF IndexPart
<1> QED BY <1>1, IndexInvariance, PTL DEF Spec, IndexingObeys

-----------------------------------------------------------------------------
(* The executions: the theorems of Collections_proofs, for each part.      *)

\* The steps of the program are those of the chosen part, and it stays chosen.
LEMMA ChosenPart ==
  /\ Spec /\ part = "changes" => [](part = "changes") /\ Changes!Spec
  /\ Spec /\ part = "retention" => [](part = "retention") /\ Retention!Spec
  /\ Spec /\ part = "imports" => [](part = "imports") /\ Imports!Spec
  /\ Spec /\ ~(part = "changes") => [](~(part = "changes"))
  /\ Spec /\ ~(part = "retention") => [](~(part = "retention"))
  /\ Spec /\ ~(part = "imports") => [](~(part = "imports"))
<1>1. Init => /\ part = "changes" => Changes!Init
              /\ part = "retention" => Retention!Init
              /\ part = "imports" => Imports!Init
  BY DEF Init
<1>2. [Next]_vars => part' = part
  BY DEF Next, NextIndexing, NextAnswers, NextCollections, NextQuestion, Is, vars
<1>3. ASSUME [Next]_vars, part = "changes" PROVE [Changes!Next]_(Changes!vars)
  BY <1>3 DEF Next, NextIndexing, NextAnswers, NextCollections, NextQuestion, Is, vars, collectionVars,
     Changes!vars, Changes!sourceVars, Changes!ruleVars
<1>4. ASSUME [Next]_vars, part = "retention" PROVE [Retention!Next]_(Retention!vars)
  BY <1>4 DEF Next, NextIndexing, NextAnswers, NextCollections, NextQuestion, Is, vars, collectionVars,
     Retention!vars, Retention!sourceVars, Retention!ruleVars
<1>5. ASSUME [Next]_vars, part = "imports" PROVE [Imports!Next]_(Imports!vars)
  BY <1>5 DEF Next, NextIndexing, NextAnswers, NextCollections, NextQuestion, Is, vars, collectionVars,
     Imports!vars, Imports!sourceVars, Imports!ruleVars
<1>6. /\ [Next]_vars /\ part = "changes" => (part = "changes")' /\ [Changes!Next]_(Changes!vars)
      /\ [Next]_vars /\ part = "retention" => (part = "retention")' /\ [Retention!Next]_(Retention!vars)
      /\ [Next]_vars /\ part = "imports" => (part = "imports")' /\ [Imports!Next]_(Imports!vars)
      /\ [Next]_vars /\ ~(part = "changes") => ~(part = "changes")'
      /\ [Next]_vars /\ ~(part = "retention") => ~(part = "retention")'
      /\ [Next]_vars /\ ~(part = "imports") => ~(part = "imports")'
  BY <1>2, <1>3, <1>4, <1>5
<1> QED BY <1>1, <1>6, PTL DEF Spec, Changes!Spec, Retention!Spec, Imports!Spec

\* What a change set says of an item is true of the source.
THEOREM ChangesAreAlwaysTrue == Spec => []ChangesAreTrue
<1>1. Changes!CollectionsAssumption
  BY ExecutionsAssumption
<1>2. Changes!Spec => []Changes!ChangesAreTrue
  BY <1>1, Changes!ChangesAreAlwaysTrue
<1>3. Changes!ChangesAreTrue \/ ~(part = "changes") => ChangesAreTrue
  BY DEF ChangesAreTrue
<1> QED BY <1>2, <1>3, ChosenPart, PTL

\* Retention keeps the baselines, what it removed half stays due, and it takes no import from under a job.
THEOREM RetentionIsAlwaysSafe == Spec => RetentionIsSafe
<1>1. Retention!CollectionsAssumption /\ Imports!CollectionsAssumption
  BY ExecutionsAssumption
<1>2. /\ Retention!Spec => []Retention!BaselinesAreKept
      /\ Retention!Spec => [](Retention!HalfRemovedIsDue /\ Retention!HalfRemovedImportIsDue)
      /\ Imports!Spec => [](Imports!HalfRemovedIsDue /\ Imports!HalfRemovedImportIsDue)
      /\ Imports!Spec => [][Imports!ImportsInUseStay]_(Imports!vars)
  BY <1>1, Retention!BaselinesAreAlwaysKept, Retention!HalfRemovedIsAlwaysDue, Imports!HalfRemovedIsAlwaysDue,
     Imports!ImportsInUseAlwaysStay
<1>3. Spec => [](part = "retention" => Retention!BaselinesAreKept /\ Retention!HalfRemovedIsDue)
  BY <1>2, ChosenPart, PTL
<1>4. Spec => [](part = "imports" => Imports!HalfRemovedIsDue /\ Imports!HalfRemovedImportIsDue)
  BY <1>2, ChosenPart, PTL
<1>5. [Imports!ImportsInUseStay]_(Imports!vars) => [part = "imports" => Imports!ImportsInUseStay]_vars
  <2>1. UNCHANGED Imports!vars => Imports!ImportsInUseStay
    BY DEF Imports!vars, Imports!ImportsInUseStay
  <2> QED BY <2>1
<1>6. [Next]_vars /\ ~(part = "imports") => [part = "imports" => Imports!ImportsInUseStay]_vars
  OBVIOUS
<1>7. Spec => [][part = "imports" => Imports!ImportsInUseStay]_vars
  BY <1>2, <1>5, <1>6, ChosenPart, PTL DEF Spec
<1> QED BY <1>3, <1>4, <1>7 DEF RetentionIsSafe

-----------------------------------------------------------------------------
(* Induction, and counting, for what follows.                              *)

\* The cardinality of AnswerValidation is that of FiniteSets.
LEMMA AnswersCount == ASSUME NEW S PROVE Validation!Cardinality(S) = Cardinality(S)
BY DEF Validation!Cardinality, Cardinality

\* So is that of CaseSearch.
LEMMA SearchCounts == ASSUME NEW S PROVE Search!Cardinality(S) = Cardinality(S)
BY DEF Search!Cardinality, Cardinality

\* What holds of 0 and of each next number holds of all.
LEMMA Induces == ASSUME NEW S, 0 \in S, \A n \in S \cap Nat : n + 1 \in S PROVE Nat \subseteq S
<1> SUFFICES ASSUME Nat \ S # {} PROVE FALSE
  OBVIOUS
<1> DEFINE R == OpToRel(<, Nat)
           rest == Nat \ S
<1>1. IsWellFoundedOn(R, Nat)
  BY NatLessThanWellFounded
<1>2. \A i, j \in Nat : <<i, j>> \in R <=> i < j
  BY DEF OpToRel
<1> HIDE DEF R
<1>3. PICK m \in rest : \A y \in rest : ~ (<<y, m>> \in R)
  BY <1>1, WFMin
<1>4. m \in Nat /\ m # 0 /\ m - 1 \in Nat /\ m - 1 < m
  BY <1>3
<1>5. m - 1 \notin rest
  BY <1>2, <1>3, <1>4, Zenon
<1>6. m - 1 \in S \cap Nat /\ (m - 1) + 1 = m
  BY <1>4, <1>5
<1>7. m \in S
  BY <1>6
<1> QED BY <1>3, <1>7

-----------------------------------------------------------------------------
(* Answers.                                                                *)

\* Groups have no statement in common, and hold comparable ones up to the k-th.
Apart(groups, comparable, k) ==
  /\ groups \in Seq(SUBSET (comparable \cap (1 .. k)))
  /\ \A g, h \in DOMAIN groups : g # h => groups[g] \cap groups[h] = {}

\* A statement is added to one group, or to none.
LEMMA PlacedApart ==
  ASSUME NEW claims, NEW comparable, NEW k \in Nat, NEW groups, Apart(groups, comparable, k)
  PROVE  Apart(Validation!Placed(claims, comparable, groups, k + 1), comparable, k + 1)
<1> DEFINE next == Validation!Placed(claims, comparable, groups, k + 1)
           fits == Validation!Fits(claims, groups, k + 1)
           first == CHOOSE x \in fits : \A y \in fits : x <= y
           S == SUBSET (comparable \cap (1 .. k + 1))
<1>1. next = IF k + 1 \notin comparable THEN groups
             ELSE IF fits = {} THEN Append(groups, {k + 1})
             ELSE [groups EXCEPT ![first] = @ \cup {k + 1}]
  BY Zenon DEF Validation!Placed
<1> HIDE DEF next, fits, first
<1>2. groups \in Seq(S) /\ \A g \in DOMAIN groups : k + 1 \notin groups[g]
  <2>1. SUBSET (comparable \cap (1 .. k)) \subseteq S
    OBVIOUS
  <2>2. \A g \in DOMAIN groups : groups[g] \in SUBSET (comparable \cap (1 .. k))
    BY DEF Apart
  <2>3. k + 1 \notin comparable \cap (1 .. k)
    OBVIOUS
  <2>4. groups \in Seq(SUBSET (comparable \cap (1 .. k)))
    BY Zenon DEF Apart
  <2> QED BY <2>1, <2>2, <2>3, <2>4
<1>3. \A g, h \in DOMAIN groups : g # h => groups[g] \cap groups[h] = {}
  BY Zenon DEF Apart
<1>4. CASE k + 1 \notin comparable
  <2>1. next = groups
    BY <1>1, <1>4
  <2> QED BY <1>2, <1>3, <2>1, Zenon DEF Apart, next
<1>5. CASE k + 1 \in comparable /\ fits = {}
  <2>1. next = Append(groups, {k + 1}) /\ {k + 1} \in S
    BY <1>1, <1>5
  <2> HIDE DEF S
  <2>2. next \in Seq(S) /\ DOMAIN next = DOMAIN groups \cup {Len(groups) + 1} /\ next[Len(groups) + 1] = {k + 1}
        /\ Len(groups) + 1 \notin DOMAIN groups /\ \A g \in DOMAIN groups : next[g] = groups[g]
    BY <1>2, <2>1
  <2>3. \A g, h \in DOMAIN next : g # h => next[g] \cap next[h] = {}
    <3> SUFFICES ASSUME NEW g \in DOMAIN next, NEW h \in DOMAIN next, g # h PROVE next[g] \cap next[h] = {}
      OBVIOUS
    <3>1. CASE g \in DOMAIN groups /\ h \in DOMAIN groups
      BY <1>3, <2>2, <3>1
    <3>2. CASE g = Len(groups) + 1 /\ h \in DOMAIN groups
      BY <1>2, <2>2, <3>2
    <3>3. CASE h = Len(groups) + 1 /\ g \in DOMAIN groups
      BY <1>2, <2>2, <3>3
    <3> QED BY <2>2, <3>1, <3>2, <3>3
  <2> QED BY <2>2, <2>3, Zenon DEF Apart, S, next
<1>6. CASE k + 1 \in comparable /\ fits # {}
  <2>1. next = [groups EXCEPT ![first] = @ \cup {k + 1}]
    BY <1>1, <1>6
  <2>2. DOMAIN next = DOMAIN groups
        /\ \A g \in DOMAIN groups : next[g] = IF g = first THEN groups[g] \cup {k + 1} ELSE groups[g]
    <3>1. DOMAIN next = DOMAIN groups /\ \A g \in DOMAIN groups : next[g] = IF g = first THEN groups[g] \cup {k + 1} ELSE groups[g]
      BY <2>1
    <3> QED BY <3>1
  <2>3. next \in Seq(S)
    <3>1. \A g \in DOMAIN groups : groups[g] \cup {k + 1} \in S /\ groups[g] \in S
      BY <1>2, <1>6
    <3> HIDE DEF S
    <3>2. \A g \in DOMAIN groups : next[g] \in S
      BY <2>2, <3>1
    <3>3. Len(groups) \in Nat /\ DOMAIN groups = 1 .. Len(groups)
      BY <1>2
    <3>4. next = [g \in DOMAIN groups |-> next[g]]
      BY <2>1
    <3>5. next \in [1 .. Len(groups) -> S]
      BY <3>2, <3>3, <3>4
    <3> QED BY <3>3, <3>5
  <2>4. \A g, h \in DOMAIN next : g # h => next[g] \cap next[h] = {}
    BY <1>2, <1>3, <2>2
  <2> QED BY <2>3, <2>4, Zenon DEF Apart, S, next
<1> QED BY <1>4, <1>5, <1>6 DEF next

\* The groups are what their definition says, for any number of statements.
LEMMA GroupsAreDefined ==
  ASSUME NEW claims, NEW comparable, NEW k \in Nat
  PROVE  \E after : after = [n \in 0 .. k |-> IF n = 0 THEN <<>>
                                              ELSE Validation!Placed(claims, comparable, after[n - 1], n)]
<1> DEFINE Step(s, n) == Validation!Placed(claims, comparable, s, n)
           begun == <<>>
           Chain(m, f) == f = [n \in 0 .. m |-> IF n = 0 THEN begun ELSE Step(f[n - 1], n)]
           lengths == {m \in Nat : \E f : Chain(m, f)}
<1> HIDE DEF Step, begun
<1>1. 0 \in lengths
  <2> DEFINE f == [n \in 0 .. 0 |-> begun]
  <2>1. f = [n \in 0 .. 0 |-> IF n = 0 THEN begun ELSE Step(f[n - 1], n)]
    OBVIOUS
  <2> HIDE DEF f
  <2>2. Chain(0, f)
    BY <2>1
  <2> HIDE DEF Chain
  <2> QED BY <2>2
<1>2. ASSUME NEW m \in lengths \cap Nat PROVE m + 1 \in lengths
  <2>1. PICK f : f = [n \in 0 .. m |-> IF n = 0 THEN begun ELSE Step(f[n - 1], n)]
    BY <1>2
  <2> DEFINE g == [n \in 0 .. m + 1 |-> IF n = m + 1 THEN Step(f[m], m + 1) ELSE f[n]]
  <2>2. ASSUME NEW n \in 0 .. m + 1 PROVE g[n] = IF n = 0 THEN begun ELSE Step(g[n - 1], n)
    <3>1. CASE n = 0
      <4>1. g[n] = f[n] /\ f[n] = begun
        BY <2>1, <3>1
      <4> QED BY <3>1, <4>1
    <3>2. CASE n = m + 1
      <4>1. g[n] = Step(f[m], m + 1) /\ m \in 0 .. m + 1 /\ m # m + 1
        BY <3>2
      <4>2. g[m] = f[m]
        BY <4>1
      <4> QED BY <3>2, <4>1, <4>2
    <3>3. CASE n \in 1 .. m
      <4>1. g[n] = f[n] /\ g[n - 1] = f[n - 1]
        BY <3>3
      <4>2. f[n] = Step(f[n - 1], n)
        BY <2>1, <3>3
      <4> QED BY <3>3, <4>1, <4>2
    <3> QED BY <3>1, <3>2, <3>3
  <2>3. g = [n \in 0 .. m + 1 |-> g[n]]
    OBVIOUS
  <2> HIDE DEF g
  <2>4. Chain(m + 1, g)
    BY <2>2, <2>3
  <2> HIDE DEF Chain
  <2> QED BY <2>4
<1> HIDE DEF lengths
<1>3. k \in lengths
  BY <1>1, <1>2, Induces
<1> QED BY <1>3 DEF lengths, Step, begun

\* So the groups have no statement in common, and only comparable ones.
LEMMA GroupsApart ==
  ASSUME NEW claims, NEW comparable, Len(claims) \in Nat
  PROVE  Apart(Validation!Groups(claims, comparable), comparable, Len(claims))
<1> DEFINE k == Len(claims)
           after == CHOOSE f : f = [n \in 0 .. k |-> IF n = 0 THEN <<>>
                                                     ELSE Validation!Placed(claims, comparable, f[n - 1], n)]
<1>1. after = [n \in 0 .. k |-> IF n = 0 THEN <<>> ELSE Validation!Placed(claims, comparable, after[n - 1], n)]
  BY GroupsAreDefined
<1>2. Validation!Groups(claims, comparable) = after[k]
  BY DEF Validation!Groups
<1> HIDE DEF after
<1> DEFINE kept == {n \in Nat : n <= k => Apart(after[n], comparable, n)}
<1>3. 0 \in kept
  <2>1. after[0] = <<>>
    BY <1>1
  <2>2. Apart(<<>>, comparable, 0)
    BY DEF Apart
  <2> QED BY <2>1, <2>2
<1>4. ASSUME NEW n \in kept \cap Nat PROVE n + 1 \in kept
  <2> SUFFICES ASSUME n + 1 <= k PROVE Apart(after[n + 1], comparable, n + 1)
    OBVIOUS
  <2>1. Apart(after[n], comparable, n)
    OBVIOUS
  <2>2. n + 1 \in 0 .. k /\ n + 1 # 0 /\ (n + 1) - 1 = n
    OBVIOUS
  <2>3. after[n + 1] = Validation!Placed(claims, comparable, after[n], n + 1)
    BY <1>1, <2>2
  <2> QED BY <2>1, <2>3, PlacedApart
<1> HIDE DEF kept
<1>5. k \in kept
  BY <1>3, <1>4, Induces
<1> QED BY <1>2, <1>5 DEF kept

\* A statement that passed has no secret, is in what it cites, and is as sourced as its kind demands.
LEMMA PassedIsGrounded ==
  ASSUME NEW claim, ~ Validation!Removed(claim), IsFiniteSet(claim.cites)
  PROVE  LET cites == Validation!Cites(claim)
         IN /\ ~ claim.secret
            /\ Validation!Kind(claim) = "fact" =>
                 /\ \A item \in claim.value : \E c \in cites : item \in Validation!States(c)
                 /\ claim.subjects # {} =>
                      \E c \in cites : c.ref \in Validation!Tools \/ claim.subjects \cap Passages[c.ref].about # {}
            /\ Validation!Kind(claim) = "count" =>
                 claim.numbers \subseteq UNION {Results[c.ref] : c \in Validation!OfTools(cites)}
            /\ Validation!Kind(claim) = "conflict" => Cardinality(Validation!Sources(cites)) > 1
            /\ \A c \in cites : c.ref \in Validation!Tools \/ c.found
<1> DEFINE cites == Validation!Cites(claim)
           accepted == Validation!Accepted(claim)
<1>1. ~ claim.secret
  BY Zenon DEF Validation!Removed
<1>2. ASSUME Validation!Kind(claim) = "fact"
      PROVE  /\ \A item \in claim.value : \E c \in cites : item \in Validation!States(c)
             /\ claim.subjects # {} =>
                  \E c \in cites : c.ref \in Validation!Tools \/ claim.subjects \cap Passages[c.ref].about # {}
  <2>1. Validation!ValueSupported(claim.value, cites) /\ Validation!SubjectSupported(claim.subjects, cites)
    BY <1>2 DEF Validation!Removed
  <2> HIDE DEF cites
  <2>2. \A item \in claim.value : \E c \in cites : item \in Validation!States(c)
    BY <2>1, Zenon DEF Validation!ValueSupported
  <2> QED BY <2>1, <2>2, Zenon DEF Validation!SubjectSupported
<1>3. ASSUME Validation!Kind(claim) = "count"
      PROVE  claim.numbers \subseteq UNION {Results[c.ref] : c \in Validation!OfTools(cites)}
  <2>1. Validation!Counted(claim)
    BY <1>3 DEF Validation!Removed
  <2>2. cites = accepted
    BY <2>1, Zenon DEF Validation!Cites, Validation!AsNumber
  <2> QED BY <2>1, <2>2, Zenon DEF Validation!Counted
<1>4. ASSUME Validation!Kind(claim) = "conflict" PROVE Cardinality(Validation!Sources(cites)) > 1
  <2>1. claim.kind = "conflict" /\ ~ Validation!AsFact(claim) /\ ~ Validation!AsNumber(claim)
    BY <1>4 DEF Validation!Kind
  <2>2. ~ Validation!OneSided(claim) /\ cites = accepted
    BY <2>1 DEF Validation!Removed, Validation!Cites
  <2>3. ~ (Cardinality(Validation!Sources(accepted)) < 2)
    BY <2>1, <2>2, AnswersCount DEF Validation!OneSided
  <2>4. IsFiniteSet(accepted)
    <3>1. accepted \subseteq claim.cites
      BY Zenon DEF Validation!Accepted
    <3> QED BY <3>1, FS_Subset, Zenon
  <2>5. IsFiniteSet(Validation!Sources(accepted))
    <3> DEFINE f == [c \in accepted |-> Validation!Source(c)]
               S == Validation!Sources(accepted)
    <3>1. S = {Validation!Source(c) : c \in accepted}
      BY Zenon DEF Validation!Sources
    <3> HIDE DEF S, accepted
    <3>2. f \in [accepted -> S] /\ \A s \in S : \E c \in accepted : f[c] = s
      BY <3>1
    <3> HIDE DEF f
    <3>3. f \in Surjection(accepted, S)
      BY <3>2 DEF Surjection
    <3>4. IsFiniteSet(S)
      BY <2>4, <3>3, FS_Surjection
    <3> QED BY <3>4 DEF S, accepted
  <2>6. Cardinality(Validation!Sources(accepted)) \in Nat
    BY <2>5, FS_CardinalityType
  <2> QED BY <2>2, <2>3, <2>6
<1>5. \A c \in cites : c.ref \in Validation!Tools \/ c.found
  <2>1. cites \subseteq accepted
    BY Zenon DEF Validation!Cites, Validation!OfPassages
  <2>2. \A c \in accepted : c.ref \in Validation!Tools \/ c.found
    BY Zenon DEF Validation!Accepted
  <2> QED BY <2>1, <2>2
<1> QED BY <1>1, <1>2, <1>3, <1>4, <1>5, Zenon


\* The parts of an entry.
LEMMA SingleParts ==
  ASSUME NEW question, NEW claim, NEW k
  PROVE  LET e == Validation!Single(question, claim, k)
         IN /\ e.of = {k} /\ e.kind = Validation!Kind(claim) /\ e.cites = Validation!Cites(claim)
            /\ e.answers <=> Validation!AnswersQuestion(question, claim)
<1> DEFINE a == Validation!AnswersQuestion(question, claim)
           sort == Validation!Kind(claim)
           cites == Validation!Cites(claim)
<1>1. Validation!Single(question, claim, k) = [of |-> {k}, kind |-> sort, answers |-> a, difference |-> "none", cites |-> cites]
  BY Zenon DEF Validation!Single
<1> HIDE DEF a, sort, cites
<1>2. Validation!Single(question, claim, k).answers = a
  BY <1>1
<1>3. LET e == Validation!Single(question, claim, k) IN e.of = {k} /\ e.kind = sort /\ e.cites = cites
  BY <1>1
<1> QED BY <1>2, <1>3, Zenon DEF a, sort, cites

\* The same of a difference.
LEMMA DifferenceParts ==
  ASSUME NEW question, NEW claims, NEW g
  PROVE  LET e == Validation!Difference(question, claims, g)
         IN /\ e.of = g /\ e.kind = "conflict" /\ e.cites = UNION {Validation!Cites(claims[k]) : k \in g}
            /\ e.answers <=> \E k \in g : Validation!AnswersQuestion(question, claims[k])
<1> DEFINE a == \E k \in g : Validation!AnswersQuestion(question, claims[k])
           d == Validation!DifferenceType(claims, g)
           cites == UNION {Validation!Cites(claims[k]) : k \in g}
<1>1. Validation!Difference(question, claims, g) = [of |-> g, kind |-> "conflict", answers |-> a, difference |-> d, cites |-> cites]
  BY Zenon DEF Validation!Difference
<1> HIDE DEF a, d, cites
<1>2. Validation!Difference(question, claims, g).answers = a
  BY <1>1
<1>3. LET e == Validation!Difference(question, claims, g) IN e.of = g /\ e.kind = "conflict" /\ e.cites = cites
  BY <1>1
<1> QED BY <1>2, <1>3, Zenon DEF a, cites

\* Groups of facts that passed, which differ and have no statement in common.
FactsApart(claims, passed, merged) ==
  /\ \A g \in merged : /\ g \subseteq passed /\ Validation!Differs(claims, g)
                       /\ \A k \in g : Validation!Kind(claims[k]) = "fact"
  /\ \A g, h \in merged : g # h => g \cap h = {}

\* What is merged are such groups.
LEMMA MergedAreApart ==
  ASSUME NEW question, NEW claims, Len(claims) \in Nat, NEW passed
  PROVE  FactsApart(claims, passed, Validation!Merged(claims, Validation!Comparable(question, claims, passed)))
<1> DEFINE comparable == Validation!Comparable(question, claims, passed)
           groups == Validation!Groups(claims, comparable)
           merged == Validation!Merged(claims, comparable)
<1>1. Apart(groups, comparable, Len(claims))
  BY GroupsApart
<1>2. \A k \in comparable : k \in passed /\ Validation!Kind(claims[k]) = "fact"
  BY Zenon DEF Validation!Comparable
<1>3. \A g \in merged : Validation!Differs(claims, g) /\ \E i \in DOMAIN groups : g = groups[i]
  BY Zenon DEF Validation!Merged, Validation!Range
<1> HIDE DEF comparable, groups, merged
<1>4. \A i \in DOMAIN groups : groups[i] \subseteq comparable
  BY <1>1 DEF Apart
<1>5. \A i, j \in DOMAIN groups : i # j => groups[i] \cap groups[j] = {}
  BY <1>1, Zenon DEF Apart
<1>6. \A g \in merged : g \subseteq passed /\ \A k \in g : Validation!Kind(claims[k]) = "fact"
  BY <1>2, <1>3, <1>4, Zenon
<1>7. \A g, h \in merged : g # h => g \cap h = {}
  BY <1>3, <1>5, Zenon
<1>8. FactsApart(claims, passed, merged)
  BY <1>3, <1>6, <1>7, Zenon DEF FactsApart
<1> QED BY <1>8, Zenon DEF merged, comparable

\* What is shown is grounded, and what passed is shown once.
LEMMA ShownStaysGrounded ==
  ASSUME NEW question, NEW S, NEW raw \in Seq(S),
         \A k \in DOMAIN raw : IsFiniteSet(raw[k].cites)
  PROVE  Validation!ShownIsGrounded(raw, Validation!Answer(question, raw))
<1> DEFINE n == IF Len(raw) < MaxStatements THEN Len(raw) ELSE MaxStatements
           claims == SubSeq(raw, 1, n)
           passed == Validation!Shown(claims)
           merged == Validation!Merged(claims, Validation!Comparable(question, claims, passed))
           entries == Validation!Entries(question, claims, passed, merged)
           answer == Validation!Answer(question, raw)
<1>1. answer.entries = entries /\ answer.removed = DOMAIN claims \ passed
  BY Zenon DEF Validation!Answer, Validation!Finished
<1>2. /\ Len(claims) \in Nat /\ DOMAIN claims = {k \in DOMAIN raw : k <= MaxStatements}
      /\ \A k \in DOMAIN claims : k \in DOMAIN raw /\ claims[k] = raw[k]
  BY ValidationAssumption DEF Validation!ValidationAssumption
<1> HIDE DEF n, claims
<1>3. \A k \in passed : k \in DOMAIN claims /\ ~ Validation!Removed(raw[k])
  BY <1>2, Zenon DEF Validation!Shown
<1>4. \A k \in DOMAIN claims : k \in passed \/ k \in answer.removed
  BY <1>1, Zenon
<1>5. /\ \A g \in merged : /\ g \subseteq passed /\ Validation!Differs(claims, g)
                           /\ \A k \in g : Validation!Kind(claims[k]) = "fact"
      /\ \A g, h \in merged : g # h => g \cap h = {}
  <2>1. Len(claims) \in Nat
    BY <1>2
  <2> HIDE DEF passed, merged
  <2>2. FactsApart(claims, passed, Validation!Merged(claims, Validation!Comparable(question, claims, passed)))
    BY <2>1, MergedAreApart, Zenon
  <2>3. FactsApart(claims, passed, merged)
    BY <2>2, Zenon DEF merged
  <2> QED BY <2>3, Zenon DEF FactsApart
<1>6. \A e \in entries : \/ \E k \in passed \ UNION merged : e = Validation!Single(question, claims[k], k)
                         \/ \E g \in merged : e = Validation!Difference(question, claims, g)
  BY Zenon DEF Validation!Entries
<1>7. /\ \A k \in passed \ UNION merged : Validation!Single(question, claims[k], k) \in entries
      /\ \A g \in merged : Validation!Difference(question, claims, g) \in entries
  BY Zenon DEF Validation!Entries
<1> HIDE DEF passed, merged, entries, answer
<1>8. ASSUME NEW e \in entries, NEW k \in e.of
      PROVE  LET claim == raw[k]
             IN /\ ~ claim.secret
                /\ Validation!Kind(claim) = "fact" =>
                     /\ \A item \in claim.value : \E c \in e.cites : item \in Validation!States(c)
                     /\ claim.subjects # {} =>
                          \E c \in e.cites : c.ref \in Validation!Tools \/ claim.subjects \cap Passages[c.ref].about # {}
                /\ e.kind = "count" => claim.numbers \subseteq UNION {Results[c.ref] : c \in Validation!OfTools(e.cites)}
                /\ e.kind = "conflict" => Validation!Cardinality(Validation!Sources(e.cites)) > 1
                /\ e.kind \in {"fact", "conflict"} => \A c \in e.cites : c.ref \in Validation!Tools \/ c.found
  <2>1. ASSUME NEW l \in passed \ UNION merged, e = Validation!Single(question, claims[l], l)
        PROVE  k = l /\ k \in passed /\ e.kind = Validation!Kind(raw[k]) /\ e.cites = Validation!Cites(raw[k])
    BY <2>1, <1>2, <1>3, SingleParts
  <2>2. ASSUME NEW g \in merged, e = Validation!Difference(question, claims, g)
        PROVE  /\ e.kind = "conflict" /\ k \in passed /\ Validation!Kind(raw[k]) = "fact"
               /\ Validation!Cites(raw[k]) \subseteq e.cites
               /\ \A c \in e.cites : \E l \in passed : c \in Validation!Cites(raw[l])
               /\ Validation!Cardinality(Validation!Sources(e.cites)) > 1
    <3>1. e.of = g /\ e.kind = "conflict" /\ e.cites = UNION {Validation!Cites(claims[m]) : m \in g}
      BY <2>2, DifferenceParts
    <3>2. k \in g /\ k \in passed /\ claims[k] = raw[k] /\ Validation!Kind(raw[k]) = "fact"
      BY <3>1, <1>2, <1>3, <1>5
    <3>3. \A c \in e.cites : \E l \in passed : c \in Validation!Cites(raw[l])
      BY <3>1, <1>2, <1>3, <1>5
    <3>4. UNION {Validation!Sources(Validation!Cites(claims[m])) : m \in g} = Validation!Sources(e.cites)
      BY <3>1 DEF Validation!Sources
    <3>5. Validation!Cardinality(UNION {Validation!Sources(Validation!Cites(claims[m])) : m \in g}) > 1
      BY <1>5, Zenon DEF Validation!Differs
    <3> QED BY <3>1, <3>2, <3>3, <3>4, <3>5
  <2>3. \A l \in passed : IsFiniteSet(raw[l].cites)
    BY <1>2, <1>3
  <2>4. CASE \E l \in passed \ UNION merged : e = Validation!Single(question, claims[l], l)
    <3>1. /\ k \in passed /\ e.kind = Validation!Kind(raw[k]) /\ e.cites = Validation!Cites(raw[k])
          /\ IsFiniteSet(raw[k].cites) /\ ~ Validation!Removed(raw[k])
      BY <2>1, <2>3, <2>4, <1>3, Zenon
    <3> QED BY <3>1, PassedIsGrounded, AnswersCount, Zenon
  <2>5. CASE \E g \in merged : e = Validation!Difference(question, claims, g)
    <3>1. /\ e.kind = "conflict" /\ k \in passed /\ Validation!Kind(raw[k]) = "fact"
          /\ Validation!Cites(raw[k]) \subseteq e.cites
          /\ \A c \in e.cites : \E l \in passed : c \in Validation!Cites(raw[l])
          /\ Validation!Cardinality(Validation!Sources(e.cites)) > 1
      BY <2>2, <2>5, Zenon
    <3>2. \A l \in passed : \A c \in Validation!Cites(raw[l]) : c.ref \in Validation!Tools \/ c.found
      BY <2>3, <1>3, PassedIsGrounded, Zenon
    <3>3. /\ ~ raw[k].secret
          /\ \A item \in raw[k].value : \E c \in Validation!Cites(raw[k]) : item \in Validation!States(c)
          /\ raw[k].subjects # {} =>
               \E c \in Validation!Cites(raw[k]) :
                 c.ref \in Validation!Tools \/ raw[k].subjects \cap Passages[c.ref].about # {}
      BY <2>3, <3>1, <1>3, PassedIsGrounded, Zenon
    <3>4. e.kind # "count"
      BY <3>1
    <3> QED BY <3>1, <3>2, <3>3, <3>4, Zenon
  <2> QED BY <1>6, <2>4, <2>5, Zenon
<1>9. ASSUME NEW k \in passed PROVE Validation!Cardinality({e \in entries : k \in e.of}) = 1
  <2>1. CASE k \notin UNION merged
    <3>1. \A e \in entries : k \in e.of <=> e = Validation!Single(question, claims[k], k)
      <4> SUFFICES ASSUME NEW e \in entries PROVE k \in e.of <=> e = Validation!Single(question, claims[k], k)
        OBVIOUS
      <4>1. ASSUME NEW l \in passed, e = Validation!Single(question, claims[l], l) PROVE e.of = {l}
        BY <4>1, SingleParts
      <4>2. ASSUME NEW g \in merged, e = Validation!Difference(question, claims, g) PROVE e.of = g
        BY <4>2, DifferenceParts
      <4> QED BY <1>6, <2>1, <4>1, <4>2
    <3>2. Validation!Single(question, claims[k], k) \in entries
      BY <1>7, <2>1
    <3>3. {e \in entries : k \in e.of} = {Validation!Single(question, claims[k], k)}
      BY <3>1, <3>2
    <3> QED BY <3>3, FS_Singleton, AnswersCount, Zenon
  <2>2. CASE k \in UNION merged
    <3>1. PICK g \in merged : k \in g
      BY <2>2
    <3>2. \A e \in entries : k \in e.of <=> e = Validation!Difference(question, claims, g)
      <4> SUFFICES ASSUME NEW e \in entries PROVE k \in e.of <=> e = Validation!Difference(question, claims, g)
        OBVIOUS
      <4>1. ASSUME NEW l \in passed \ UNION merged, e = Validation!Single(question, claims[l], l) PROVE e.of = {l} /\ l # k
        BY <4>1, <3>1, SingleParts
      <4>2. ASSUME NEW h \in merged, e = Validation!Difference(question, claims, h) PROVE e.of = h
        BY <4>2, DifferenceParts
      <4>3. \A h \in merged : k \in h => h = g
        BY <1>5, <3>1
      <4>4. CASE \E l \in passed \ UNION merged : e = Validation!Single(question, claims[l], l)
        <5>1. k \notin e.of
          BY <4>1, <4>4
        <5>2. e # Validation!Difference(question, claims, g)
          BY <4>2, <5>1, <3>1
        <5> QED BY <5>1, <5>2
      <4>5. CASE \E h \in merged : e = Validation!Difference(question, claims, h)
        BY <4>2, <4>3, <4>5, <3>1, Zenon
      <4> QED BY <1>6, <4>4, <4>5
    <3>3. Validation!Difference(question, claims, g) \in entries
      BY <1>7, <3>1
    <3>4. {e \in entries : k \in e.of} = {Validation!Difference(question, claims, g)}
      BY <3>2, <3>3
    <3> QED BY <3>4, FS_Singleton, AnswersCount, Zenon
  <2> QED BY <2>1, <2>2
<1>10. \A k \in DOMAIN raw \ answer.removed :
         k > MaxStatements \/ Validation!Cardinality({e \in answer.entries : k \in e.of}) = 1
  <2> SUFFICES ASSUME NEW k \in DOMAIN raw \ answer.removed, ~ (k > MaxStatements)
               PROVE  Validation!Cardinality({e \in answer.entries : k \in e.of}) = 1
    OBVIOUS
  <2>1. k <= MaxStatements
    BY ValidationAssumption DEF Validation!ValidationAssumption
  <2>2. k \in passed
    BY <2>1, <1>2, <1>4
  <2> QED BY <2>2, <1>1, <1>9, Zenon
<1> QED BY <1>1, <1>8, <1>10, Zenon DEF Validation!ShownIsGrounded, answer

\* A statement that answers is about the question's subject and year.
LEMMA AnsweringIsRelevant ==
  ASSUME NEW question, NEW claim, Validation!AnswersQuestion(question, claim)
  PROVE  /\ question.subjects # {} /\ claim.subjects # {} => question.subjects \cap claim.subjects # {}
         /\ question.years # {} /\ claim.years # {} /\ Validation!Kind(claim) = "fact" =>
              \/ question.years \cap claim.years # {}
              \/ \E c \in Validation!Cites(claim) : question.years \cap c.years # {}
<1> DEFINE cited == UNION {c.years : c \in Validation!OfPassages(Validation!Cites(claim))}
           years == claim.years \cup cited
<1>1. Validation!Applicability(question, claim) \notin {"other_subject", "other_period"}
  BY Zenon DEF Validation!AnswersQuestion
<1>2. /\ ~ (question.subjects # {} /\ claim.subjects # {} /\ question.subjects \cap claim.subjects = {})
      /\ ~ (/\ Validation!Kind(claim) = "fact" /\ question.years # {}
            /\ years # {} /\ years \cap question.years = {})
  BY <1>1 DEF Validation!Applicability
<1>3. \A y \in cited : \E c \in Validation!Cites(claim) : y \in c.years
  BY Zenon DEF Validation!OfPassages
<1> HIDE DEF cited
<1>4. ASSUME question.years # {}, claim.years # {}, Validation!Kind(claim) = "fact"
      PROVE  \/ question.years \cap claim.years # {}
             \/ \E c \in Validation!Cites(claim) : question.years \cap c.years # {}
  <2>1. PICK y \in years : y \in question.years
    BY <1>2, <1>4
  <2>2. CASE y \in claim.years
    BY <2>1, <2>2
  <2>3. CASE y \in cited
    <3>1. PICK c \in Validation!Cites(claim) : y \in c.years
      BY <2>3, <1>3
    <3> QED BY <2>1, <3>1
  <2> QED BY <2>1, <2>2, <2>3
<1> QED BY <1>2, <1>4, Zenon

\* An answer that is given has a statement that answers, and one that is complete removed none.
LEMMA StatusStaysEarned ==
  ASSUME NEW question, NEW S, NEW raw \in Seq(S)
  PROVE  Validation!StatusIsEarned(question, raw, Validation!Answer(question, raw))
<1> DEFINE n == IF Len(raw) < MaxStatements THEN Len(raw) ELSE MaxStatements
           claims == SubSeq(raw, 1, n)
           passed == Validation!Shown(claims)
           merged == Validation!Merged(claims, Validation!Comparable(question, claims, passed))
           entries == Validation!Entries(question, claims, passed, merged)
           answer == Validation!Answer(question, raw)
           Relevant(k) == /\ question.subjects # {} /\ raw[k].subjects # {} => question.subjects \cap raw[k].subjects # {}
                          /\ question.years # {} /\ raw[k].years # {} /\ Validation!Kind(raw[k]) = "fact" =>
                               \/ question.years \cap raw[k].years # {}
                               \/ \E c \in Validation!Cites(raw[k]) : question.years \cap c.years # {}
<1>1. /\ answer.entries = entries /\ answer.removed = DOMAIN claims \ passed
      /\ answer.status = Validation!Status(claims, passed, entries)
  BY Zenon DEF Validation!Answer, Validation!Finished
<1>2. Len(claims) \in Nat /\ \A k \in DOMAIN claims : k \in DOMAIN raw /\ claims[k] = raw[k]
  BY ValidationAssumption DEF Validation!ValidationAssumption
<1> HIDE DEF n, claims
<1>3. passed \subseteq DOMAIN claims
  BY Zenon DEF Validation!Shown
<1>4. \A g \in merged : g \subseteq passed
  <2>1. Len(claims) \in Nat
    BY <1>2
  <2> HIDE DEF passed, merged
  <2>2. FactsApart(claims, passed, Validation!Merged(claims, Validation!Comparable(question, claims, passed)))
    BY <2>1, MergedAreApart, Zenon
  <2>3. FactsApart(claims, passed, merged)
    BY <2>2, Zenon DEF merged
  <2> QED BY <2>3, Zenon DEF FactsApart
<1>5. \A e \in entries : \/ \E k \in passed : e = Validation!Single(question, claims[k], k)
                         \/ \E g \in merged : e = Validation!Difference(question, claims, g)
  BY Zenon DEF Validation!Entries
<1> HIDE DEF passed, merged, entries, answer
<1>6. ASSUME NEW e \in entries, e.answers PROVE \E k \in e.of : Relevant(k)
  <2>1. \A k \in passed : Validation!AnswersQuestion(question, claims[k]) => Relevant(k)
    <3> SUFFICES ASSUME NEW k \in passed, Validation!AnswersQuestion(question, claims[k]) PROVE Relevant(k)
      OBVIOUS
    <3>1. Validation!AnswersQuestion(question, raw[k])
      BY <1>2, <1>3
    <3> QED BY <3>1, AnsweringIsRelevant
  <2> HIDE DEF Relevant
  <2>2. ASSUME NEW k \in passed, e = Validation!Single(question, claims[k], k) PROVE \E l \in e.of : Relevant(l)
    <3>1. e.of = {k} /\ Validation!AnswersQuestion(question, claims[k])
      BY <1>6, <2>2, SingleParts
    <3> QED BY <2>1, <3>1
  <2>3. ASSUME NEW g \in merged, e = Validation!Difference(question, claims, g) PROVE \E l \in e.of : Relevant(l)
    <3>1. e.of = g /\ \E k \in g : Validation!AnswersQuestion(question, claims[k])
      BY <1>6, <2>3, DifferenceParts
    <3> QED BY <1>4, <2>1, <3>1
  <2> QED BY <1>5, <2>2, <2>3, Zenon
<1>7. answer.status # "insufficient_evidence" =>
        \E e \in answer.entries : e.kind \in Validation!Factual /\ \E k \in e.of : Relevant(k)
  <2> HIDE DEF Relevant
  <2> SUFFICES ASSUME answer.status # "insufficient_evidence"
               PROVE  \E e \in entries : e.kind \in Validation!Factual /\ \E k \in e.of : Relevant(k)
    BY <1>1
  <2>1. PICK e \in entries : e.kind \in Validation!Factual /\ e.answers
    BY <1>1, Zenon DEF Validation!Status
  <2> QED BY <1>6, <2>1
<1>8. answer.status = "answered" => answer.removed = {}
  <2> SUFFICES ASSUME answer.status = "answered" PROVE DOMAIN claims \ passed = {}
    BY <1>1
  <2>1. passed = DOMAIN claims
    BY <1>1 DEF Validation!Status
  <2> QED BY <2>1
<1> QED BY <1>7, <1>8, Zenon DEF Validation!StatusIsEarned, answer

-----------------------------------------------------------------------------
(* The calls of tools.                                                     *)

\* What is known of the first calls: few ran, each once and only registered ones; the others were refused.
CallsFollow(sofar, looked, n, tools, S) ==
  /\ sofar \in [results : Seq(S), rejected : Seq(S)]
  /\ Len(sofar.results) <= MaxCalls
  /\ \A i, j \in DOMAIN sofar.results : i # j => sofar.results[i] # sofar.results[j]
  /\ \A i \in DOMAIN sofar.results : sofar.results[i].tool \in tools /\ sofar.results[i].arguments # "invalid"
  /\ \A m \in 1 .. n : \/ \E i \in DOMAIN sofar.results : sofar.results[i] = looked[m]
                       \/ \E i \in DOMAIN sofar.rejected : sofar.rejected[i] = looked[m]

\* One more call keeps it so.
LEMMA NextCall ==
  ASSUME NEW S, NEW looked \in Seq(S), NEW tools, NEW n \in Nat, n + 1 <= Len(looked), MaxCalls \in Nat,
         NEW sofar, CallsFollow(sofar, looked, n, tools, S)
  PROVE  CallsFollow(Search!OneCall(sofar, looked[n + 1], tools), looked, n + 1, tools, S)
<1> DEFINE call == looked[n + 1]
           next == Search!OneCall(sofar, call, tools)
           results == sofar.results
           rejected == sofar.rejected
<1>1. /\ call \in S /\ results \in Seq(S) /\ rejected \in Seq(S)
      /\ sofar = [results |-> results, rejected |-> rejected]
  BY DEF CallsFollow
<1>2. /\ Len(results) <= MaxCalls
      /\ \A i, j \in DOMAIN results : i # j => results[i] # results[j]
      /\ \A i \in DOMAIN results : results[i].tool \in tools /\ results[i].arguments # "invalid"
      /\ \A m \in 1 .. n : \/ \E i \in DOMAIN results : results[i] = looked[m]
                           \/ \E i \in DOMAIN rejected : rejected[i] = looked[m]
  BY Zenon DEF CallsFollow
<1>3. ASSUME next = [sofar EXCEPT !.rejected = Append(@, call)] PROVE CallsFollow(next, looked, n + 1, tools, S)
  <2>1. next = [results |-> results, rejected |-> Append(rejected, call)]
    BY <1>1, <1>3
  <2>2. /\ Append(rejected, call) \in Seq(S)
        /\ \A i \in DOMAIN rejected : \E j \in DOMAIN Append(rejected, call) : Append(rejected, call)[j] = rejected[i]
        /\ \E j \in DOMAIN Append(rejected, call) : Append(rejected, call)[j] = call
    <3>1. /\ Len(rejected) + 1 \in DOMAIN Append(rejected, call)
          /\ Append(rejected, call)[Len(rejected) + 1] = call
          /\ \A i \in DOMAIN rejected : i \in DOMAIN Append(rejected, call) /\ Append(rejected, call)[i] = rejected[i]
      BY <1>1
    <3> QED BY <1>1, <3>1
  <2> DEFINE more == Append(rejected, call)
  <2> HIDE DEF next, more
  <2>3. next.results = results /\ next.rejected = more /\ next \in [results : Seq(S), rejected : Seq(S)]
    BY <1>1, <2>1, <2>2 DEF more
  <2>4. \A m \in 1 .. n + 1 : \/ \E i \in DOMAIN results : results[i] = looked[m]
                              \/ \E i \in DOMAIN more : more[i] = looked[m]
    <3> SUFFICES ASSUME NEW m \in 1 .. n + 1
                 PROVE  \/ \E i \in DOMAIN results : results[i] = looked[m]
                        \/ \E i \in DOMAIN more : more[i] = looked[m]
      OBVIOUS
    <3>1. m \in 1 .. n \/ looked[m] = call
      OBVIOUS
    <3> QED BY <1>2, <2>2, <3>1, Zenon DEF more
  <2>5. /\ next \in [results : Seq(S), rejected : Seq(S)] /\ Len(next.results) <= MaxCalls
        /\ \A i, j \in DOMAIN next.results : i # j => next.results[i] # next.results[j]
        /\ \A i \in DOMAIN next.results : next.results[i].tool \in tools /\ next.results[i].arguments # "invalid"
    BY <1>2, <2>3, Zenon
  <2>6. \A m \in 1 .. n + 1 : \/ \E i \in DOMAIN next.results : next.results[i] = looked[m]
                              \/ \E i \in DOMAIN next.rejected : next.rejected[i] = looked[m]
    BY <2>3, <2>4, Zenon
  <2> QED BY <2>5, <2>6, Zenon DEF CallsFollow
<1>4. CASE call.tool \notin tools \/ call.arguments = "invalid"
  BY <1>3, <1>4, Zenon DEF Search!OneCall
<1>5. CASE call.tool \in tools /\ call.arguments # "invalid" /\ \E i \in DOMAIN results : results[i] = call
  <2>1. next = sofar
    BY <1>5, Zenon DEF Search!OneCall
  <2>2. \A m \in 1 .. n + 1 : \/ \E i \in DOMAIN results : results[i] = looked[m]
                              \/ \E i \in DOMAIN rejected : rejected[i] = looked[m]
    <3> SUFFICES ASSUME NEW m \in 1 .. n + 1
                 PROVE  \/ \E i \in DOMAIN results : results[i] = looked[m]
                        \/ \E i \in DOMAIN rejected : rejected[i] = looked[m]
      OBVIOUS
    <3>1. m \in 1 .. n \/ looked[m] = call
      OBVIOUS
    <3> QED BY <1>2, <1>5, <3>1, Zenon
  <2>3. sofar \in [results : Seq(S), rejected : Seq(S)]
    BY Zenon DEF CallsFollow
  <2> HIDE DEF next
  <2>4. CallsFollow(sofar, looked, n + 1, tools, S)
    BY <1>2, <2>2, <2>3, Zenon DEF CallsFollow
  <2> QED BY <2>1, <2>4, Zenon DEF next
<1>6. CASE call.tool \in tools /\ call.arguments # "invalid" /\ ~ (\E i \in DOMAIN results : results[i] = call)
           /\ Len(results) >= MaxCalls
  BY <1>3, <1>6, Zenon DEF Search!OneCall
<1>7. CASE call.tool \in tools /\ call.arguments # "invalid" /\ ~ (\E i \in DOMAIN results : results[i] = call)
           /\ ~ (Len(results) >= MaxCalls)
  <2> DEFINE more == Append(results, call)
  <2>1. next = [sofar EXCEPT !.results = Append(@, call)]
    BY <1>7, Zenon DEF Search!OneCall
  <2> HIDE DEF next
  <2>2. next = [results |-> more, rejected |-> rejected]
    BY <1>1, <2>1
  <2>3. /\ more \in Seq(S) /\ Len(more) = Len(results) + 1 /\ DOMAIN more = DOMAIN results \cup {Len(more)}
        /\ more[Len(more)] = call /\ Len(more) \notin DOMAIN results
        /\ \A i \in DOMAIN results : more[i] = results[i]
    BY <1>1
  <2> HIDE DEF more
  <2>4. next.results = more /\ next.rejected = rejected /\ next \in [results : Seq(S), rejected : Seq(S)]
    BY <1>1, <2>2, <2>3
  <2>5. Len(more) <= MaxCalls
    BY <1>1, <1>7, <2>3
  <2>6. \A i, j \in DOMAIN more : i # j => more[i] # more[j]
    BY <1>2, <1>7, <2>3
  <2>7. \A i \in DOMAIN more : more[i].tool \in tools /\ more[i].arguments # "invalid"
    BY <1>2, <1>7, <2>3
  <2>8. \A m \in 1 .. n + 1 : \/ \E i \in DOMAIN more : more[i] = looked[m]
                              \/ \E i \in DOMAIN rejected : rejected[i] = looked[m]
    <3> SUFFICES ASSUME NEW m \in 1 .. n + 1
                 PROVE  \/ \E i \in DOMAIN more : more[i] = looked[m]
                        \/ \E i \in DOMAIN rejected : rejected[i] = looked[m]
      OBVIOUS
    <3>1. m \in 1 .. n \/ looked[m] = call
      OBVIOUS
    <3>2. Len(more) \in DOMAIN more
      BY <2>3
    <3>3. CASE looked[m] = call
      BY <2>3, <3>2, <3>3, Zenon
    <3>4. CASE m \in 1 .. n
      <4>1. (\E i \in DOMAIN results : results[i] = looked[m]) \/ \E i \in DOMAIN rejected : rejected[i] = looked[m]
        BY <1>2, <3>4, Zenon
      <4>2. \A i \in DOMAIN results : i \in DOMAIN more /\ more[i] = results[i]
        BY <2>3, Zenon
      <4> QED BY <4>1, <4>2, Zenon
    <3> QED BY <3>1, <3>3, <3>4, Zenon
  <2> QED BY <2>4, <2>5, <2>6, <2>7, <2>8, Zenon DEF CallsFollow, next
<1> QED BY <1>4, <1>5, <1>6, <1>7, Zenon

\* What each of the first k calls leaves.
CallsLeave(looked, tools, k, after) ==
  after = [n \in 0 .. k |-> IF n = 0 THEN [results |-> <<>>, rejected |-> <<>>]
                            ELSE Search!OneCall(after[n - 1], looked[n], tools)]

\* What the calls leave is what their definition says, for any number of them.
LEMMA CallsAreDefined ==
  ASSUME NEW looked, NEW tools, NEW k \in Nat
  PROVE  \E after : CallsLeave(looked, tools, k, after)
<1> DEFINE Step(s, n) == Search!OneCall(s, looked[n], tools)
           begun == [results |-> <<>>, rejected |-> <<>>]
           Chain(m, f) == f = [n \in 0 .. m |-> IF n = 0 THEN begun ELSE Step(f[n - 1], n)]
           lengths == {m \in Nat : \E f : Chain(m, f)}
<1> HIDE DEF Step, begun
<1>1. 0 \in lengths
  <2> DEFINE f == [n \in 0 .. 0 |-> begun]
  <2>1. f = [n \in 0 .. 0 |-> IF n = 0 THEN begun ELSE Step(f[n - 1], n)]
    OBVIOUS
  <2> HIDE DEF f
  <2>2. Chain(0, f)
    BY <2>1
  <2> HIDE DEF Chain
  <2> QED BY <2>2
<1>2. ASSUME NEW m \in lengths \cap Nat PROVE m + 1 \in lengths
  <2>1. PICK f : f = [n \in 0 .. m |-> IF n = 0 THEN begun ELSE Step(f[n - 1], n)]
    BY <1>2
  <2> DEFINE g == [n \in 0 .. m + 1 |-> IF n = m + 1 THEN Step(f[m], m + 1) ELSE f[n]]
  <2>2. ASSUME NEW n \in 0 .. m + 1 PROVE g[n] = IF n = 0 THEN begun ELSE Step(g[n - 1], n)
    <3>1. CASE n = 0
      <4>1. g[n] = f[n] /\ f[n] = begun
        BY <2>1, <3>1
      <4> QED BY <3>1, <4>1
    <3>2. CASE n = m + 1
      <4>1. g[n] = Step(f[m], m + 1) /\ m \in 0 .. m + 1 /\ m # m + 1
        BY <3>2
      <4>2. g[m] = f[m]
        BY <4>1
      <4> QED BY <3>2, <4>1, <4>2
    <3>3. CASE n \in 1 .. m
      <4>1. g[n] = f[n] /\ g[n - 1] = f[n - 1]
        BY <3>3
      <4>2. f[n] = Step(f[n - 1], n)
        BY <2>1, <3>3
      <4> QED BY <3>3, <4>1, <4>2
    <3> QED BY <3>1, <3>2, <3>3
  <2>3. g = [n \in 0 .. m + 1 |-> g[n]]
    OBVIOUS
  <2> HIDE DEF g
  <2>4. Chain(m + 1, g)
    BY <2>2, <2>3
  <2> HIDE DEF Chain
  <2> QED BY <2>4
<1> HIDE DEF lengths
<1>3. k \in lengths
  BY <1>1, <1>2, Induces
<1> QED BY <1>3, Zenon DEF lengths, Step, begun, CallsLeave

\* Whatever tools a model calls, of what is registered: every call that is looked at ran once or was
\* refused, and no more ran than the limit (CaseSearch!CallsAreBounded).
THEOREM CallsAreAlwaysBounded ==
  ASSUME NEW S, NEW calls \in Seq(S), NEW tools
  PROVE  Search!CallsAreBounded(calls, tools)
<1> DEFINE most == Search!Fewer(2 * MaxCalls, Len(calls))
           looked == Search!Cut(calls, 2 * MaxCalls)
           k == Len(looked)
           after == CHOOSE f : f = [n \in 0 .. k |-> IF n = 0 THEN [results |-> <<>>, rejected |-> <<>>]
                                                     ELSE Search!OneCall(f[n - 1], looked[n], tools)]
           done == Search!Executed(calls, tools)
           results == done.results
           ran == {results[i] : i \in DOMAIN results}
<1>0. MaxCalls \in Nat
  BY SearchAssumption DEF Search!SearchAssumption
<1>1. /\ looked \in Seq(S) /\ k \in Nat /\ k = Search!Fewer(Len(calls), 2 * MaxCalls)
      /\ \A m \in 1 .. k : looked[m] = calls[m]
  BY <1>0 DEF Search!Cut, Search!Fewer
<1> HIDE DEF looked
<1>2. after = [n \in 0 .. k |-> IF n = 0 THEN [results |-> <<>>, rejected |-> <<>>]
                                ELSE Search!OneCall(after[n - 1], looked[n], tools)]
  <2>1. k \in Nat
    BY <1>1
  <2> HIDE DEF k
  <2>2. \E f : CallsLeave(looked, tools, k, f)
    BY <2>1, CallsAreDefined, Zenon
  <2> QED BY <2>2, Zenon DEF CallsLeave
<1>3. done = after[k]
  BY Zenon DEF Search!Executed, looked
<1> HIDE DEF after
<1> DEFINE kept == {n \in Nat : n <= k => CallsFollow(after[n], looked, n, tools, S)}
<1>4. 0 \in kept
  <2> DEFINE begun == [results |-> <<>>, rejected |-> <<>>]
  <2>1. after[0] = begun
    BY <1>1, <1>2
  <2>2. begun \in [results : Seq(S), rejected : Seq(S)] /\ begun.results = <<>>
    OBVIOUS
  <2>3. Len(<<>>) <= MaxCalls /\ 1 .. 0 = {} /\ DOMAIN <<>> = {}
    BY <1>0
  <2> HIDE DEF begun
  <2>4. CallsFollow(begun, looked, 0, tools, S)
    BY <2>2, <2>3 DEF CallsFollow
  <2> QED BY <2>1, <2>4
<1>5. ASSUME NEW n \in kept \cap Nat PROVE n + 1 \in kept
  <2> SUFFICES ASSUME n + 1 <= k PROVE CallsFollow(after[n + 1], looked, n + 1, tools, S)
    OBVIOUS
  <2>1. CallsFollow(after[n], looked, n, tools, S)
    BY <1>1
  <2>2. n + 1 \in 0 .. k /\ n + 1 # 0 /\ (n + 1) - 1 = n
    BY <1>1
  <2>3. after[n + 1] = Search!OneCall(after[n], looked[n + 1], tools)
    BY <1>2, <2>2
  <2> QED BY <1>0, <1>1, <2>1, <2>3, NextCall
<1> HIDE DEF kept
<1>6. k \in kept
  BY <1>1, <1>4, <1>5, Induces
<1>7. CallsFollow(done, looked, k, tools, S)
  BY <1>1, <1>3, <1>6 DEF kept
<1> HIDE DEF done
<1>8. /\ results \in Seq(S) /\ Len(results) <= MaxCalls
      /\ \A i, j \in DOMAIN results : i # j => results[i] # results[j]
      /\ \A i \in DOMAIN results : results[i].tool \in tools /\ results[i].arguments # "invalid"
      /\ \A m \in 1 .. k : \/ \E i \in DOMAIN results : results[i] = looked[m]
                           \/ \E i \in DOMAIN done.rejected : done.rejected[i] = looked[m]
  <2>1. results \in Seq(S)
    BY <1>7 DEF CallsFollow
  <2> QED BY <1>7, <2>1, Zenon DEF CallsFollow
<1> HIDE DEF results
<1>9. Search!Cardinality(ran) = Len(results)
  <2>1. Len(results) \in Nat /\ DOMAIN results = 1 .. Len(results) /\ results \in [1 .. Len(results) -> ran]
    BY <1>8
  <2>2. results \in Surjection(1 .. Len(results), ran)
    <3>1. \A x \in ran : \E i \in 1 .. Len(results) : results[i] = x
      BY <2>1, Zenon
    <3> QED BY <2>1, <3>1, Zenon DEF Surjection
  <2>a. results \in Injection(1 .. Len(results), ran)
    <3>1. \A i, j \in 1 .. Len(results) : results[i] = results[j] => i = j
      BY <1>8, <2>1, Zenon
    <3> QED BY <2>1, <3>1, Zenon DEF Injection, IsInjective
  <2>3. IsFiniteSet(1 .. Len(results)) /\ Cardinality(1 .. Len(results)) = Len(results)
    <3> DEFINE n == Len(results)
    <3>1. n \in Nat
      BY <2>1
    <3> HIDE DEF n
    <3>2. IsFiniteSet(1 .. n) /\ Cardinality(1 .. n) = n
      BY <3>1, FS_Interval
    <3> QED BY <3>2 DEF n
  <2> HIDE DEF ran
  <2>4. Cardinality(ran) = Cardinality(1 .. Len(results))
    BY <2>2, <2>a, <2>3, FS_Surjection
  <2> QED BY <2>3, <2>4, SearchCounts, Zenon
<1>10. \A i \in 1 .. k : calls[i] \in ran \cup {done.rejected[j] : j \in DOMAIN done.rejected}
  <2>1. \A i \in 1 .. k : looked[i] \in ran \cup {done.rejected[j] : j \in DOMAIN done.rejected}
    BY <1>8, Zenon
  <2> QED BY <1>1, <2>1
<1>11. \A call \in ran : call.tool \in tools /\ call.arguments # "invalid"
  BY <1>8, Zenon
<1> QED BY <1>1, <1>8, <1>9, <1>10, <1>11, Zenon DEF Search!CallsAreBounded, done, results

-----------------------------------------------------------------------------
(* Counts and notes.                                                       *)

\* The days of two ranges that follow one another are those of both, and none is in both.
LEMMA CountsStayExact ==
  ASSUME NEW records, IsFiniteSet(DOMAIN records), \A r \in DOMAIN records : records[r].day \in Nat,
         NEW from \in Nat \ {0}, NEW between \in Nat, NEW to \in Nat
  PROVE  Search!CountsAreExact(records, from, between, to)
<1> DEFINE Counted(a, b) == {r \in DOMAIN records : Search!Counts([kind |-> "any", from |-> a, to |-> b], records[r])}
<1>1. ASSUME NEW a \in Nat \ {0}, NEW b \in Nat \ {0}
      PROVE  /\ Counted(a, b) = {r \in DOMAIN records : a <= records[r].day /\ records[r].day <= b}
             /\ IsFiniteSet(Counted(a, b))
             /\ Search!CountOf([kind |-> "any", from |-> a, to |-> b], records) = Cardinality(Counted(a, b))
  <2>1. ASSUME NEW r \in DOMAIN records
        PROVE  Search!Counts([kind |-> "any", from |-> a, to |-> b], records[r]) <=> a <= records[r].day /\ records[r].day <= b
    BY <1>1 DEF Search!Counts
  <2>2. Counted(a, b) = {r \in DOMAIN records : a <= records[r].day /\ records[r].day <= b}
    BY <2>1, Zenon
  <2>3. Counted(a, b) \in SUBSET DOMAIN records
    BY Zenon
  <2>4. Search!CountOf([kind |-> "any", from |-> a, to |-> b], records) = Cardinality(Counted(a, b))
    BY SearchCounts, Zenon DEF Search!CountOf
  <2> HIDE DEF Counted
  <2>5. IsFiniteSet(Counted(a, b))
    BY <2>3, FS_Subset
  <2> QED BY <2>2, <2>4, <2>5
<1> HIDE DEF Counted
<1> SUFFICES ASSUME from <= between, between < to
             PROVE  LET Count(a, b) == Search!CountOf([kind |-> "any", from |-> a, to |-> b], records)
                    IN Count(from, between) + Count(between + 1, to) = Count(from, to)
  BY Zenon DEF Search!CountsAreExact
<1> DEFINE first == Counted(from, between)
           second == Counted(between + 1, to)
           both == Counted(from, to)
<1>2. between \in Nat \ {0} /\ between + 1 \in Nat \ {0} /\ to \in Nat \ {0}
  OBVIOUS
<1>3. first \cup second = both /\ first \cap second = {}
  <2>1. /\ first = {r \in DOMAIN records : from <= records[r].day /\ records[r].day <= between}
        /\ second = {r \in DOMAIN records : between + 1 <= records[r].day /\ records[r].day <= to}
        /\ both = {r \in DOMAIN records : from <= records[r].day /\ records[r].day <= to}
    BY <1>1, <1>2
  <2>2. ASSUME NEW r \in DOMAIN records
        PROVE  /\ r \in both <=> r \in first \/ r \in second
               /\ ~ (r \in first /\ r \in second)
    <3> HIDE DEF first, second, both
    <3>1. records[r].day \in Nat
      OBVIOUS
    <3> QED BY <2>1, <3>1
  <2> HIDE DEF first, second, both
  <2>3. first \subseteq DOMAIN records /\ second \subseteq DOMAIN records /\ both \subseteq DOMAIN records
    BY <2>1
  <2> QED BY <2>2, <2>3
<1>4. IsFiniteSet(first) /\ IsFiniteSet(second) /\ IsFiniteSet(both)
  BY <1>1, <1>2
<1>5. Cardinality(first) \in Nat /\ Cardinality(second) \in Nat
  BY <1>4, FS_CardinalityType
<1>6. Cardinality(first \cup second) = Cardinality(first) + Cardinality(second) - Cardinality(first \cap second)
  BY <1>4, FS_Union
<1>7. Cardinality(both) = Cardinality(first) + Cardinality(second)
  <2>1. Cardinality(first \cap second) = 0
    BY <1>3, FS_EmptySet
  <2> QED BY <1>3, <1>5, <1>6, <2>1
<1>8. /\ Search!CountOf([kind |-> "any", from |-> from, to |-> between], records) = Cardinality(first)
      /\ Search!CountOf([kind |-> "any", from |-> between + 1, to |-> to], records) = Cardinality(second)
      /\ Search!CountOf([kind |-> "any", from |-> from, to |-> to], records) = Cardinality(both)
  BY <1>1, <1>2
<1> QED BY <1>7, <1>8

\* Without a note there is nothing that was not searched.
LEMMA SilenceStaysEarned ==
  ASSUME NEW states, NEW outcomes, NEW semantic,
         \A s \in DOMAIN states : states[s] \in {"indexed", "pending", "indexing", "failed", "canceled", "stale"}
  PROVE  Search!SilenceIsEarned(states, outcomes, semantic)
<1> SUFFICES ASSUME Search!Notes(states, outcomes, semantic) = {}
             PROVE  /\ semantic /\ Search!CoverageCount(outcomes) = 0
                    /\ \A s \in DOMAIN states : states[s] = "indexed"
                    /\ \A r \in DOMAIN outcomes : outcomes[r] \in {"findings", "no_findings"}
  BY Zenon DEF Search!SilenceIsEarned
<1>1. /\ ~ (\E s \in DOMAIN states : states[s] \in {"pending", "indexing", "failed", "canceled"})
      /\ ~ (\E s \in DOMAIN states : states[s] = "stale")
      /\ semantic /\ Search!Incomplete(outcomes) = {}
  BY DEF Search!Notes
<1>2. Search!CoverageCount(outcomes) = 0
  <2>1. Search!Cardinality(Search!Incomplete(outcomes)) = 0
    BY <1>1, FS_EmptySet, SearchCounts, Zenon
  <2> QED BY <2>1, SearchAssumption DEF Search!CoverageCount, Search!Fewer, Search!SearchAssumption
<1>3. \A s \in DOMAIN states : states[s] = "indexed"
  BY <1>1
<1>4. \A r \in DOMAIN outcomes : outcomes[r] \in {"findings", "no_findings"}
  BY <1>1, Zenon DEF Search!Incomplete
<1> QED BY <1>1, <1>2, <1>3, <1>4

-----------------------------------------------------------------------------
(* The questions.                                                          *)

\* Short sequences are sequences.
LEMMA ShortSequences ==
  ASSUME NEW S, NEW n \in Nat
  PROVE  \A s \in UpTo(S, n) : s \in Seq(S) /\ IsFiniteSet(DOMAIN s) /\ \A k \in DOMAIN s : s[k] \in S
<1> SUFFICES ASSUME NEW s \in UpTo(S, n)
             PROVE  s \in Seq(S) /\ IsFiniteSet(DOMAIN s) /\ \A k \in DOMAIN s : s[k] \in S
  OBVIOUS
<1>1. PICK k \in 0 .. n : s \in [1 .. k -> S]
  BY Zenon DEF UpTo
<1>2. s \in Seq(S)
  BY <1>1
<1>3. DOMAIN s = 1 .. k /\ IsFiniteSet(1 .. k)
  BY <1>1, FS_Interval
<1>4. \A i \in DOMAIN s : s[i] \in S
  BY <1>1
<1> QED BY <1>2, <1>3, <1>4

\* What is counted and noted.
LEMMA ToolsAreGrounded ==
  ASSUME AskTools PROVE AnswersAreGrounded'
<1>1. CASE \E calls \in UpTo(Calls, 4) : asked' = [about |-> "calls", calls |-> calls]
  <2>1. PICK calls \in UpTo(Calls, 4) : asked' = [about |-> "calls", calls |-> calls]
    BY <1>1
  <2>2. asked'.about = "calls" /\ asked'.calls = calls
    BY <2>1
  <2>3. calls \in Seq(Calls)
    BY ShortSequences
  <2>4. Search!CallsAreBounded(calls, {"count", "list"})
    BY <2>3, CallsAreAlwaysBounded
  <2> QED BY <2>2, <2>4 DEF AnswersAreGrounded
<1>2. CASE \E records \in UpTo(Dated, 3), from, between, to \in 1 .. 3 :
             asked' = [about |-> "counts", records |-> records, from |-> from, between |-> between, to |-> to]
  <2>1. PICK records \in UpTo(Dated, 3) : \E from, between, to \in 1 .. 3 :
          asked' = [about |-> "counts", records |-> records, from |-> from, between |-> between, to |-> to]
    BY <1>2, Zenon
  <2>2. PICK from, between, to \in 1 .. 3 :
          asked' = [about |-> "counts", records |-> records, from |-> from, between |-> between, to |-> to]
    BY <2>1, Zenon
  <2>3. /\ asked'.about = "counts" /\ asked'.records = records /\ asked'.from = from /\ asked'.between = between
        /\ asked'.to = to
    BY <2>2
  <2>4. IsFiniteSet(DOMAIN records) /\ \A r \in DOMAIN records : records[r] \in Dated
    BY ShortSequences
  <2>5. \A r \in DOMAIN records : records[r].day \in Nat
    BY <2>4 DEF Dated
  <2>6. from \in Nat \ {0} /\ between \in Nat /\ to \in Nat
    OBVIOUS
  <2>7. Search!CountsAreExact(records, from, between, to)
    BY <2>4, <2>5, <2>6, CountsStayExact
  <2> QED BY <2>3, <2>7 DEF AnswersAreGrounded
<1>3. CASE \E states \in UpTo({"indexed", "pending", "failed", "stale"}, 2),
             outcomes \in UpTo({"findings", "no_findings", "partial", "unavailable"}, 3), semantic \in BOOLEAN :
             asked' = [about |-> "notes", states |-> states, outcomes |-> outcomes, semantic |-> semantic]
  <2>1. PICK states \in UpTo({"indexed", "pending", "failed", "stale"}, 2) : \E outcomes, semantic :
          asked' = [about |-> "notes", states |-> states, outcomes |-> outcomes, semantic |-> semantic]
    BY <1>3, Zenon
  <2>2. PICK outcomes, semantic :
          asked' = [about |-> "notes", states |-> states, outcomes |-> outcomes, semantic |-> semantic]
    BY <2>1, Zenon
  <2>3. asked'.about = "notes" /\ asked'.states = states /\ asked'.outcomes = outcomes /\ asked'.semantic = semantic
    BY <2>2
  <2>4. \A s \in DOMAIN states : states[s] \in {"indexed", "pending", "failed", "stale"}
    BY ShortSequences
  <2>5. Search!SilenceIsEarned(states, outcomes, semantic)
    BY <2>4, SilenceStaysEarned
  <2> QED BY <2>3, <2>5 DEF AnswersAreGrounded
<1> QED BY <1>1, <1>2, <1>3, Zenon DEF AskTools

\* Whatever a model states in answer to whatever question: what is shown is in what it cites and about its
\* subject, each statement that passed is shown once, and the status is not better than the statements.
THEOREM EveryAnswerIsGrounded ==
  ASSUME NEW question, NEW S, NEW raw \in Seq(S), \A k \in DOMAIN raw : IsFiniteSet(raw[k].cites)
  PROVE  AnswerIsGrounded(question, raw, Validation!Answer(question, raw))
BY ShownStaysGrounded, StatusStaysEarned, Zenon DEF AnswerIsGrounded

\* A claim cites finitely often.
LEMMA ClaimsCite == \A claim \in Claims : IsFiniteSet(claim.cites)
<1>1. \A cites \in CiteSets : IsFiniteSet(cites)
  <2> DEFINE first == First
             tool == Tool
             later == [Cite("E2", TRUE, {2}, FALSE) EXCEPT !.years = {2024}]
             denied == [Cite("E3", TRUE, {1, 2}, TRUE) EXCEPT !.events = {"created"}, !.ids = {10}]
             expiry == [Cite("E1", TRUE, {2}, FALSE) EXCEPT !.events = {"expires"}, !.ids = {11}]
             unfound == Cite("E1", FALSE, {1}, FALSE)
             unknown == Cite("X9", FALSE, {1}, FALSE)
  <2>1. CiteSets = {{}, {first}, {later}, {expiry}, {denied}, {first, later}, {unfound}, {first, unknown}, {tool}, {tool, first}}
    BY Zenon DEF CiteSets
  <2> HIDE DEF first, tool, later, denied, expiry, unfound, unknown
  <2>2. ASSUME NEW x, NEW y PROVE IsFiniteSet({x, y})
    <3>1. {x, y} = {x} \cup {y} /\ IsFiniteSet({x})
      BY FS_Singleton
    <3>2. IsFiniteSet({x} \cup {y})
      BY <3>1, FS_AddElement
    <3> QED BY <3>1, <3>2
  <2>3. IsFiniteSet({}) /\ \A x : IsFiniteSet({x})
    BY FS_EmptySet, FS_Singleton, Zenon
  <2>4. ASSUME NEW cites \in CiteSets PROVE IsFiniteSet(cites)
    <3>1. \/ cites = {} \/ cites = {first} \/ cites = {later} \/ cites = {expiry} \/ cites = {denied} \/ cites = {first, later}
          \/ cites = {unfound} \/ cites = {first, unknown} \/ cites = {tool} \/ cites = {tool, first}
      BY <2>1
    <3> QED BY <3>1, <2>2, <2>3, Zenon
  <2> QED BY <2>4
<1>2. \A f, v : "cites" \in DOMAIN f => [f EXCEPT !.cites = v].cites = v
  OBVIOUS
<1>3. "cites" \in DOMAIN Fact
  BY DEF Fact
<1>4. /\ \A f, v : DOMAIN [f EXCEPT !.secret = v] = DOMAIN f /\ DOMAIN [f EXCEPT !.value = v] = DOMAIN f
      /\ \A f, v : DOMAIN [f EXCEPT !.subjects = v] = DOMAIN f /\ DOMAIN [f EXCEPT !.years = v] = DOMAIN f
      /\ \A f, v : DOMAIN [f EXCEPT !.period = v] = DOMAIN f /\ DOMAIN [f EXCEPT !.denies = v] = DOMAIN f
      /\ \A f, v : DOMAIN [f EXCEPT !.events = v] = DOMAIN f /\ DOMAIN [f EXCEPT !.kind = v] = DOMAIN f
      /\ \A f, v : DOMAIN [f EXCEPT !.numbers = v] = DOMAIN f /\ DOMAIN [f EXCEPT !.answers = v] = DOMAIN f
  OBVIOUS
<1>5. ASSUME NEW f \in Uncited PROVE DOMAIN f = DOMAIN Fact
  <2>1. \/ f = Fact
      \/ f = [Fact EXCEPT !.secret = TRUE]
      \/ f = [Fact EXCEPT !.value = {2}]
      \/ f = [Fact EXCEPT !.value = {1, 2}]
      \/ f = [Fact EXCEPT !.value = {}]
      \/ f = [Fact EXCEPT !.subjects = {"q"}]
      \/ f = [Fact EXCEPT !.subjects = {"o"}, !.value = {2}]
      \/ f = [Fact EXCEPT !.value = {2}, !.years = {2021}, !.period = {2021}]
      \/ f = [Fact EXCEPT !.denies = TRUE]
      \/ f = [Fact EXCEPT !.events = {"created"}, !.value = {2}]
      \/ f = [Fact EXCEPT !.kind = "count", !.numbers = {7}]
      \/ f = [Fact EXCEPT !.kind = "count", !.numbers = {8}]
      \/ f = [Fact EXCEPT !.kind = "conflict"]
      \/ f = [Fact EXCEPT !.kind = "conflict", !.value = {2}]
      \/ f = [Fact EXCEPT !.kind = "insufficient"]
      \/ f = [Fact EXCEPT !.answers = FALSE]
    BY SMT DEF Uncited
  <2>2. CASE f = [Fact EXCEPT !.secret = TRUE]
    BY <2>2, SMT
  <2>3. CASE f = [Fact EXCEPT !.value = {2}]
    BY <2>3, SMT
  <2>4. CASE f = [Fact EXCEPT !.value = {1, 2}]
    BY <2>4, SMT
  <2>5. CASE f = [Fact EXCEPT !.value = {}]
    BY <2>5, SMT
  <2>6. CASE f = [Fact EXCEPT !.subjects = {"q"}]
    BY <2>6, SMT
  <2>7. CASE f = [Fact EXCEPT !.subjects = {"o"}, !.value = {2}]
    BY <2>7, SMT
  <2>8. CASE f = [Fact EXCEPT !.value = {2}, !.years = {2021}, !.period = {2021}]
    BY <2>8, SMT
  <2>9. CASE f = [Fact EXCEPT !.denies = TRUE]
    BY <2>9, SMT
  <2>10. CASE f = [Fact EXCEPT !.events = {"created"}, !.value = {2}]
    BY <2>10, SMT
  <2>11. CASE f = [Fact EXCEPT !.kind = "count", !.numbers = {7}]
    BY <2>11, SMT
  <2>12. CASE f = [Fact EXCEPT !.kind = "count", !.numbers = {8}]
    BY <2>12, SMT
  <2>13. CASE f = [Fact EXCEPT !.kind = "conflict"]
    BY <2>13, SMT
  <2>14. CASE f = [Fact EXCEPT !.kind = "conflict", !.value = {2}]
    BY <2>14, SMT
  <2>15. CASE f = [Fact EXCEPT !.kind = "insufficient"]
    BY <2>15, SMT
  <2>16. CASE f = [Fact EXCEPT !.answers = FALSE]
    BY <2>16, SMT
  <2> QED BY <2>1, <2>2, <2>3, <2>4, <2>5, <2>6, <2>7, <2>8, <2>9, <2>10, <2>11, <2>12, <2>13, <2>14, <2>15, <2>16
<1>6. ASSUME NEW claim \in Claims PROVE claim.cites \in CiteSets
  <2>1. PICK cites \in CiteSets : \E f \in Uncited : claim = [f EXCEPT !.cites = cites]
    BY Zenon DEF Claims
  <2>2. PICK f \in Uncited : claim = [f EXCEPT !.cites = cites]
    BY <2>1, Zenon
  <2>3. claim.cites = cites
    BY <1>2, <1>3, <1>5, <2>2, Zenon
  <2> QED BY <2>3
<1> QED BY <1>1, <1>6

\* A question of some subjects and years is a question.
LEMMA Asking ==
  ASSUME NEW S, NEW Y, NEW R, NEW T, \A r \in R : r \in T,
         \E s \in S, y \in Y, r \in R : asked' = [about |-> "answer", question |-> [subjects |-> s, years |-> y], raw |-> r]
  PROVE  \E q : \E r \in T : asked' = [about |-> "answer", question |-> q, raw |-> r]
<1> DEFINE Asks(q, r) == asked' = [about |-> "answer", question |-> q, raw |-> r]
           Q(s, y) == [subjects |-> s, years |-> y]
<1>1. \E s \in S, y \in Y, r \in R : Asks(Q(s, y), r)
  OBVIOUS
<1> HIDE DEF Asks, Q
<1>2. \E q : \E r \in T : Asks(q, r)
  BY <1>1, Zenon
<1> QED BY <1>2 DEF Asks

\* Every answer is grounded.
LEMMA AnswersAreSaid ==
  ASSUME AskAnswer PROVE AnswersAreGrounded'
<1>1. \E question : \E raw \in Seq(Claims) : asked' = [about |-> "answer", question |-> question, raw |-> raw]
  <2>1. CASE \E subjects \in {{}, {"q"}}, years \in {{}, {2024}}, raw \in UpTo(Claims, 2) :
               asked' = [about |-> "answer", question |-> [subjects |-> subjects, years |-> years], raw |-> raw]
    <3>1. \A raw \in UpTo(Claims, 2) : raw \in Seq(Claims)
      BY ShortSequences
    <3> DEFINE S == {{}, {"q"}}
               Y == {{}, {2024}}
               T == Seq(Claims)
    <3>2. \E s \in S, y \in Y, r \in UpTo(Claims, 2) :
            asked' = [about |-> "answer", question |-> [subjects |-> s, years |-> y], raw |-> r]
      BY <2>1, Zenon
    <3>3. \A r \in UpTo(Claims, 2) : r \in T
      BY <3>1
    <3> HIDE DEF S, Y, T
    <3>4. \E q : \E r \in T : asked' = [about |-> "answer", question |-> q, raw |-> r]
      BY <3>2, <3>3, Asking, Zenon
    <3> QED BY <3>4, Zenon DEF T
  <2>2. CASE \E a, b, c \in Accepted :
               asked' = [about |-> "answer", question |-> [subjects |-> {"q"}, years |-> {}], raw |-> <<a, b, c>>]
    <3>1. \A a, b, c \in Accepted : <<a, b, c>> \in Seq(Claims)
      <4>1. Accepted \subseteq Claims
        BY Zenon DEF Accepted
      <4>2. \A a, b, c \in Claims : <<a, b, c>> \in Seq(Claims)
        OBVIOUS
      <4> QED BY <4>1, <4>2
    <3>2. PICK a, b, c \in Accepted :
            asked' = [about |-> "answer", question |-> [subjects |-> {"q"}, years |-> {}], raw |-> <<a, b, c>>]
      BY <2>2, Zenon
    <3>3. <<a, b, c>> \in Seq(Claims)
      BY <3>1, <3>2, Zenon
    <3> QED BY <3>2, <3>3, Zenon
  <2> QED BY <2>1, <2>2 DEF AskAnswer
<1>2. PICK question : \E raw \in Seq(Claims) : asked' = [about |-> "answer", question |-> question, raw |-> raw]
  BY <1>1, Zenon
<1>3. PICK raw \in Seq(Claims) : asked' = [about |-> "answer", question |-> question, raw |-> raw]
  BY <1>2, Zenon
<1>4. asked'.about = "answer" /\ asked'.question = question /\ asked'.raw = raw
  BY <1>3
<1>5. \A k \in DOMAIN raw : IsFiniteSet(raw[k].cites)
  <2>1. \A k \in DOMAIN raw : raw[k] \in Claims
    OBVIOUS
  <2> QED BY <2>1, ClaimsCite
<1>6. AnswerIsGrounded(question, raw, Validation!Answer(question, raw))
  BY <1>5, EveryAnswerIsGrounded, Zenon
<1> QED BY <1>4, <1>6 DEF AnswersAreGrounded

\* Before a question there is no answer, and without another what was said stays said.
LEMMA UnaskedIsGrounded ==
  /\ asked = NoQuestion => AnswersAreGrounded
  /\ AnswersAreGrounded /\ UNCHANGED asked => AnswersAreGrounded'
<1>1. asked = NoQuestion => asked.about = "none"
  BY DEF NoQuestion, None
<1> QED BY <1>1 DEF AnswersAreGrounded

\* What an answer rests on is in the case (MCAi!AnswersAreGrounded), for every limit of the statements, the
\* tool calls and the rows, and for all passages and results that a model may be given.
THEOREM AnswersAreAlwaysGrounded == Spec => []AnswersAreGrounded
<1>1. Init => AnswersAreGrounded
  BY UnaskedIsGrounded, Zenon DEF Init
<1>2. ASSUME AnswersAreGrounded, [Next]_vars PROVE AnswersAreGrounded'
  <2>1. CASE NextQuestion
    BY <2>1, ToolsAreGrounded, AnswersAreSaid, Zenon DEF NextQuestion
  <2>2. CASE UNCHANGED asked
    BY <1>2, <2>2, UnaskedIsGrounded, Zenon
  <2>3. NextQuestion \/ UNCHANGED asked
    BY <1>2 DEF Next, NextIndexing, NextAnswers, NextCollections, NextQuestion, vars
  <2> QED BY <2>1, <2>2, <2>3, Zenon
<1> QED BY <1>1, <1>2, PTL DEF Spec
=================================================================================
