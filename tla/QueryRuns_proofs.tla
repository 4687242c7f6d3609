-------------------------- MODULE QueryRuns_proofs ----------------------------
(***************************************************************************)
(* Safety of QueryRuns for every number of runs, workers and connectors    *)
(* and every value of the limits.  The argument: claim_count only grows,   *)
(* so the token of a claim (its number) is carried by the claiming worker  *)
(* alone; a run that is running has the token of its last claim, so a      *)
(* write guarded by the token is made by that claim's worker or not at     *)
(* all; a run that is finished has no token, so no guarded write and no    *)
(* claim touches it again.                                                 *)
(*                                                                         *)
(* PInv adds what is stored: the checkpoint of a connector run and what    *)
(* the owner of the run knows of it fit the pages stored, so that each     *)
(* page is the next one; from it follow the order of the pages, the bounds *)
(* on fetches and on pages after a stop, and that a completed run has      *)
(* every page.  With it every step is a step of RunLifecycle, or none.     *)
(***************************************************************************)
EXTENDS QueryRuns, TLAPS
\* An idle worker's locals are well typed (execute_run has returned).
LEMMA IdleWork == Idle \in Work
  BY DEF Idle, Work, PC, NoVerdict, Verdict, Verdicts, ConnectorStatus, Unfinished,
       Terminal, StopReasons, ErrorCodes

\* The end of a connector run is made of a status, a reason and a code.
LEMMA VerdictType ==
  ASSUME NEW s \in ConnectorStatus, NEW reason \in StopReasons, NEW e \in ErrorCodes
  PROVE  Verdict(s, reason, e) \in Verdicts
  BY DEF Verdict, Verdicts

\* The steps of a worker that has claimed its run.
Later == PC \ BeforeClaim

\* M may follow L as the locals of a worker that executes a run.
Follows(L, M) ==
  /\ M \in Work
  /\ M.run = L.run
  /\ M.tok = L.tok
  /\ M.pc \notin BeforeClaim
  /\ M.pc \in OnConnector => M.at \in Connectors

\* Worker w takes a step inside execute_run.
Continues(w) ==
  /\ work[w].pc \notin BeforeClaim
  /\ \E locals : Becomes(w, locals) /\ Follows(work[w], locals)
  /\ UNCHANGED claims

\* What a worker on a claimed run may do to its locals: move on, note a verdict, a page
\* count or a page, all under the same lease token.
LEMMA LocalsUpdated ==
  ASSUME NEW L \in Work, NEW p \in Later, p \in OnConnector => L.at \in Connectors
  PROVE  /\ Follows(L, [L EXCEPT !.pc = p])
         /\ \A v \in Verdicts : Follows(L, [L EXCEPT !.pc = p, !.verdict = v])
         /\ \A m \in Nat : Follows(L, [L EXCEPT !.pc = p, !.idx = m])
         /\ \A m \in Nat : Follows(L, [L EXCEPT !.pc = p, !.page = m])
         /\ \A m, n \in Nat : Follows(L, [L EXCEPT !.pc = p, !.idx = m, !.page = n])
  BY DEF Follows, Work, Later

\* Leaving a connector run keeps the run and the token.
LEMMA ConnectorLeft ==
  ASSUME NEW L \in Work, NEW k \in Nat \ {0}
  PROVE  /\ Follows(L, [L EXCEPT !.pc = "next", !.at = k])
         /\ Follows(L, [L EXCEPT !.pc = "next", !.at = k, !.idx = 0, !.page = 0,
                                 !.verdict = NoVerdict])
<1>1. NoVerdict \in Verdicts
  BY VerdictType DEF NoVerdict, ConnectorStatus, Unfinished, StopReasons, ErrorCodes
<1>2. "next" \in PC /\ "next" \notin BeforeClaim /\ "next" \notin OnConnector
  BY DEF PC, BeforeClaim, OnConnector
<1>3. Follows(L, [L EXCEPT !.pc = "next", !.at = k])
  BY <1>2 DEF Follows, Work
<1>4. Follows(L, [L EXCEPT !.pc = "next", !.at = k, !.idx = 0, !.page = 0,
                                 !.verdict = NoVerdict])
  BY <1>1, <1>2 DEF Follows, Work
<1> QED BY <1>3, <1>4

\* Every transaction between the claim and the end of execute_run keeps the run, its
\* token and the claim counter.
LEMMA WorkersContinue ==
  ASSUME IInv, NEW w \in Workers,
         \/ NextConnector(w) \/ StartConnector(w) \/ MarkRunning(w) \/ CheckStop(w)
         \/ CountAttempt(w) \/ FetchPage(w) \/ CountRetry(w) \/ PersistPage(w)
         \/ WriteErrorCode(w) \/ FinishConnector(w)
  PROVE  Continues(w)
<1> DEFINE L == work[w]
<1>1. /\ L \in Work
      /\ L.pc \in OnConnector => L.at \in Connectors
      /\ L.run \in Runs \/ L.pc = "idle"
      /\ L.at \in Nat \ {0} /\ L.idx \in Nat /\ L.page \in Nat
  BY DEF IInv, TypeOK, WorkersAreConsistent, Work, At
<1>2. \A r \in Runs, c \in Connectors : /\ Len(stored[r][c]) \in Nat
                                        /\ Cursor(r, c) \in Nat
  <2> SUFFICES ASSUME NEW r \in Runs, NEW c \in Connectors
               PROVE  Len(stored[r][c]) \in Nat /\ Cursor(r, c) \in Nat
    OBVIOUS
  <2>1. stored[r][c] \in Seq(Nat)
    BY DEF IInv, TypeOK
  <2> QED BY <2>1 DEF Cursor
<1> USE DEF At, runVars, connectorVars, dispatchVars, envVars, Continues, Later, PC,
     BeforeClaim, OnConnector, Conclude
<1>3. CASE NextConnector(w)
  <2>1. L.at <= NumConnectors => L.at \in Connectors
    BY SMTT(40), <1>1, <1>3, RunsAssumption DEF Connectors
  <2> QED BY <1>1, <1>3, <2>1, LocalsUpdated DEF NextConnector
<1>4. CASE StartConnector(w)
  <2>1. L.at + 1 \in Nat \ {0}
    BY <1>1
  <2>2. /\ Verdict("failed", "source", "none") \in Verdicts
        /\ Verdict("canceled", "canceled", "none") \in Verdicts
    BY VerdictType DEF ConnectorStatus, Terminal, StopReasons, ErrorCodes
  <2> QED BY <1>1, <1>4, <2>1, <2>2, LocalsUpdated, ConnectorLeft DEF StartConnector
<1>5. CASE MarkRunning(w)
  BY <1>1, <1>2, <1>5, LocalsUpdated DEF MarkRunning
<1>6. CASE CheckStop(w)
  BY <1>1, <1>6, LocalsUpdated, ConnectorLeft, VerdictType DEF CheckStop, ConnectorStatus,
       Terminal, StopReasons, ErrorCodes, Cut
<1>7. CASE CountAttempt(w)
  <2>1. L.run \in Runs /\ L.at \in Connectors
    BY <1>1, <1>7 DEF CountAttempt
  <2>2. Becomes(w, [L EXCEPT !.pc = "fetch", !.idx = Len(stored[L.run][L.at]),
                             !.page = Cursor(L.run, L.at)])
    BY <1>7 DEF CountAttempt
  <2>3. Follows(L, [L EXCEPT !.pc = "fetch", !.idx = Len(stored[L.run][L.at]),
                             !.page = Cursor(L.run, L.at)])
    BY <1>1, <1>2, <2>1, LocalsUpdated
  <2> QED BY <1>7, <2>2, <2>3 DEF CountAttempt
<1>8. CASE FetchPage(w)
  BY ZenonT(60), <1>1, <1>8, LocalsUpdated, ConnectorLeft, VerdictType DEF FetchPage, ConnectorStatus,
       Terminal, StopReasons, ErrorCodes, Cut, Delivered
<1>9. CASE CountRetry(w)
  BY ZenonT(60), <1>1, <1>9, LocalsUpdated DEF CountRetry
<1>10. CASE PersistPage(w)
  <2>1. L.run \in Runs /\ L.at \in Connectors
    BY <1>1, <1>10 DEF PersistPage
  <2>2. Len(stored'[L.run][L.at]) \in Nat \/ UNCHANGED stored
    BY SMTT(30), <1>1, <1>2, <2>1, <1>10 DEF PersistPage, IInv, TypeOK
  <2> QED BY <1>1, <1>2, <1>10, <2>1, <2>2, LocalsUpdated, VerdictType DEF PersistPage,
       ConnectorStatus, Terminal, StopReasons, ErrorCodes
<1>11. CASE WriteErrorCode(w)
  BY <1>1, <1>11, LocalsUpdated DEF WriteErrorCode
<1>12. CASE FinishConnector(w)
  <2>1. L.at + 1 \in Nat \ {0}
    BY <1>1
  <2> QED BY <1>1, <1>12, <2>1, ConnectorLeft DEF FinishConnector
<1> QED BY <1>3,<1>4,<1>5,<1>6,<1>7,<1>8,<1>9,<1>10,<1>11,<1>12

\* Worker w is done with its message, or died.
Rests(w) == Becomes(w, Idle) /\ UNCHANGED claims

\* What a step does to the workers and the claim counters: nothing, or one worker
\* continues, rests, receives a message, or claims.
LEMMA StepKinds ==
  ASSUME IInv, [Next]_vars
  PROVE  \/ UNCHANGED <<work, claims>>
         \/ \E w \in Workers : Continues(w)
         \/ \E w \in Workers : Rests(w)
         \/ \E w \in Workers, r \in Runs : Receive(w, r)
         \/ \E w \in Workers : ClaimRun(w)
<1> USE DEF runVars, connectorVars, dispatchVars, envVars
<1>0. CASE UNCHANGED vars
  BY <1>0 DEF vars
<1>1. CASE UserStep
  BY <1>1 DEF UserStep, AdmitRun, CreateRun, RequestCancel, SetAccess, ArchiveCase,
       RestoreCase,
              RequestDeletion, StopRunsForDeletion
<1>2. CASE DispatchStep
  BY <1>2 DEF DispatchStep, Publish, PublishUncommitted, FindStale, RequeueStale
<1>3. ASSUME NEW w \in Workers, WorkerStep(w) \/ RenewWhileWaiting(w)
      PROVE  UNCHANGED <<work, claims>> \/ Continues(w) \/ Rests(w) \/ ClaimRun(w)
  <2>1. ASSUME AbandonIfExhausted(w) \/ LeaseLost(w) \/ Finalize(w) \/ FailInternal(w)
        PROVE  Rests(w)
    BY <2>1 DEF AbandonIfExhausted, LeaseLost, Finalize, FailInternal, ApplyFinalStatus,
         Rests
  <2>2. CASE RenewWhileWaiting(w)
    BY <2>2 DEF RenewWhileWaiting
  <2> QED BY <1>3, <2>1, <2>2, WorkersContinue DEF WorkerStep
<1>4. CASE Failure
  BY <1>4 DEF Failure, LoseMessage, LeaseExpires, Crash, Rests
<1> QED BY <1>0, <1>1, <1>2, <1>3, <1>4 DEF Next

\* The workers' locals stay well typed.
LEMMA WorkTypeStep == IInv /\ [Next]_vars => work' \in [Workers -> Work]
<1> SUFFICES ASSUME IInv, [Next]_vars PROVE work' \in [Workers -> Work]
  OBVIOUS
<1>0. work \in [Workers -> Work] /\ claims \in [Runs -> Nat]
  BY DEF IInv, TypeOK
<1>1. CASE UNCHANGED <<work, claims>>
  BY <1>0, <1>1
<1>2. ASSUME NEW w \in Workers, Continues(w) PROVE work' \in [Workers -> Work]
  BY <1>0, <1>2 DEF Continues, Follows, Becomes
<1>3. ASSUME NEW w \in Workers, Rests(w) PROVE work' \in [Workers -> Work]
  BY <1>0, <1>3, IdleWork DEF Rests, Becomes
<1>4. ASSUME NEW w \in Workers, NEW r \in Runs, Receive(w, r) PROVE work' \in [Workers -> Work]
  <2>1. [Idle EXCEPT !.pc = "claim", !.run = r] \in Work
    BY IdleWork DEF Work, PC
  <2> QED BY <1>0, <1>4, <2>1 DEF Receive, Becomes
<1>5. ASSUME NEW w \in Workers, ClaimRun(w) PROVE work' \in [Workers -> Work]
  <2> DEFINE r == work[w].run
  <2>1. r \in Runs
    BY <1>0, <1>5 DEF ClaimRun, NewToken, At, IInv, WorkersAreConsistent, Work
  <2>2. /\ [work[w] EXCEPT !.pc = "next", !.tok = claims[r] + 1] \in Work
        /\ [work[w] EXCEPT !.pc = "abandon"] \in Work
    <3>1. work[w] \in Work /\ claims[r] + 1 \in Nat
      BY <1>0, <2>1
    <3> QED BY <3>1 DEF Work, PC
  <2> QED BY <1>0, <1>5, <2>2 DEF ClaimRun, NewToken, Becomes
<1> QED BY <1>1, <1>2, <1>3, <1>4, <1>5, StepKinds

\* claim_run hands out tokens no worker carries: a worker keeps a token of its own run,
\* and no two workers share one.
LEMMA WorkersStep == IInv /\ [Next]_vars => WorkersAreConsistent' /\ TokensAreUnique'
<1> SUFFICES ASSUME IInv, [Next]_vars PROVE WorkersAreConsistent' /\ TokensAreUnique'
  OBVIOUS
<1>0. /\ work \in [Workers -> Work] /\ claims \in [Runs -> Nat]
      /\ WorkersAreConsistent /\ TokensAreUnique
  BY DEF IInv, TypeOK
<1>9. work' \in [Workers -> Work]
  BY WorkTypeStep
<1> USE DEF WorkersAreConsistent, TokensAreUnique, At
<1>1. CASE UNCHANGED <<work, claims>>
  BY <1>0, <1>1
<1>2. ASSUME NEW w \in Workers, Continues(w) PROVE WorkersAreConsistent' /\ TokensAreUnique'
  <2>1. /\ \A v \in Workers \ {w} : work'[v] = work[v]
        /\ Follows(work[w], work'[w])
        /\ UNCHANGED claims
        /\ work[w].pc \notin BeforeClaim
    BY <1>0, <1>2 DEF Continues, Becomes
  <2>2. WorkersAreConsistent'
    BY <1>0, <2>1 DEF Follows, BeforeClaim
  <2>3. TokensAreUnique'
    BY <1>0, <2>1 DEF Follows
  <2> QED BY <2>2, <2>3
<1>3. ASSUME NEW w \in Workers, Rests(w) PROVE WorkersAreConsistent' /\ TokensAreUnique'
  <2>1. /\ \A v \in Workers \ {w} : work'[v] = work[v]
        /\ work'[w].pc = "idle" /\ work'[w].run = NoRun /\ work'[w].tok = 0
        /\ UNCHANGED claims
    BY <1>0, <1>3 DEF Rests, Becomes, Idle
  <2>2. WorkersAreConsistent'
    BY <1>0, <2>1 DEF BeforeClaim, OnConnector
  <2>3. TokensAreUnique'
    BY <1>0, <2>1
  <2> QED BY <2>2, <2>3
<1>4. ASSUME NEW w \in Workers, NEW r \in Runs, Receive(w, r)
      PROVE  WorkersAreConsistent' /\ TokensAreUnique'
  <2>1. /\ \A v \in Workers \ {w} : work'[v] = work[v]
        /\ work'[w].pc = "claim" /\ work'[w].run = r /\ work'[w].tok = 0
        /\ UNCHANGED claims
    BY <1>0, <1>4 DEF Receive, Becomes, Idle, runVars
  <2>2. WorkersAreConsistent'
    BY <1>0, <2>1, RunsAssumption DEF BeforeClaim, OnConnector
  <2>3. TokensAreUnique'
    BY <1>0, <2>1
  <2> QED BY <2>2, <2>3
<1>5. ASSUME NEW w \in Workers, ClaimRun(w) PROVE WorkersAreConsistent' /\ TokensAreUnique'
  <2> DEFINE r == work[w].run
  <2>1. r \in Runs /\ work[w].pc = "claim"
    BY <1>0, <1>5 DEF ClaimRun, NewToken, Work
  <2>2. CASE Claimable(r)
    <3>1. /\ \A v \in Workers \ {w} : work'[v] = work[v]
          /\ work'[w].pc = "next" /\ work'[w].run = r /\ work'[w].tok = claims[r] + 1
          /\ claims' = [claims EXCEPT ![r] = @ + 1]
      BY ZenonT(60), <1>0, <1>5, <2>1, <2>2 DEF ClaimRun, NewToken, Becomes, Work
    <3>2. \A v \in Workers \ {w} : work[v].run = r => work[v].tok # claims[r] + 1
      BY <1>0, <2>1 DEF BeforeClaim
    <3>3. WorkersAreConsistent'
      BY <1>0, <2>1, <3>1, RunsAssumption DEF BeforeClaim, OnConnector, Work
    <3>4. TokensAreUnique'
      BY <1>0, <3>1, <3>2
    <3> QED BY <3>3, <3>4
  <2>3. CASE ~Claimable(r)
    <3>1. /\ \A v \in Workers \ {w} : work'[v] = work[v]
          /\ work'[w].pc = "abandon" /\ work'[w].run = r /\ work'[w].tok = work[w].tok
          /\ UNCHANGED claims
      BY <1>0, <1>5, <2>1, <2>3 DEF ClaimRun, NewToken, Becomes, Work
    <3>2. WorkersAreConsistent'
      BY <1>0, <2>1, <3>1, RunsAssumption DEF BeforeClaim, OnConnector
    <3>3. TokensAreUnique'
      BY <1>0, <3>1
    <3> QED BY <3>2, <3>3
  <2> QED BY <2>2, <2>3
<1> QED BY <1>1, <1>2, <1>3, <1>4, <1>5, StepKinds

\* TypeOK without the workers' locals.
RowTypes ==
  /\ status \in [Runs -> RunStatus]
  /\ cancel \in [Runs -> BOOLEAN]
  /\ err \in [Runs -> ErrorCodes]
  /\ token \in [Runs -> Nat]
  /\ expired \in [Runs -> BOOLEAN]
  /\ claims \in [Runs -> Nat]
  /\ cstat \in [Runs -> [Connectors -> ConnectorStatus]]
  /\ stop \in [Runs -> [Connectors -> StopReasons]]
  /\ tries \in [Runs -> [Connectors -> Nat]]
  /\ stored \in [Runs -> [Connectors -> Seq(Nat)]]
  /\ outbox \in [Runs -> OutboxStatus]
  /\ followUp \in [Runs -> BOOLEAN]
  /\ inbox \in SUBSET Runs
  /\ staleView \in SUBSET Runs
  /\ access \in [Runs -> BOOLEAN]
  /\ caseState \in CaseStates
  /\ late \in [Runs -> Nat]

\* What the invariant says of the locals of one worker.
LEMMA LocalTypes ==
  ASSUME IInv, NEW w \in Workers
  PROVE  /\ work[w] \in Work
         /\ work[w].pc # "idle" => work[w].run \in Runs
         /\ work[w].pc \in OnConnector => work[w].at \in Connectors
         /\ work[w].verdict \in Verdicts
         /\ work[w].page \in Nat
  BY DEF IInv, TypeOK, WorkersAreConsistent, At, Work

\* An element replaced by one of the same kind.
LEMMA FlatUpdate ==
  ASSUME NEW A, NEW T, NEW f \in [A -> T], NEW a \in A, NEW v \in T
  PROVE  [f EXCEPT ![a] = v] \in [A -> T]
  OBVIOUS

\* Writing one connector run's column.
LEMMA NestedUpdate ==
  ASSUME NEW S, NEW f \in [Runs -> [Connectors -> S]], NEW r \in Runs, NEW c, NEW v \in S
  PROVE  [f EXCEPT ![r][c] = v] \in [Runs -> [Connectors -> S]]
  OBVIOUS

\* Reading the column that was written.
LEMMA NestedRead ==
  ASSUME NEW S, NEW f \in [Runs -> [Connectors -> S]], NEW r \in Runs, NEW c \in Connectors, NEW v
  PROVE  f[r][c] \in S /\ [f EXCEPT ![r][c] = v][r][c] = v
  OBVIOUS

\* Writing one run's column.
LEMMA RowUpdate ==
  ASSUME NEW S, NEW f \in [Runs -> S], NEW r \in Runs, NEW v \in S
  PROVE  [f EXCEPT ![r] = v] \in [Runs -> S]
  OBVIOUS

\* _stop_reason writes well-typed columns.
LEMMA RecordStopTypes ==
  ASSUME RowTypes, NEW r \in Runs, RecordStop(r)
  PROVE  cancel' \in [Runs -> BOOLEAN] /\ err' \in [Runs -> ErrorCodes]
  BY DEF RowTypes, RecordStop, ErrorCodes

\* _close_unfinished_connectors leaves no connector run unfinished.
LEMMA ClosedTypes ==
  ASSUME RowTypes, NEW r \in Runs
  PROVE  Closed(r) \in [Connectors -> Terminal]
<1> SUFFICES ASSUME NEW c \in Connectors PROVE Closed(r)[c] \in Terminal
  BY DEF Closed
<1>1. cstat[r][c] \in ConnectorStatus
  BY DEF RowTypes
<1> QED BY <1>1 DEF Closed, Cut, ConnectorStatus, Unfinished, Terminal

\* _apply_final_status writes well-typed columns and a terminal status.
LEMMA FinalTypes ==
  ASSUME RowTypes, NEW r \in Runs, NEW cs \in [Connectors -> Terminal],
         NEW reason \in StopReasons, NEW e \in ErrorCodes,
         ApplyFinalStatus(r, cs, reason, e)
  PROVE  RowTypes' /\ cstat'[r] = cs /\ status'[r] \in Terminal
<1> USE DEF RowTypes, ApplyFinalStatus, envVars
<1>1. FinalStatus(r, cs) \in Terminal
  BY DEF FinalStatus, Terminal
<1>2. Terminal \subseteq RunStatus /\ Terminal \subseteq ConnectorStatus
  BY DEF RunStatus, ConnectorStatus
<1>3. status' \in [Runs -> RunStatus] /\ status'[r] \in Terminal
  BY <1>1, <1>2
<1>4. cstat' \in [Runs -> [Connectors -> ConnectorStatus]] /\ cstat'[r] = cs
  BY <1>2
<1>5. stop' \in [Runs -> [Connectors -> StopReasons]]
  <2>1. [c \in Connectors |-> IF cstat[r][c] \in Unfinished THEN reason ELSE stop[r][c]]
          \in [Connectors -> StopReasons]
    OBVIOUS
  <2> QED BY <2>1
<1>6. err' \in [Runs -> ErrorCodes] /\ outbox' \in [Runs -> OutboxStatus]
  BY DEF OutboxStatus
<1> QED BY <1>3, <1>4, <1>5, <1>6

\* Every column stays well typed.
LEMMA RowTypesStep == IInv /\ [Next]_vars => RowTypes'
<1> SUFFICES ASSUME IInv, [Next]_vars PROVE RowTypes'
  OBVIOUS
<1> USE RunsAssumption DEF RowTypes, IInv, TypeOK, RunStatus, ConnectorStatus, Unfinished,
     Terminal, ErrorCodes, StopReasons, OutboxStatus, CaseStates, BeforeClaim, OnConnector,
     runVars, connectorVars, dispatchVars, envVars, At
<1>0. CASE UNCHANGED vars
  BY <1>0 DEF vars
<1>1. ASSUME NEW r \in Runs, AdmitRun(r) PROVE RowTypes'
  BY <1>1 DEF AdmitRun
<1>2. ASSUME NEW r \in Runs, CreateRun(r) PROVE RowTypes'
  BY <1>2 DEF CreateRun
<1>3. ASSUME NEW r \in Runs, RequestCancel(r) PROVE RowTypes'
  <2> DEFINE cs == [c \in Connectors |->
                      IF cstat[r][c] \in Unfinished THEN "canceled" ELSE cstat[r][c]]
  <2>1. cs \in [Connectors -> ConnectorStatus]
    OBVIOUS
  <2>2. [cstat EXCEPT ![r] = cs] \in [Runs -> [Connectors -> ConnectorStatus]]
    BY <2>1, RowUpdate
  <2>3. cstat' \in [Runs -> [Connectors -> ConnectorStatus]]
    BY <1>3, <2>2 DEF RequestCancel
  <2> QED BY <1>3, <2>3 DEF RequestCancel
<1>4. ASSUME NEW r \in Runs, NEW granted \in BOOLEAN, SetAccess(r, granted) PROVE RowTypes'
  BY <1>4 DEF SetAccess
<1>5. ASSUME ArchiveCase PROVE RowTypes'
  BY <1>5 DEF ArchiveCase
<1>6. ASSUME RestoreCase PROVE RowTypes'
  BY <1>6 DEF RestoreCase
<1>7. ASSUME RequestDeletion PROVE RowTypes'
  BY <1>7 DEF RequestDeletion
<1>8. ASSUME StopRunsForDeletion PROVE RowTypes'
  BY <1>8 DEF StopRunsForDeletion
<1>9. ASSUME NEW r \in Runs, Publish(r) PROVE RowTypes'
  BY <1>9 DEF Publish
<1>10. ASSUME NEW r \in Runs, PublishUncommitted(r) PROVE RowTypes'
  BY <1>10 DEF PublishUncommitted
<1>11. ASSUME NEW r \in Runs, FindStale(r) PROVE RowTypes'
  BY <1>11 DEF FindStale
<1>12. ASSUME NEW r \in Runs, RequeueStale(r) PROVE RowTypes'
  BY <1>12 DEF RequeueStale
<1>13. ASSUME NEW w \in Workers, NEW r \in Runs, Receive(w, r) PROVE RowTypes'
  BY <1>13 DEF Receive
<1>14. ASSUME NEW w \in Workers, ClaimRun(w) PROVE RowTypes'
  <2> DEFINE r == work[w].run
  <2>1. r \in Runs
    BY <1>14, LocalTypes DEF ClaimRun, NewToken
  <2>2. claims[r] + 1 \in Nat
    BY <2>1
  <2>3. CASE Claimable(r)
    <3>1. claims' \in [Runs -> Nat] /\ token' \in [Runs -> Nat]
      <4>1. /\ claims' = [claims EXCEPT ![r] = claims[r] + 1]
            /\ token' = [token EXCEPT ![r] = claims[r] + 1]
        BY <1>14, <2>3 DEF ClaimRun, NewToken
      <4> QED BY <2>1, <2>2, <4>1, RowUpdate
    <3>2. err' \in [Runs -> ErrorCodes]
      <4>1. err' = [err EXCEPT ![r] = IF err[r] = "authorization_revoked"
                                     THEN err[r] ELSE "none"]
        BY <1>14, <2>3 DEF ClaimRun, NewToken
      <4>2. (IF err[r] = "authorization_revoked" THEN err[r] ELSE "none") \in ErrorCodes
        OBVIOUS
      <4> QED BY <2>1, <4>1, <4>2, RowUpdate
    <3>3. status' \in [Runs -> RunStatus] /\ expired' \in [Runs -> BOOLEAN]
      BY <1>14, <2>1, <2>3 DEF ClaimRun, NewToken
    <3> QED BY <1>14, <3>1, <3>2, <3>3 DEF ClaimRun, NewToken
  <2>4. CASE ~Claimable(r)
    BY <1>14, <2>4 DEF ClaimRun, NewToken
  <2> QED BY <2>3, <2>4
<1>15. ASSUME NEW w \in Workers, AbandonIfExhausted(w) PROVE RowTypes'
  <2> DEFINE r == work[w].run
  <2>1. r \in Runs /\ Closed(r) \in [Connectors -> Terminal]
    BY <1>15, LocalTypes, ClosedTypes DEF AbandonIfExhausted
  <2>2. CASE ApplyFinalStatus(r, Closed(r), "closed", "worker_lost")
    BY <2>1, <2>2, FinalTypes
  <2> QED BY <1>15, <2>2 DEF AbandonIfExhausted
<1>16. ASSUME NEW w \in Workers, LeaseLost(w) PROVE RowTypes'
  BY <1>16 DEF LeaseLost, Holds, Work, WorkersAreConsistent, Connectors, Cut
<1>17. ASSUME NEW w \in Workers, NextConnector(w) PROVE RowTypes'
  <2>1. work[w].run \in Runs
    BY <1>17, LocalTypes DEF NextConnector
  <2>2. cancel' \in [Runs -> BOOLEAN] /\ err' \in [Runs -> ErrorCodes]
    BY <1>17, <2>1, RecordStopTypes DEF NextConnector
  <2> QED BY <1>17, <2>2 DEF NextConnector
<1>18. ASSUME NEW w \in Workers, StartConnector(w) PROVE RowTypes'
  <2>1. work[w].run \in Runs
    BY <1>18, LocalTypes DEF StartConnector
  <2>2. cancel' \in [Runs -> BOOLEAN] /\ err' \in [Runs -> ErrorCodes]
    BY <1>18, <2>1, RecordStopTypes DEF StartConnector
  <2> QED BY <1>18, <2>2 DEF StartConnector
<1>19. ASSUME NEW w \in Workers, MarkRunning(w) PROVE RowTypes'
  BY <1>19 DEF MarkRunning, RenewLease, Holds, Work, WorkersAreConsistent, Connectors, Cut
<1>20. ASSUME NEW w \in Workers, CheckStop(w) PROVE RowTypes'
  <2>1. work[w].run \in Runs
    BY <1>20, LocalTypes DEF CheckStop
  <2>2. cancel' \in [Runs -> BOOLEAN] /\ err' \in [Runs -> ErrorCodes]
    BY <1>20, <2>1, RecordStopTypes DEF CheckStop
  <2> QED BY <1>20, <2>2 DEF CheckStop
<1>21. ASSUME NEW w \in Workers, CountAttempt(w) PROVE RowTypes'
  <2> DEFINE r == work[w].run
             c == work[w].at
  <2>1. r \in Runs /\ c \in Connectors
    BY <1>21, LocalTypes DEF CountAttempt
  <2>2. tries[r][c] + 1 \in Nat
    BY <2>1
  <2>3. tries' \in [Runs -> [Connectors -> Nat]]
    BY <1>21, <2>1, <2>2, NestedUpdate DEF CountAttempt
  <2> QED BY <1>21, <2>1, <2>3 DEF CountAttempt, RenewLease
<1>22. ASSUME NEW w \in Workers, FetchPage(w) PROVE RowTypes'
  <2>1. work[w].run \in Runs
    BY <1>22, LocalTypes DEF FetchPage
  <2>2. cancel' \in [Runs -> BOOLEAN] /\ err' \in [Runs -> ErrorCodes]
    BY <1>22, <2>1, RecordStopTypes DEF FetchPage
  <2> QED BY <1>22, <2>2 DEF FetchPage
<1>23. ASSUME NEW w \in Workers, CountRetry(w) PROVE RowTypes'
  BY <1>23 DEF CountRetry, RenewLease, Holds, Work, WorkersAreConsistent, Connectors, Cut
<1>24. ASSUME NEW w \in Workers, PersistPage(w) PROVE RowTypes'
  <2> DEFINE r == work[w].run
             c == work[w].at
  <2>1. r \in Runs /\ c \in Connectors /\ work[w].page \in Nat
    BY <1>24, LocalTypes DEF PersistPage
  <2>2. Append(stored[r][c], work[w].page) \in Seq(Nat)
    BY <2>1
  <2>3. \/ stored' = stored
        \/ stored' = [stored EXCEPT ![r][c] = Append(stored[r][c], work[w].page)]
    BY <1>24 DEF PersistPage
  <2>4. stored' \in [Runs -> [Connectors -> Seq(Nat)]]
    <3>1. [stored EXCEPT ![r][c] = Append(stored[r][c], work[w].page)]
            \in [Runs -> [Connectors -> Seq(Nat)]]
      BY <2>1, <2>2, NestedUpdate
    <3> QED BY <2>3, <3>1
  <2>5. tries' = tries \/ tries' = [tries EXCEPT ![r][c] = 0]
    BY <1>24 DEF PersistPage
  <2>6. tries' \in [Runs -> [Connectors -> Nat]]
    <3>1. [tries EXCEPT ![r][c] = 0] \in [Runs -> [Connectors -> Nat]]
      BY <2>1, NestedUpdate
    <3> QED BY <2>5, <3>1
  <2>7. \/ late' = late
        \/ late' = [late EXCEPT ![r] = late[r] + 1]
        \/ late' = [late EXCEPT ![r] = late[r]]
    BY <1>24 DEF PersistPage
  <2>8. late' \in [Runs -> Nat]
    <3>1. late \in [Runs -> Nat] /\ late[r] \in Nat /\ late[r] + 1 \in Nat
      BY <2>1
    <3>2. /\ [late EXCEPT ![r] = late[r] + 1] \in [Runs -> Nat]
          /\ [late EXCEPT ![r] = late[r]] \in [Runs -> Nat]
      BY Zenon, <2>1, <3>1, FlatUpdate
    <3> HIDE DEF r, TypeOK, IInv
    <3> QED BY <2>7, <3>1, <3>2
  <2>9. expired' = expired \/ expired' = [expired EXCEPT ![r] = FALSE]
    BY <1>24 DEF PersistPage, RenewLease
  <2>10. expired' \in [Runs -> BOOLEAN]
    BY <2>1, <2>9
  <2> QED BY <1>24, <2>4, <2>6, <2>8, <2>10 DEF PersistPage
<1>25. ASSUME NEW w \in Workers, WriteErrorCode(w) PROVE RowTypes'
  BY <1>25, LocalTypes DEF WriteErrorCode, Verdicts
<1>26. ASSUME NEW w \in Workers, FinishConnector(w) PROVE RowTypes'
  <2>1. work[w].run \in Runs /\ work[w].at \in Connectors /\ work[w].verdict \in Verdicts
    BY <1>26, LocalTypes DEF FinishConnector
  <2> QED BY <1>26, <2>1 DEF FinishConnector, RenewLease, Verdicts
<1>27. ASSUME NEW w \in Workers, Finalize(w) PROVE RowTypes'
  <2> DEFINE r == work[w].run
             cs == [c \in Connectors |->
                      IF cstat[r][c] \in Unfinished THEN "canceled" ELSE cstat[r][c]]
  <2>1. r \in Runs /\ cs \in [Connectors -> Terminal]
    BY <1>27, LocalTypes DEF Finalize
  <2>2. ApplyFinalStatus(r, cs, "none", err[r]) /\ err[r] \in ErrorCodes /\ RowTypes
    BY <1>27, <2>1 DEF Finalize
  <2>3. "none" \in StopReasons
    OBVIOUS
  <2> HIDE DEF RowTypes, IInv, TypeOK, cs
  <2> QED BY <2>1, <2>2, <2>3, FinalTypes
<1>28. ASSUME NEW w \in Workers, FailInternal(w) PROVE RowTypes'
  <2> DEFINE r == work[w].run
  <2>1. r \in Runs /\ Closed(r) \in [Connectors -> Terminal]
    BY <1>28, LocalTypes, ClosedTypes DEF FailInternal
  <2>2. CASE ApplyFinalStatus(r, Closed(r), "closed", "internal_error")
    BY <2>1, <2>2, FinalTypes
  <2> QED BY <1>28, <2>2 DEF FailInternal
<1>29. ASSUME NEW w \in Workers, RenewWhileWaiting(w) PROVE RowTypes'
  BY <1>29 DEF RenewWhileWaiting, RenewLease, Holds
<1>30. ASSUME NEW r \in Runs, LoseMessage(r) PROVE RowTypes'
  BY <1>30 DEF LoseMessage
<1>31. ASSUME NEW r \in Runs, LeaseExpires(r) PROVE RowTypes'
  BY <1>31 DEF LeaseExpires
<1>32. ASSUME NEW w \in Workers, Crash(w) PROVE RowTypes'
  BY <1>32 DEF Crash, Work, WorkersAreConsistent, Connectors, Cut
<1> HIDE DEF RowTypes, IInv, TypeOK
<1>33. QED
  BY <1>0, <1>1, <1>2, <1>3, <1>4, <1>5, <1>6, <1>7, <1>8, <1>9, <1>10, <1>11, <1>12,
     <1>13, <1>14, <1>15, <1>16, <1>17, <1>18, <1>19, <1>20, <1>21, <1>22,
     <1>23, <1>24, <1>25, <1>26, <1>27, <1>28, <1>29, <1>30, <1>31, <1>32 DEF Next, UserStep, DispatchStep, WorkerStep, Failure
RowsFollow == RowsAreConsistent /\ RowsAreClosed

\* What ends a running run writes its rows together, and its connectors' statuses with them.
LEMMA RowsEnd ==
  ASSUME IInv, NEW r \in Runs, NEW cs \in [Connectors -> Terminal], NEW reason, NEW e,
         status[r] = "running", ApplyFinalStatus(r, cs, reason, e)
  PROVE  RowsFollow'
<1>1. FinalStatus(r, cs) \in Terminal
  BY DEF FinalStatus, Terminal
<1>2. /\ status' = [status EXCEPT ![r] = FinalStatus(r, cs)] /\ cstat' = [cstat EXCEPT ![r] = cs]
      /\ token' = [token EXCEPT ![r] = 0] /\ outbox' = [outbox EXCEPT ![r] = "done"]
      /\ followUp' = [followUp EXCEPT ![r] = TRUE] /\ UNCHANGED <<claims, cancel, late>>
  BY DEF ApplyFinalStatus, envVars
<1>3. /\ DOMAIN status = Runs /\ DOMAIN cstat = Runs /\ DOMAIN token = Runs /\ DOMAIN outbox = Runs /\ DOMAIN followUp = Runs
  BY DEF IInv, TypeOK
<1>4. /\ status'[r] \in Terminal /\ cstat'[r] = cs /\ token'[r] = 0 /\ followUp'[r]
      /\ \A q \in Runs \ {r} : /\ status'[q] = status[q] /\ cstat'[q] = cstat[q] /\ token'[q] = token[q]
                               /\ outbox'[q] = outbox[q] /\ followUp'[q] = followUp[q]
      /\ UNCHANGED <<claims, cancel>>
  BY <1>1, <1>2, <1>3
<1>5. status'[r] \notin {"running", "none", "requested", "queued"} /\ claims'[r] > 0
  BY <1>4 DEF Terminal, IInv, RowsAreConsistent
<1>6. RowsAreConsistent'
  <2> SUFFICES ASSUME NEW q \in Runs
               PROVE  /\ status'[q] = "running" => token'[q] = claims'[q] /\ claims'[q] > 0
                      /\ status'[q] \in {"none", "requested", "queued"} => claims'[q] = 0
                      /\ status'[q] \in Terminal => \A c \in Connectors : cstat'[q][c] \in Terminal
                      /\ status'[q] \in Unfinished => outbox'[q] \in {"pending", "dispatched"}
    BY DEF RowsAreConsistent, Finished, Active
  <2>1. CASE q = r
    BY <1>4, <1>5, <2>1 DEF Unfinished
  <2>2. CASE q # r
    BY <1>4, <2>2 DEF IInv, RowsAreConsistent, Finished, Active
  <2> QED BY <2>1, <2>2
<1>7. RowsAreClosed'
  <2> SUFFICES ASSUME NEW q \in Runs PROVE RowIsClosed(q)'
    BY DEF RowsAreClosed
  <2>1. CASE q = r
    BY <1>4, <1>5, <2>1 DEF RowIsClosed, Finished, Active, Unfinished
  <2>2. CASE q # r
    BY <1>2, <1>4, <2>2 DEF IInv, RowsAreClosed, RowIsClosed, Finished, Active, Interrupted
  <2> QED BY <2>1, <2>2
<1> QED BY <1>6, <1>7 DEF RowsFollow

\* A transaction that writes none of these columns, and takes no cancellation back.
LEMMA RowsUntouched ==
  ASSUME RowsFollow, UNCHANGED <<status, token, claims, followUp, cstat, outbox>>,
         \A r \in Runs : cancel[r] => cancel'[r]
  PROVE  RowsFollow'
<1>1. RowsAreConsistent'
  BY DEF RowsFollow, RowsAreConsistent, Finished, Active
<1>2. ASSUME NEW r \in Runs PROVE RowIsClosed(r)'
  <2>1. RowIsClosed(r) /\ (Interrupted(r) => Interrupted(r)')
    BY DEF RowsFollow, RowsAreClosed, Interrupted
  <2> QED BY <2>1 DEF RowIsClosed, Finished
<1> QED BY <1>1, <1>2 DEF RowsFollow, RowsAreClosed

\* A cancellation that may be recorded is not taken back.
LEMMA CancelKept ==
  ASSUME cancel \in [Runs -> BOOLEAN],
         cancel' = cancel \/ \E r \in Runs : cancel' = [cancel EXCEPT ![r] = TRUE],
         NEW q \in Runs, cancel[q]
  PROVE  cancel'[q]
  OBVIOUS

\* A transaction that writes these columns of one run.
LEMMA OneRowChanges ==
  ASSUME RowsFollow, NEW r \in Runs, RowsAreConsistent', RowIsClosed(r)',
         \A q \in Runs \ {r} :
           UNCHANGED <<status[q], token[q], claims[q], followUp[q], cancel[q]>>
  PROVE  RowsFollow'
<1>1. ASSUME NEW q \in Runs PROVE RowIsClosed(q)'
  <2>1. CASE q = r
    BY <2>1
  <2>2. CASE q # r
    BY <2>2 DEF RowsFollow, RowsAreClosed, RowIsClosed, Interrupted, Finished
  <2> QED BY <2>1, <2>2
<1> QED BY <1>1 DEF RowsFollow, RowsAreClosed

\* A run that is not finished was not handed on.
LEMMA NotHandedOn ==
  ASSUME RowsFollow, NEW r \in Runs, ~Finished(r) PROVE ~followUp[r]
  BY DEF RowsFollow, RowsAreClosed, RowIsClosed

\* A run that is requested or queued has no token and was not handed on.
LEMMA OpenRowIsClosed ==
  ASSUME NEW r, status'[r] \in {"requested", "queued"}, token'[r] = 0, ~followUp'[r]
  PROVE  RowIsClosed(r)'
  BY DEF RowIsClosed, Finished, Terminal

\* A claim.
LEMMA ClaimFollows ==
  ASSUME RowsFollow, TypeOK, NEW r \in Runs, status[r] \in Unfinished,
         status' = [status EXCEPT ![r] = "running"],
         claims' = [claims EXCEPT ![r] = @ + 1],
         token' = [token EXCEPT ![r] = claims[r] + 1],
         UNCHANGED <<cstat, outbox, followUp, cancel>>
  PROVE  RowsFollow'
<1>1. /\ \A q \in Runs \ {r} :
           UNCHANGED <<status[q], token[q], claims[q], followUp[q], cancel[q]>>
      /\ status'[r] = "running" /\ token'[r] = claims'[r] /\ claims'[r] > 0
  BY DEF TypeOK
<1>2. RowsAreConsistent'
  BY <1>1 DEF RowsFollow, RowsAreConsistent, Finished, Active, Terminal, Unfinished
<1>3. ~followUp[r]
  BY NotHandedOn DEF Finished, Terminal, Unfinished
<1>4. RowIsClosed(r)'
  BY <1>1, <1>3 DEF RowIsClosed, Finished, Terminal
<1> QED BY <1>1, <1>2, <1>4, OneRowChanges

\* The lease, the claim counter, the follow-up and the outbox row go with the status in
\* every transaction.
LEMMA RowsStep == IInv /\ [Next]_vars => RowsFollow'
<1> SUFFICES ASSUME IInv, [Next]_vars PROVE RowsFollow'
  OBVIOUS
<1> USE RunsAssumption DEF RowsFollow, RowsAreConsistent, RowsAreClosed, RowIsClosed, Interrupted,
     IInv, TypeOK, Finished, Active, Terminal, Unfinished, ConnectorStatus, RunStatus, OutboxStatus, BeforeClaim, OnConnector,
     runVars, connectorVars, dispatchVars, envVars, At
<1>0. CASE UNCHANGED vars
  BY <1>0 DEF vars
<1>1. ASSUME NEW r \in Runs, AdmitRun(r) PROVE RowsFollow'
  <2>1. RowsAreConsistent'
    BY <1>1 DEF AdmitRun
  <2>2. RowIsClosed(r)'
    <3>1. /\ status'[r] = "requested" /\ token'[r] = 0 /\ ~Finished(r) /\ RowsFollow
          /\ UNCHANGED followUp
      BY <1>1 DEF AdmitRun
    <3> HIDE DEF RowsFollow, RowIsClosed, Finished
    <3> QED BY <3>1, NotHandedOn, OpenRowIsClosed
  <2>3. RowsFollow
    OBVIOUS
  <2>4. \A q \in Runs \ {r} :
          UNCHANGED <<status[q], token[q], claims[q], followUp[q], cancel[q]>>
    BY <1>1 DEF AdmitRun
  <2> HIDE DEF RowsFollow, RowsAreConsistent, RowIsClosed
  <2> QED BY <2>1, <2>2, <2>3, <2>4, OneRowChanges
<1>2. ASSUME NEW r \in Runs, CreateRun(r) PROVE RowsFollow'
  <2>1. RowsAreConsistent'
    BY <1>2 DEF CreateRun
  <2>2. RowIsClosed(r)'
    <3>1. /\ status'[r] = "queued" /\ token'[r] = 0 /\ ~Finished(r) /\ RowsFollow
          /\ UNCHANGED followUp
      BY <1>2 DEF CreateRun
    <3> HIDE DEF RowsFollow, RowIsClosed, Finished
    <3> QED BY <3>1, NotHandedOn, OpenRowIsClosed
  <2>3. RowsFollow
    OBVIOUS
  <2>4. \A q \in Runs \ {r} :
          UNCHANGED <<status[q], token[q], claims[q], followUp[q], cancel[q]>>
    BY <1>2 DEF CreateRun
  <2> HIDE DEF RowsFollow, RowsAreConsistent, RowIsClosed
  <2> QED BY <2>1, <2>2, <2>3, <2>4, OneRowChanges
<1>3. ASSUME NEW r \in Runs, RequestCancel(r) PROVE RowsFollow'
  <2>1. /\ \A q \in Runs \ {r} : UNCHANGED <<cstat[q], status[q], outbox[q]>>
        /\ UNCHANGED <<claims, followUp, token>>
    BY <1>3 DEF RequestCancel
  <2>2. CASE UNCHANGED <<status, cstat, outbox>>
    <3>1. \A q \in Runs : cancel[q] => cancel'[q]
      BY <1>3 DEF RequestCancel
    <3>2. RowsFollow /\ UNCHANGED <<status, token, claims, followUp, cstat, outbox>>
      BY <2>1, <2>2
    <3> HIDE DEF RowsFollow
    <3> QED BY <3>1, <3>2, RowsUntouched
  <2>3. CASE /\ status' = [status EXCEPT ![r] = "canceled"]
             /\ cstat' = [cstat EXCEPT ![r] = [c \in Connectors |->
                            IF cstat[r][c] \in Unfinished THEN "canceled" ELSE cstat[r][c]]]
    <3>1. status'[r] = "canceled" /\ \A c \in Connectors : cstat'[r][c] \in Terminal
      BY <2>3
    <3>2. RowsAreConsistent'
      BY ZenonT(60), <2>1, <3>1
    <3>3. /\ status[r] \in {"queued"} \/ ~PromptCancels
          /\ status[r] \notin {"none", "requested"}
          /\ cancel' = [cancel EXCEPT ![r] = TRUE]
      BY <1>3, <2>3 DEF RequestCancel, SeenStatus
    <3>4. RowIsClosed(r)'
      BY <2>1, <3>1, <3>3 DEF RowIsClosed, Interrupted
    <3>5. \A q \in Runs \ {r} : RowIsClosed(q)'
      BY <2>1, <3>3 DEF RowIsClosed, Interrupted
    <3> QED BY <3>2, <3>4, <3>5
  <2> QED BY <1>3, <2>2, <2>3 DEF RequestCancel
<1>4. ASSUME NEW r \in Runs, NEW granted \in BOOLEAN, SetAccess(r, granted) PROVE RowsFollow'
  BY <1>4 DEF SetAccess
<1>5. ASSUME ArchiveCase PROVE RowsFollow'
  BY <1>5 DEF ArchiveCase
<1>6. ASSUME RestoreCase PROVE RowsFollow'
  BY <1>6 DEF RestoreCase
<1>7. ASSUME RequestDeletion PROVE RowsFollow'
  BY <1>7 DEF RequestDeletion
<1>8. ASSUME StopRunsForDeletion PROVE RowsFollow'
  BY <1>8 DEF StopRunsForDeletion
<1>9. ASSUME NEW r \in Runs, Publish(r) PROVE RowsFollow'
  BY <1>9 DEF Publish
<1>10. ASSUME NEW r \in Runs, PublishUncommitted(r) PROVE RowsFollow'
  BY <1>10 DEF PublishUncommitted
<1>11. ASSUME NEW r \in Runs, FindStale(r) PROVE RowsFollow'
  BY <1>11 DEF FindStale
<1>12. ASSUME NEW r \in Runs, RequeueStale(r) PROVE RowsFollow'
  BY <1>12 DEF RequeueStale
<1>13. ASSUME NEW w \in Workers, NEW r \in Runs, Receive(w, r) PROVE RowsFollow'
  BY <1>13 DEF Receive
<1>14. ASSUME NEW w \in Workers, ClaimRun(w) PROVE RowsFollow'
  <2> DEFINE r == work[w].run
  <2>1. r \in Runs /\ claims[r] \in Nat
    BY <1>14, LocalTypes DEF ClaimRun
  <2>2. UNCHANGED <<cstat, outbox, followUp, cancel>>
    BY <1>14 DEF ClaimRun
  <2>3. CASE UNCHANGED <<status, claims, token>>
    <3>1. RowsFollow
      OBVIOUS
    <3> HIDE DEF RowsFollow
    <3> QED BY <2>2, <2>3, <3>1, RowsUntouched
  <2>4. CASE /\ status[r] \in Unfinished
             /\ status' = [status EXCEPT ![r] = "running"]
             /\ claims' = [claims EXCEPT ![r] = @ + 1]
             /\ token' = [token EXCEPT ![r] = claims[r] + 1]
    <3>1. RowsFollow /\ TypeOK
      OBVIOUS
    <3> HIDE DEF RowsFollow, TypeOK, IInv
    <3> QED BY <2>1, <2>2, <2>4, <3>1, ClaimFollows
  <2> QED BY <1>14, <2>3, <2>4 DEF ClaimRun, NewToken, Claimable
<1>15. ASSUME NEW w \in Workers, AbandonIfExhausted(w) PROVE RowsFollow'
  <2> DEFINE r == work[w].run
  <2>1. r \in Runs
    BY <1>15, LocalTypes DEF AbandonIfExhausted
  <2>2. CASE status[r] = "running" /\ ApplyFinalStatus(r, Closed(r), "closed", "worker_lost")
    <3>1. RowTypes
      BY DEF RowTypes
    <3>2. Closed(r) \in [Connectors -> Terminal]
      BY <2>1, <3>1, ClosedTypes
    <3> HIDE DEF RowsFollow, IInv
    <3> QED BY <2>1, <2>2, <3>2, RowsEnd
  <2> QED BY <1>15, <2>2 DEF AbandonIfExhausted
<1>16. ASSUME NEW w \in Workers, LeaseLost(w) PROVE RowsFollow'
  BY <1>16 DEF LeaseLost, Holds, Work, WorkersAreConsistent
<1>17. ASSUME NEW w \in Workers, NextConnector(w) PROVE RowsFollow'
  <2>1. /\ RowsFollow /\ UNCHANGED <<status, token, claims, followUp, cstat, outbox>>
        /\ cancel' = cancel \/ \E r \in Runs : cancel' = [cancel EXCEPT ![r] = TRUE]
        /\ cancel \in [Runs -> BOOLEAN]
    BY <1>17 DEF NextConnector, RecordStop, Work, WorkersAreConsistent
  <2>2. \A r \in Runs : cancel[r] => cancel'[r]
    BY Zenon, <2>1, CancelKept
  <2> HIDE DEF RowsFollow
  <2> QED BY <2>1, <2>2, RowsUntouched
<1>18. ASSUME NEW w \in Workers, StartConnector(w) PROVE RowsFollow'
  <2>1. /\ RowsFollow /\ UNCHANGED <<status, token, claims, followUp, cstat, outbox>>
        /\ cancel' = cancel \/ \E r \in Runs : cancel' = [cancel EXCEPT ![r] = TRUE]
        /\ cancel \in [Runs -> BOOLEAN]
    BY <1>18 DEF StartConnector, RecordStop, Work, WorkersAreConsistent
  <2>2. \A r \in Runs : cancel[r] => cancel'[r]
    BY Zenon, <2>1, CancelKept
  <2> HIDE DEF RowsFollow
  <2> QED BY <2>1, <2>2, RowsUntouched
<1>19. ASSUME NEW w \in Workers, MarkRunning(w) PROVE RowsFollow'
  BY <1>19 DEF MarkRunning, RenewLease, Holds, Work, WorkersAreConsistent
<1>20. ASSUME NEW w \in Workers, CheckStop(w) PROVE RowsFollow'
  <2>1. /\ RowsFollow /\ UNCHANGED <<status, token, claims, followUp, cstat, outbox>>
        /\ cancel' = cancel \/ \E r \in Runs : cancel' = [cancel EXCEPT ![r] = TRUE]
        /\ cancel \in [Runs -> BOOLEAN]
    BY <1>20 DEF CheckStop, RecordStop, Work, WorkersAreConsistent
  <2>2. \A r \in Runs : cancel[r] => cancel'[r]
    BY Zenon, <2>1, CancelKept
  <2> HIDE DEF RowsFollow
  <2> QED BY <2>1, <2>2, RowsUntouched
<1>21. ASSUME NEW w \in Workers, CountAttempt(w) PROVE RowsFollow'
  BY <1>21 DEF CountAttempt, RenewLease, Holds, Work, WorkersAreConsistent
<1>22. ASSUME NEW w \in Workers, FetchPage(w) PROVE RowsFollow'
  <2>1. /\ RowsFollow /\ UNCHANGED <<status, token, claims, followUp, cstat, outbox>>
        /\ cancel' = cancel \/ \E r \in Runs : cancel' = [cancel EXCEPT ![r] = TRUE]
        /\ cancel \in [Runs -> BOOLEAN]
    BY <1>22 DEF FetchPage, RecordStop, Work, WorkersAreConsistent
  <2>2. \A r \in Runs : cancel[r] => cancel'[r]
    BY Zenon, <2>1, CancelKept
  <2> HIDE DEF RowsFollow
  <2> QED BY <2>1, <2>2, RowsUntouched
<1>23. ASSUME NEW w \in Workers, CountRetry(w) PROVE RowsFollow'
  BY <1>23 DEF CountRetry, RenewLease, Holds, Work, WorkersAreConsistent
<1>24. ASSUME NEW w \in Workers, PersistPage(w) PROVE RowsFollow'
  BY <1>24 DEF PersistPage, RenewLease, Holds, Work, WorkersAreConsistent
<1>25. ASSUME NEW w \in Workers, WriteErrorCode(w) PROVE RowsFollow'
  BY <1>25 DEF WriteErrorCode, Work, WorkersAreConsistent
<1>26. ASSUME NEW w \in Workers, FinishConnector(w) PROVE RowsFollow'
  BY SMTT(40), <1>26 DEF FinishConnector, RenewLease, Holds, Work, WorkersAreConsistent
<1>27. ASSUME NEW w \in Workers, Finalize(w) PROVE RowsFollow'
  <2> DEFINE r == work[w].run
             cs == [c \in Connectors |-> IF cstat[r][c] \in Unfinished THEN "canceled" ELSE cstat[r][c]]
  <2>1. r \in Runs /\ status[r] = "running"
    BY <1>27 DEF Finalize, Holds
  <2>2. cs \in [Connectors -> Terminal]
    BY <2>1
  <2>3. ApplyFinalStatus(r, cs, "none", err[r])
    BY <1>27 DEF Finalize
  <2> HIDE DEF RowsFollow, IInv, cs
  <2> QED BY <2>1, <2>2, <2>3, RowsEnd
<1>28. ASSUME NEW w \in Workers, FailInternal(w) PROVE RowsFollow'
  <2> DEFINE r == work[w].run
  <2>1. r \in Runs /\ status[r] = "running" /\ ApplyFinalStatus(r, Closed(r), "closed", "internal_error")
    BY <1>28 DEF FailInternal, Holds
  <2>2. RowTypes
    BY DEF RowTypes
  <2>3. Closed(r) \in [Connectors -> Terminal]
    BY <2>1, <2>2, ClosedTypes
  <2> HIDE DEF RowsFollow, IInv
  <2> QED BY <2>1, <2>3, RowsEnd
<1>29. ASSUME NEW w \in Workers, RenewWhileWaiting(w) PROVE RowsFollow'
  BY <1>29 DEF RenewWhileWaiting, RenewLease, Holds
<1>30. ASSUME NEW r \in Runs, LoseMessage(r) PROVE RowsFollow'
  BY <1>30 DEF LoseMessage
<1>31. ASSUME NEW r \in Runs, LeaseExpires(r) PROVE RowsFollow'
  BY <1>31 DEF LeaseExpires
<1>32. ASSUME NEW w \in Workers, Crash(w) PROVE RowsFollow'
  BY <1>32 DEF Crash, Work, WorkersAreConsistent
<1> HIDE DEF RowsFollow, IInv, TypeOK
<1>33. QED
  BY <1>0, <1>1, <1>2, <1>3, <1>4, <1>5, <1>6, <1>7, <1>8, <1>9, <1>10, <1>11, <1>12,
     <1>13, <1>14, <1>15, <1>16, <1>17, <1>18, <1>19, <1>20, <1>21, <1>22,
     <1>23, <1>24, <1>25, <1>26, <1>27, <1>28, <1>29, <1>30, <1>31, <1>32 DEF Next, UserStep, DispatchStep, WorkerStep, Failure

\* The step formula of FinishedIsFinal.
FinishedStays == \A r \in Runs : Finished(r) =>
  /\ UNCHANGED <<token[r], claims[r], cstat[r], stored[r], followUp[r]>>
  /\ \/ UNCHANGED status[r]
     \/ ~PromptCancels /\ status[r]' = "canceled" /\ cancel[r]'

\* No transaction changes the outcome of a finished run: claim_run and the guarded writes
\* of a worker require an unfinished one; a cancel request finds nothing to close in it.
LEMMA FinishedStep == ASSUME IInv, [Next]_vars PROVE FinishedStays
<1> USE RunsAssumption DEF FinishedStays, IInv, TypeOK, Finished, Active, Terminal,
     Unfinished, BeforeClaim, OnConnector, runVars, connectorVars, dispatchVars, envVars, At
<1>0. CASE UNCHANGED vars
  BY <1>0 DEF vars
<1>1. ASSUME NEW r \in Runs, AdmitRun(r) PROVE FinishedStays
  BY <1>1 DEF AdmitRun
<1>2. ASSUME NEW r \in Runs, CreateRun(r) PROVE FinishedStays
  BY <1>2 DEF CreateRun
<1>3. ASSUME NEW r \in Runs, RequestCancel(r) PROVE FinishedStays
  <2>1. /\ UNCHANGED <<token, claims, stored, followUp>>
        /\ cancel' = [cancel EXCEPT ![r] = TRUE]
        /\ \/ UNCHANGED <<status, cstat>>
           \/ /\ ~PromptCancels \/ status[r] = "queued"
              /\ status' = [status EXCEPT ![r] = "canceled"]
              /\ cstat' = [cstat EXCEPT ![r] = [c \in Connectors |->
                             IF cstat[r][c] \in Unfinished THEN "canceled" ELSE cstat[r][c]]]
    BY <1>3 DEF RequestCancel, SeenStatus
  <2>2. /\ cstat \in [Runs -> [Connectors -> ConnectorStatus]]
        /\ Finished(r) => \A c \in Connectors : cstat[r][c] \notin Unfinished
    BY DEF RowsAreConsistent
  <2>3. Finished(r) => cstat'[r] = cstat[r]
    BY <2>1, <2>2
  <2> QED BY <2>1, <2>3
<1>4. ASSUME NEW r \in Runs, NEW granted \in BOOLEAN, SetAccess(r, granted) PROVE FinishedStays
  BY <1>4 DEF SetAccess
<1>5. ASSUME ArchiveCase PROVE FinishedStays
  BY <1>5 DEF ArchiveCase
<1>6. ASSUME RestoreCase PROVE FinishedStays
  BY <1>6 DEF RestoreCase
<1>7. ASSUME RequestDeletion PROVE FinishedStays
  BY <1>7 DEF RequestDeletion
<1>8. ASSUME StopRunsForDeletion PROVE FinishedStays
  BY <1>8 DEF StopRunsForDeletion
<1>9. ASSUME NEW r \in Runs, Publish(r) PROVE FinishedStays
  BY <1>9 DEF Publish
<1>10. ASSUME NEW r \in Runs, PublishUncommitted(r) PROVE FinishedStays
  BY <1>10 DEF PublishUncommitted
<1>11. ASSUME NEW r \in Runs, FindStale(r) PROVE FinishedStays
  BY <1>11 DEF FindStale
<1>12. ASSUME NEW r \in Runs, RequeueStale(r) PROVE FinishedStays
  BY <1>12 DEF RequeueStale
<1>13. ASSUME NEW w \in Workers, NEW r \in Runs, Receive(w, r) PROVE FinishedStays
  BY <1>13 DEF Receive, Idle, Work, WorkersAreConsistent
<1>14. ASSUME NEW w \in Workers, ClaimRun(w) PROVE FinishedStays
  BY <1>14 DEF ClaimRun, NewToken, Claimable, Work, WorkersAreConsistent
<1>15. ASSUME NEW w \in Workers, AbandonIfExhausted(w) PROVE FinishedStays
  <2>1. CASE /\ status[work[w].run] = "running"
             /\ ApplyFinalStatus(work[w].run, Closed(work[w].run), "closed", "worker_lost")
    BY <2>1, LocalTypes DEF ApplyFinalStatus
  <2> QED BY <1>15, <2>1 DEF AbandonIfExhausted
<1>16. ASSUME NEW w \in Workers, LeaseLost(w) PROVE FinishedStays
  BY <1>16 DEF LeaseLost, Idle, Holds, Work, WorkersAreConsistent
<1>17. ASSUME NEW w \in Workers, NextConnector(w) PROVE FinishedStays
  BY <1>17 DEF NextConnector, RecordStop, Work, WorkersAreConsistent
<1>18. ASSUME NEW w \in Workers, StartConnector(w) PROVE FinishedStays
  BY <1>18 DEF StartConnector, RecordStop, Conclude, Work, WorkersAreConsistent
<1>19. ASSUME NEW w \in Workers, MarkRunning(w) PROVE FinishedStays
  BY <1>19 DEF MarkRunning, RenewLease, Holds, Work, WorkersAreConsistent
<1>20. ASSUME NEW w \in Workers, CheckStop(w) PROVE FinishedStays
  BY <1>20 DEF CheckStop, RecordStop, Conclude, Work, WorkersAreConsistent
<1>21. ASSUME NEW w \in Workers, CountAttempt(w) PROVE FinishedStays
  BY <1>21 DEF CountAttempt, RenewLease, Holds, Work, WorkersAreConsistent
<1>22. ASSUME NEW w \in Workers, FetchPage(w) PROVE FinishedStays
  BY <1>22 DEF FetchPage, RecordStop, Conclude, Work, WorkersAreConsistent
<1>23. ASSUME NEW w \in Workers, CountRetry(w) PROVE FinishedStays
  BY <1>23 DEF CountRetry, RenewLease, Holds, Work, WorkersAreConsistent
<1>24. ASSUME NEW w \in Workers, PersistPage(w) PROVE FinishedStays
  BY SMTT(40), <1>24 DEF PersistPage, RenewLease, Holds, Conclude, Work, WorkersAreConsistent
<1>25. ASSUME NEW w \in Workers, WriteErrorCode(w) PROVE FinishedStays
  BY <1>25 DEF WriteErrorCode, Work, WorkersAreConsistent
<1>26. ASSUME NEW w \in Workers, FinishConnector(w) PROVE FinishedStays
  BY <1>26 DEF FinishConnector, RenewLease, Holds, Work, WorkersAreConsistent
<1>27. ASSUME NEW w \in Workers, Finalize(w) PROVE FinishedStays
  BY <1>27 DEF Finalize, ApplyFinalStatus, Idle, Holds, Work, WorkersAreConsistent
<1>28. ASSUME NEW w \in Workers, FailInternal(w) PROVE FinishedStays
  BY <1>28 DEF FailInternal, ApplyFinalStatus, Idle, Holds, Work, WorkersAreConsistent
<1>29. ASSUME NEW w \in Workers, RenewWhileWaiting(w) PROVE FinishedStays
  BY <1>29 DEF RenewWhileWaiting, RenewLease, Holds
<1>30. ASSUME NEW r \in Runs, LoseMessage(r) PROVE FinishedStays
  BY <1>30 DEF LoseMessage
<1>31. ASSUME NEW r \in Runs, LeaseExpires(r) PROVE FinishedStays
  BY <1>31 DEF LeaseExpires
<1>32. ASSUME NEW w \in Workers, Crash(w) PROVE FinishedStays
  BY <1>32 DEF Crash, Idle, Work, WorkersAreConsistent
<1>33. QED
  BY <1>0, <1>1, <1>2, <1>3, <1>4, <1>5, <1>6, <1>7, <1>8, <1>9, <1>10, <1>11, <1>12,
     <1>13, <1>14, <1>15, <1>16, <1>17, <1>18, <1>19, <1>20, <1>21, <1>22,
     <1>23, <1>24, <1>25, <1>26, <1>27, <1>28, <1>29, <1>30, <1>31, <1>32 DEF Next, UserStep, DispatchStep, WorkerStep, Failure

\* Before any run is requested the invariant holds.
LEMMA InitIInv == Init => IInv
<1> SUFFICES ASSUME Init PROVE IInv
  OBVIOUS
<1>1. TypeOK
  <2>1. work \in [Workers -> Work]
    BY IdleWork DEF Init
  <2>2. \A r \in Runs, c \in Connectors : stored[r][c] \in Seq(Nat)
    BY DEF Init
  <2> QED BY <2>1 DEF Init, TypeOK, RunStatus, ConnectorStatus, Unfinished, ErrorCodes,
       StopReasons, OutboxStatus,
              CaseStates
<1>2. WorkersAreConsistent
  BY DEF Init, WorkersAreConsistent, Idle, At, BeforeClaim, OnConnector
<1>3. TokensAreUnique
  BY DEF Init, TokensAreUnique, Idle
<1>4. RowsAreConsistent /\ RowsAreClosed
  BY DEF Init, RowsAreConsistent, RowsAreClosed, RowIsClosed, Finished, Terminal, Active, Unfinished
<1> QED BY <1>1, <1>2, <1>3, <1>4 DEF IInv

\* Every transaction keeps the invariant.
LEMMA InvStep == IInv /\ [Next]_vars => IInv'
<1> SUFFICES ASSUME IInv, [Next]_vars PROVE IInv'
  OBVIOUS
<1>1. TypeOK'
  BY WorkTypeStep, RowTypesStep DEF RowTypes, TypeOK
<1> QED BY <1>1, WorkersStep, RowsStep DEF IInv, RowsFollow

\* The inductive invariant holds of every behaviour, for any number of runs, workers and
\* connectors and any limits.
THEOREM Invariance == Spec => []IInv
  BY InitIInv, InvStep, PTL DEF Spec

\* Every variable keeps its type.
THEOREM TypeCorrect == Spec => []TypeOK
<1>1. IInv => TypeOK
  BY DEF IInv
<1> QED BY Invariance, <1>1, PTL

\* Mutual exclusion of the workers on a run: whatever expires, is redelivered or renewed,
\* at most one worker passes the lease check of _renew, _finalize and _fail_internal.
THEOREM OneHolderAlways == Spec => []OneHolder
<1>1. IInv => OneHolder
  <2> SUFFICES ASSUME IInv, NEW v \in Workers, NEW w \in Workers,
                      Holds(v), Holds(w), work[v].run = work[w].run
               PROVE  v = w
    BY DEF OneHolder
  <2>1. work[v].tok = work[w].tok /\ work[v].tok # 0
    BY DEF Holds, IInv, RowsAreConsistent, TypeOK
  <2> QED BY <2>1 DEF IInv, TokensAreUnique
<1> QED BY Invariance, <1>1, PTL

\* A finished run has only finished connectors; it has given up its lease and was handed to
\* change detection and its monitor exactly when a worker executed it, unless a cancel request
\* that decided on an old status interrupted it.
THEOREM FinishedRunIsClosedAlways == Spec => []FinishedRunIsClosed
<1>1. IInv => FinishedRunIsClosed
  BY DEF IInv, TypeOK, RowsAreConsistent, RowsAreClosed, RowIsClosed, FinishedRunIsClosed,
         Interrupted, Finished, Terminal, Active, Unfinished, RunStatus
<1> QED BY Invariance, <1>1, PTL

\* The dispatcher can always find an unfinished run again: its outbox row is never done.
THEOREM NeverForgottenAlways == Spec => []NeverForgotten
<1>1. IInv => NeverForgotten
  BY DEF IInv, RowsAreConsistent, NeverForgotten
<1> QED BY Invariance, <1>1, PTL

\* The outcome of a finished run is never rewritten, by whatever late worker; a cancel request
\* that decided on an old status changes its status, and only that.
THEOREM FinishedIsFinalAlways == Spec => FinishedIsFinal
<1>1. IInv /\ [Next]_vars => [FinishedStays]_vars
  BY FinishedStep
<1> QED BY Invariance, <1>1, PTL DEF Spec, FinishedIsFinal, FinishedStays

-----------------------------------------------------------------------------
(* Pages, attempts and stops.  A worker that holds the lease of its run is the only one that   *)
(* stores pages of it and counts attempts at them; what a worker remembers of the pages is at  *)
(* most out of date, and then it does not hold the lease.                                      *)

\* The page that follows the n pages stored before, as the cursor names it: SourcePages[c] when
\* the last one left no cursor.
CursorAfter(n, c) == IF n = 0 THEN 0 ELSE ((n - 1) % SourcePages[c]) + 1

\* What a worker remembers of the pages of its connector run.
Remembers(w) ==
  LET L == work[w] IN
  /\ L.pc \in {"idle", "claim", "next", "start"} => L.idx = 0
  /\ L.pc \in OnConnector => L.idx <= Len(stored[L.run][L.at])
  /\ L.pc = "fetch" => L.page = CursorAfter(L.idx, L.at)
  /\ L.pc = "persist" => L.page = L.idx % SourcePages[L.at]
  /\ L.pc \in {"code", "finish"} /\ L.verdict.status = "completed"
       => Len(stored[L.run][L.at]) >= SourcePages[L.at]

\* A worker that holds the lease knows every page; it has an attempt left at each connector that it
\* has not reached, and stores nothing once a page was late.
BeforeAttempt == {"next", "start", "mark", "check", "attempt", "retry"}
HoldsAll(w) ==
  LET L == work[w] IN
  Holds(w) =>
    /\ L.pc \in {"check", "attempt", "fetch", "retry", "persist"} => L.idx = Len(stored[L.run][L.at])
    /\ L.pc \notin BeforeClaim =>
         \A c \in Connectors : c > L.at \/ (c = L.at /\ L.pc \in BeforeAttempt)
           => tries[L.run][c] + 1 < MaxAttempts + claims[L.run]
    /\ late[L.run] # 0 => L.pc \notin {"attempt", "fetch", "persist"}

\* The rows: attempts are paid by claims, a page is late once and only while there is a reason to stop, and
\* what is completed has every page of its source.
RowsOfPages ==
  \A r \in Runs :
    /\ claims[r] <= MaxClaims
    /\ late[r] # 0 => late[r] = 1 /\ MustStop(r)
    /\ status[r] \in {"none", "requested"} => ~cancel[r]
    /\ status[r] = "completed" => \A c \in Connectors : cstat[r][c] = "completed"
    /\ \A c \in Connectors :
         /\ tries[r][c] + 1 <= MaxAttempts + claims[r]
         /\ cstat[r][c] = "completed" => Len(stored[r][c]) >= SourcePages[c]

PInv == /\ PagesInOrder /\ RowsOfPages
        /\ \A w \in Workers : Remembers(w) /\ HoldsAll(w)

-----------------------------------------------------------------------------
\* The remainders of the numbers in order.
LEMMA Multiples ==
  ASSUME NEW S \in Nat \ {0}, NEW a \in Nat, NEW b \in Nat, a < b
  PROVE  S * a + S <= S * b
<1>1. PICK d \in Nat : b = a + 1 + d
  <2>1. b - (a + 1) \in Nat /\ b = a + 1 + (b - (a + 1))
    OBVIOUS
  <2> QED BY <2>1
<1>2. S * (a + 1 + d) = S * a + S + S * d /\ S * d \in Nat /\ S * a \in Nat
  OBVIOUS
<1> QED BY <1>1, <1>2

\* Equal numbers have equal remainders, whatever the quotients are called.
LEMMA Quotients ==
  ASSUME NEW S \in Nat \ {0}, NEW p \in Nat, NEW q \in Nat, NEW x \in 0 .. S - 1, NEW y \in 0 .. S - 1,
         S * p + x = S * q + y
  PROVE  x = y
<1>0. S * p \in Nat /\ S * q \in Nat
  OBVIOUS
<1>1. CASE p < q
  BY <1>0, <1>1, Multiples
<1>2. CASE q < p
  BY <1>0, <1>2, Multiples
<1> QED BY <1>1, <1>2

\* The remainder of the next number: one more, or zero after the last.
LEMMA Remainders ==
  ASSUME NEW n \in Nat, NEW S \in Nat \ {0}
  PROVE  /\ n % S \in 0 .. S - 1
         /\ (n + 1) % S = IF (n % S) + 1 < S THEN (n % S) + 1 ELSE 0
         /\ n < S => n % S = n
         /\ (n % S) + 1 >= S => n + 1 >= S
<1>1. \A m \in Nat : m % S \in 0 .. S - 1 /\ m = S * (m \div S) + (m % S) /\ m \div S \in Nat
  OBVIOUS
<1> DEFINE q == n \div S
           x == n % S
           p == (n + 1) \div S
           y == (n + 1) % S
<1>2. /\ q \in Nat /\ x \in 0 .. S - 1 /\ n = S * q + x
      /\ p \in Nat /\ y \in 0 .. S - 1 /\ n + 1 = S * p + y
  BY <1>1
<1>3. n < S => n % S = n
  <2> SUFFICES ASSUME n < S PROVE n % S = n
    OBVIOUS
  <2>1. n \in 0 .. S - 1 /\ S * 0 + n = S * q + x
    BY <1>2
  <2> HIDE DEF q, x
  <2>2. n = x
    BY <1>2, <2>1, Quotients
  <2> QED BY <2>2 DEF x
<1> HIDE DEF q, x, p, y
<1>4. CASE x + 1 < S
  <2>1. x + 1 \in 0 .. S - 1 /\ S * q + (x + 1) = S * p + y
    <3>1. S * q \in Nat /\ S * p \in Nat
      BY <1>2
    <3> QED BY <1>2, <1>4, <3>1
  <2>2. y = x + 1
    BY <1>2, <2>1, Quotients
  <2> QED BY <1>2, <1>3, <1>4, <2>2 DEF x, y
<1>5. CASE x + 1 = S
  <2>1. S * (q + 1) = S * q + S /\ S * q \in Nat /\ S * p \in Nat
    BY <1>2
  <2>2. 0 \in 0 .. S - 1 /\ q + 1 \in Nat /\ S * (q + 1) + 0 = S * p + y
    BY <1>2, <1>5, <2>1
  <2>3. y = 0
    BY <1>2, <2>2, Quotients
  <2> QED BY <1>2, <1>3, <1>5, <2>1, <2>3 DEF x, y
<1> QED BY <1>2, <1>4, <1>5

-----------------------------------------------------------------------------
\* The page a worker brings is stored, under its lease.
Stores(w) ==
  LET r == work[w].run
      c == work[w].at IN
  /\ At(w, "persist") /\ Holds(w)
  /\ Len(stored[r][c]) <= work[w].idx
  /\ stored' = [stored EXCEPT ![r][c] = Append(@, work[w].page)]
  /\ tries' = [tries EXCEPT ![r][c] = 0]
  /\ late' = [late EXCEPT ![r] = IF MustStop(r) THEN @ + 1 ELSE @]

\* Who writes pages, attempts and late pages.
LEMMA PageKinds ==
  ASSUME IInv, [Next]_vars
  PROVE  \/ UNCHANGED <<stored, tries, late, access>>
         \/ \E r \in Runs, granted \in BOOLEAN : SetAccess(r, granted)
         \/ \E w \in Workers : CountAttempt(w)
         \/ \E w \in Workers : PersistPage(w) /\ Stores(w)
<1> USE DEF runVars, connectorVars, dispatchVars, envVars
<1>0. CASE UNCHANGED vars
  BY <1>0 DEF vars
<1>1. CASE UserStep
  BY <1>1 DEF UserStep, AdmitRun, CreateRun, RequestCancel, ArchiveCase, RestoreCase, RequestDeletion,
       StopRunsForDeletion
<1>2. CASE DispatchStep
  BY <1>2 DEF DispatchStep, Publish, PublishUncommitted, FindStale, RequeueStale
<1>3. ASSUME NEW w \in Workers, PersistPage(w) PROVE UNCHANGED <<stored, tries, late, access>> \/ Stores(w)
  <2>1. ~(Len(stored[work[w].run][work[w].at]) > work[w].idx)
           => Len(stored[work[w].run][work[w].at]) <= work[w].idx
    BY SMTT(40), <1>3, LocalTypes DEF PersistPage, At, OnConnector, IInv, TypeOK, Work
  <2> QED BY <1>3, <2>1 DEF PersistPage, Stores
<1>4. ASSUME NEW w \in Workers, WorkerStep(w), ~CountAttempt(w), ~PersistPage(w)
      PROVE  UNCHANGED <<stored, tries, late, access>>
  BY <1>4 DEF WorkerStep, ClaimRun, AbandonIfExhausted, LeaseLost, NextConnector, StartConnector, MarkRunning,
       CheckStop, FetchPage, CountRetry, WriteErrorCode, FinishConnector, Finalize, FailInternal, ApplyFinalStatus
<1>5. CASE Failure
  BY <1>5 DEF Failure, LoseMessage, LeaseExpires, Crash
<1>6. ASSUME NEW w \in Workers, RenewWhileWaiting(w) \/ \E r \in Runs : Receive(w, r)
      PROVE  UNCHANGED <<stored, tries, late, access>>
  BY <1>6 DEF RenewWhileWaiting, Receive
<1> QED BY <1>0, <1>1, <1>2, <1>3, <1>4, <1>5, <1>6 DEF Next

\* Pages are only added.
LEMMA PagesGrow ==
  ASSUME IInv, [Next]_vars, NEW r \in Runs, NEW c \in Connectors
  PROVE  Len(stored'[r][c]) \in Nat /\ Len(stored[r][c]) \in Nat /\ Len(stored'[r][c]) >= Len(stored[r][c])
<1>1. stored[r][c] \in Seq(Nat) /\ stored \in [Runs -> [Connectors -> Seq(Nat)]]
  BY DEF IInv, TypeOK
<1>2. ASSUME NEW w \in Workers, Stores(w)
      PROVE  Len(stored'[r][c]) >= Len(stored[r][c]) /\ Len(stored'[r][c]) \in Nat
  <2>1. work[w].run \in Runs /\ work[w].at \in Connectors /\ work[w].page \in Nat
    BY <1>2, LocalTypes DEF Stores, At, OnConnector
  <2> QED BY SMTT(40), <1>1, <1>2, <2>1 DEF Stores
<1>3. CASE UNCHANGED stored
  BY <1>1, <1>3
<1>4. \/ UNCHANGED stored
      \/ \E w \in Workers : Stores(w)
  BY PageKinds DEF SetAccess, CountAttempt, connectorVars
<1> QED BY <1>2, <1>3, <1>4

\* What a step does to the locals of one worker.
LEMMA WorkerKinds ==
  ASSUME IInv, [Next]_vars, NEW w \in Workers
  PROVE  \/ work'[w] = work[w]
         \/ \E r \in Runs : Receive(w, r)
         \/ WorkerStep(w)
         \/ Crash(w)
<1>0. work \in [Workers -> Work]
  BY DEF IInv, TypeOK
<1>1. ASSUME NEW v \in Workers, \E locals : Becomes(v, locals), v # w PROVE work'[w] = work[w]
  BY <1>0, <1>1 DEF Becomes
<1>2. CASE UNCHANGED vars \/ UserStep \/ DispatchStep
  BY SMTT(40), <1>2 DEF vars, UserStep, AdmitRun, CreateRun, RequestCancel, SetAccess, ArchiveCase, RestoreCase,
       RequestDeletion, StopRunsForDeletion, DispatchStep, Publish, PublishUncommitted, FindStale, RequeueStale
<1>3. ASSUME NEW v \in Workers, (\E r \in Runs : Receive(v, r)) \/ Crash(v) \/ WorkerStep(v) \/ RenewWhileWaiting(v)
      PROVE  \/ work' = work \/ \E locals : Becomes(v, locals)
  BY <1>3 DEF Receive, Crash, RenewWhileWaiting, WorkerStep, ClaimRun, AbandonIfExhausted, LeaseLost, NextConnector,
       StartConnector, MarkRunning, CheckStop, CountAttempt, FetchPage, CountRetry, PersistPage, WriteErrorCode,
       FinishConnector, Finalize, FailInternal, Conclude
<1>4. ASSUME NEW r \in Runs, LoseMessage(r) \/ LeaseExpires(r) PROVE work' = work
  BY <1>4 DEF LoseMessage, LeaseExpires
<1>5. RenewWhileWaiting(w) => work' = work
  BY DEF RenewWhileWaiting
<1> QED BY <1>1, <1>2, <1>3, <1>4, <1>5 DEF Next, Failure

\* What a step does to the row of a run and to those of its connectors.
RowMoves(r) ==
  /\ cancel[r] => cancel'[r]
  /\ status'[r] \in {"none", "requested"} => status[r] \in {"none", "requested"} /\ cancel'[r] = cancel[r]
  /\ status'[r] = "running"
       => \/ status[r] = "running" /\ claims'[r] = claims[r]
          \/ \E v \in Workers : ClaimRun(v) /\ work[v].run = r /\ Claimable(r)
  /\ claims'[r] # claims[r] => Claimable(r) /\ claims'[r] = claims[r] + 1
  /\ status'[r] = "completed" /\ status[r] # "completed" => \A c \in Connectors : cstat'[r][c] = "completed"
  /\ status[r] = "completed" => cstat'[r] = cstat[r]
  /\ \A c \in Connectors :
       cstat'[r][c] = "completed" /\ cstat[r][c] # "completed"
         => \E w \in Workers : /\ FinishConnector(w) /\ work[w].run = r /\ work[w].at = c
                               /\ work[w].verdict.status = "completed"

\* A worker on a connector works on a run that was claimed.
LEMMA ClaimedRun ==
  ASSUME IInv, NEW w \in Workers, work[w].pc \notin BeforeClaim
  PROVE  work[w].run \in Runs /\ status[work[w].run] \in Terminal \cup {"running"}
<1>1. work[w].run \in Runs /\ claims[work[w].run] \in Nat /\ work[w].tok \in 1 .. claims[work[w].run]
  BY LocalTypes DEF IInv, TypeOK, WorkersAreConsistent, BeforeClaim
<1>2. status[work[w].run] \in RunStatus /\ claims[work[w].run] # 0
  BY <1>1 DEF IInv, TypeOK
<1> QED BY <1>1, <1>2 DEF IInv, RowsAreConsistent, RunStatus, Unfinished

\* Every transaction moves the row of a run in one of these ways.
LEMMA RowKinds == ASSUME IInv, [Next]_vars, NEW r \in Runs PROVE RowMoves(r)
<1> USE DEF runVars, connectorVars, dispatchVars, envVars, RowMoves, At
<1>0. /\ status \in [Runs -> RunStatus] /\ cancel \in [Runs -> BOOLEAN] /\ claims \in [Runs -> Nat]
      /\ cstat \in [Runs -> [Connectors -> ConnectorStatus]]
  BY DEF IInv, TypeOK
<1>u. CASE UNCHANGED <<status, cancel, claims, cstat>>
  BY <1>0, <1>u
<1>1. ASSUME NEW q \in Runs, AdmitRun(q) \/ CreateRun(q) PROVE RowMoves(r)
  BY <1>0, <1>1 DEF AdmitRun, CreateRun
<1>2. ASSUME NEW q \in Runs, RequestCancel(q) PROVE RowMoves(r)
  <2>1. /\ cancel' = [cancel EXCEPT ![q] = TRUE] /\ UNCHANGED claims
        /\ status[q] \notin {"none", "requested"}
    BY <1>2 DEF RequestCancel
  <2>2. CASE UNCHANGED <<status, cstat>>
    BY <1>0, <2>1, <2>2
  <2>3. CASE /\ status[q] \notin {"none", "requested"}
             /\ status' = [status EXCEPT ![q] = "canceled"]
             /\ cstat' = [cstat EXCEPT ![q] = [c \in Connectors |->
                           IF cstat[q][c] \in Unfinished THEN "canceled" ELSE cstat[q][c]]]
    <3>1. CASE r # q
      BY <1>0, <2>1, <2>3, <3>1
    <3>2. CASE r = q
      <4>1. \A c \in Connectors : cstat'[r][c] = "completed" => cstat[r][c] = "completed"
        BY <1>0, <2>3, <3>2
      <4>2. status[r] = "completed" => cstat'[r] = cstat[r]
        <5>1. \A c \in Connectors : status[r] = "completed" => cstat[r][c] \notin Unfinished
          BY DEF IInv, RowsAreConsistent, Finished, Terminal, Unfinished
        <5> QED BY <1>0, <2>3, <3>2, <5>1
      <4> QED BY <1>0, <2>1, <2>3, <3>2, <4>1, <4>2
    <3> QED BY <3>1, <3>2
  <2> QED BY <1>2, <2>2, <2>3 DEF RequestCancel
<1>3. CASE StopRunsForDeletion
  <2>1. /\ UNCHANGED claims
        /\ cancel[r] => cancel'[r]
        /\ status[r] \in {"none", "requested"} => cancel'[r] = cancel[r]
        /\ status'[r] = IF status[r] = "queued" THEN "canceled" ELSE status[r]
        /\ cstat'[r] = IF status[r] = "queued" THEN [c \in Connectors |-> "canceled"] ELSE cstat[r]
    BY SMTT(40), <1>0, <1>3 DEF StopRunsForDeletion, Active, Unfinished
  <2> QED BY <1>0, <2>1
<1>4. ASSUME NEW w \in Workers, ClaimRun(w) PROVE RowMoves(r)
  <2> DEFINE q == work[w].run
  <2>1. q \in Runs
    BY <1>4, LocalTypes DEF ClaimRun
  <2>2. UNCHANGED <<cancel, cstat>>
    BY <1>4 DEF ClaimRun
  <2>3. CASE UNCHANGED <<status, claims>>
    BY <1>0, <2>2, <2>3
  <2>4. CASE /\ Claimable(q)
             /\ status' = [status EXCEPT ![q] = "running"]
             /\ claims' = [claims EXCEPT ![q] = @ + 1]
    <3>1. CASE q = r
      BY <1>0, <1>4, <2>1, <2>2, <2>4, <3>1
    <3>2. CASE q # r
      BY <1>0, <2>1, <2>2, <2>4, <3>2
    <3> QED BY <3>1, <3>2
  <2> QED BY <1>4, <2>3, <2>4 DEF ClaimRun
<1>5. ASSUME NEW w \in Workers, NEW q \in Runs, NEW cs \in [Connectors -> Terminal], NEW reason, NEW e,
             ApplyFinalStatus(q, cs, reason, e), status[q] = "running",
             \A c \in Connectors : cs[c] = "completed" => cstat[q][c] = "completed"
      PROVE  RowMoves(r)
  <2>1. /\ cstat' = [cstat EXCEPT ![q] = cs] /\ status' = [status EXCEPT ![q] = FinalStatus(q, cs)]
        /\ UNCHANGED <<cancel, claims>>
    BY <1>5 DEF ApplyFinalStatus
  <2>2. /\ FinalStatus(q, cs) \notin {"running", "none", "requested"}
        /\ FinalStatus(q, cs) = "completed" => \A c \in Connectors : cs[c] = "completed"
    BY DEF FinalStatus
  <2>3. CASE q # r
    BY <1>0, <2>1, <2>3
  <2>4. CASE q = r
    BY <1>0, <1>5, <2>1, <2>2, <2>4
  <2> QED BY <2>3, <2>4
<1>6. \A q \in Runs : /\ Closed(q) \in [Connectors -> Terminal]
                      /\ \A c \in Connectors : Closed(q)[c] = "completed" => cstat[q][c] = "completed"
  <2>1. RowTypes
    BY DEF IInv, TypeOK, RowTypes
  <2> QED BY <2>1, ClosedTypes DEF Closed, Cut
<1>7. ASSUME NEW w \in Workers, AbandonIfExhausted(w) PROVE RowMoves(r)
  <2>1. work[w].run \in Runs
    BY <1>7, LocalTypes DEF AbandonIfExhausted
  <2> QED BY <1>5, <1>6, <1>7, <1>u, <2>1 DEF AbandonIfExhausted, StopReasons, ErrorCodes
<1>8. ASSUME NEW w \in Workers, Finalize(w) PROVE RowMoves(r)
  <2> DEFINE q == work[w].run
             cs == [c \in Connectors |-> IF cstat[q][c] \in Unfinished THEN "canceled" ELSE cstat[q][c]]
  <2>1. q \in Runs /\ status[q] = "running"
    BY <1>8 DEF Finalize, Holds
  <2>2. cs \in [Connectors -> Terminal] /\ \A c \in Connectors : cs[c] = "completed" => cstat[q][c] = "completed"
    BY <1>0, <2>1 DEF ConnectorStatus, Unfinished, Terminal
  <2>3. ApplyFinalStatus(q, cs, "none", err[q])
    BY <1>8 DEF Finalize
  <2> HIDE DEF cs
  <2> QED BY <1>5, <2>1, <2>2, <2>3
<1>9. ASSUME NEW w \in Workers, FailInternal(w) PROVE RowMoves(r)
  BY <1>5, <1>6, <1>9 DEF FailInternal, Holds
<1>10. ASSUME NEW w \in Workers, NextConnector(w) \/ StartConnector(w) \/ CheckStop(w) \/ FetchPage(w)
       PROVE  RowMoves(r)
  <2>1. UNCHANGED <<status, claims, cstat>>
    BY <1>10 DEF NextConnector, StartConnector, CheckStop, FetchPage
  <2>2. cancel' = cancel \/ RecordStop(work[w].run)
    BY <1>10 DEF NextConnector, StartConnector, CheckStop, FetchPage
  <2>3. work[w].pc \notin BeforeClaim
    BY <1>10 DEF NextConnector, StartConnector, CheckStop, FetchPage, BeforeClaim
  <2>4. status[work[w].run] \notin {"none", "requested"}
    BY <2>3, ClaimedRun DEF Terminal
  <2> QED BY <1>0, <2>1, <2>2, <2>4 DEF RecordStop
<1>11. ASSUME NEW w \in Workers, MarkRunning(w) \/ FinishConnector(w) PROVE RowMoves(r)
  <2> DEFINE q == work[w].run
             d == work[w].at
  <2>1. q \in Runs /\ d \in Connectors /\ status[q] = "running"
    BY <1>11, LocalTypes DEF MarkRunning, FinishConnector, Holds, OnConnector
  <2>2. UNCHANGED <<status, cancel, claims>>
    BY <1>11 DEF MarkRunning, FinishConnector
  <2>3. CASE MarkRunning(w)
    <3>1. cstat' = [cstat EXCEPT ![q][d] = "running"]
      BY <2>3 DEF MarkRunning
    <3> QED BY <1>0, <2>1, <2>2, <3>1
  <2>4. CASE FinishConnector(w)
    <3>1. cstat' = [cstat EXCEPT ![q][d] = work[w].verdict.status]
      BY <2>4 DEF FinishConnector
    <3>2. \A c \in Connectors : cstat'[r][c] # cstat[r][c] => q = r /\ d = c /\ cstat'[r][c] = work[w].verdict.status
      BY SMTT(40), <1>0, <2>1, <3>1
    <3> QED BY <1>0, <2>1, <2>2, <2>4, <3>1, <3>2
  <2> QED BY <1>11, <2>3, <2>4
<1>12. ASSUME NEW w \in Workers,
              \/ LeaseLost(w) \/ CountAttempt(w) \/ CountRetry(w) \/ PersistPage(w) \/ WriteErrorCode(w)
              \/ RenewWhileWaiting(w) \/ Crash(w) \/ \E q \in Runs : Receive(w, q)
       PROVE  UNCHANGED <<status, cancel, claims, cstat>>
  BY <1>12 DEF LeaseLost, CountAttempt, CountRetry, PersistPage, WriteErrorCode, RenewWhileWaiting, Crash, Receive
<1>13. ASSUME NEW q \in Runs,
              \/ \E granted \in BOOLEAN : SetAccess(q, granted)
              \/ Publish(q) \/ PublishUncommitted(q) \/ FindStale(q) \/ RequeueStale(q)
              \/ LoseMessage(q) \/ LeaseExpires(q)
       PROVE  UNCHANGED <<status, cancel, claims, cstat>>
  BY <1>13 DEF SetAccess, Publish, PublishUncommitted, FindStale, RequeueStale, LoseMessage, LeaseExpires
<1>14. ASSUME ArchiveCase \/ RestoreCase \/ RequestDeletion \/ UNCHANGED vars
       PROVE  UNCHANGED <<status, cancel, claims, cstat>>
  BY <1>14 DEF ArchiveCase, RestoreCase, RequestDeletion, vars
<1> HIDE DEF RowMoves
<1> QED BY <1>u, <1>1, <1>2, <1>3, <1>4, <1>7, <1>8, <1>9, <1>10, <1>11, <1>12, <1>13, <1>14
        DEF Next, UserStep, DispatchStep, WorkerStep, Failure

\* A worker that holds a lease after a step held it before, or has just claimed the run.
LEMMA HoldersStay ==
  ASSUME IInv, [Next]_vars, NEW w \in Workers, Holds(w)'
  PROVE  \/ /\ Holds(w)
            /\ work'[w].run = work[w].run /\ work'[w].tok = work[w].tok /\ work[w].tok # 0
            /\ claims'[work[w].run] = claims[work[w].run]
         \/ ClaimRun(w) /\ Claimable(work[w].run) /\ work[w].run \in Runs
<1> DEFINE r == work'[w].run
<1>0. work \in [Workers -> Work] /\ claims \in [Runs -> Nat] /\ IInv'
  BY InvStep DEF IInv, TypeOK
<1>1. r \in Runs /\ status'[r] = "running" /\ token'[r] = work'[w].tok
  BY DEF Holds
<1>2. work'[w].tok = claims'[r] /\ claims'[r] > 0
  BY <1>0, <1>1 DEF IInv, RowsAreConsistent
<1>3. WorkersAreConsistent /\ RowsAreConsistent
  BY DEF IInv
<1>4. CASE \E v \in Workers : ClaimRun(v) /\ work[v].run = r /\ Claimable(r)
  <2> PICK v \in Workers : ClaimRun(v) /\ work[v].run = r /\ Claimable(r)
    BY <1>4
  <2>1. CASE v = w
    BY <1>1, <2>1
  <2>2. CASE v # w
    <3>1. work'[w] = work[w]
      BY <1>0, <2>2 DEF ClaimRun, Becomes
    <3>2. claims'[r] = claims[r] + 1
      BY <1>0, <1>1 DEF ClaimRun
    <3>3. work[w].tok <= claims[r]
      BY <1>0, <1>1, <1>2, <1>3, <3>1, <3>2 DEF WorkersAreConsistent
    <3> QED BY <1>0, <1>1, <1>2, <3>1, <3>2, <3>3
  <2> QED BY <2>1, <2>2
<1>5. CASE status[r] = "running" /\ claims'[r] = claims[r]
  <2>1. work'[w].tok = token[r] /\ token[r] # 0
    BY <1>0, <1>1, <1>2, <1>3, <1>5 DEF RowsAreConsistent
  <2>2. CASE work'[w].run = work[w].run /\ work'[w].tok = work[w].tok
    BY <1>1, <1>5, <2>1, <2>2 DEF Holds
  <2>3. ASSUME NEW v \in Workers, NEW locals, Becomes(v, locals), v # w PROVE work'[w] = work[w]
    BY <1>0, <2>3 DEF Becomes
  <2>4. ASSUME NEW v \in Workers, Continues(v) PROVE work'[w].run = work[w].run /\ work'[w].tok = work[w].tok
    BY <1>0, <2>4 DEF Continues, Becomes, Follows
  <2>5. ASSUME NEW v \in Workers, Rests(v) PROVE work'[w] = work[w]
    BY <1>0, <2>1, <2>5 DEF Rests, Becomes, Idle
  <2>6. ASSUME NEW v \in Workers, NEW q \in Runs, Receive(v, q) PROVE work'[w] = work[w]
    BY <1>0, <2>1, <2>6 DEF Receive, Becomes, Idle
  <2>7. ASSUME NEW v \in Workers, ClaimRun(v), v = w => ~Claimable(work[w].run)
        PROVE  work'[w].run = work[w].run /\ work'[w].tok = work[w].tok
    BY <1>0, <2>7 DEF ClaimRun, Becomes, Work
  <2>8. ClaimRun(w) => work[w].run \in Runs
    BY LocalTypes DEF ClaimRun, At
  <2> QED BY <2>2, <2>4, <2>5, <2>6, <2>7, <2>8, StepKinds
<1> HIDE DEF r
<1> QED BY <1>1, <1>4, <1>5, RowKinds DEF RowMoves, r

\* What a worker remembers of its pages stays true while other workers store more of them.
LEMMA RemembersStep ==
  ASSUME IInv, PInv, [Next]_vars, NEW w \in Workers
  PROVE  Remembers(w)'
<1> DEFINE L == work[w]
           M == work'[w]
           r == L.run
           c == L.at
<1>0. /\ work \in [Workers -> Work] /\ M \in Work /\ L \in Work
      /\ L.pc # "idle" => r \in Runs
      /\ L.pc \in OnConnector => c \in Connectors
      /\ L.idx \in Nat /\ L.page \in Nat
  BY WorkTypeStep, LocalTypes DEF IInv, TypeOK, Work
<1>1. Remembers(w)
  BY DEF PInv
<1>2. \A q \in Runs, d \in Connectors :
        /\ Len(stored[q][d]) \in Nat /\ Len(stored'[q][d]) \in Nat
        /\ Len(stored'[q][d]) >= Len(stored[q][d])
  BY PagesGrow
<1>3. \A d \in Connectors : SourcePages[d] \in Nat \ {0}
  BY RunsAssumption
<1>4. ASSUME NEW N, Becomes(w, N) PROVE M = N
  BY <1>0, <1>4 DEF Becomes
<1>5. L.pc \in OnConnector => r \in Runs
  BY <1>0 DEF OnConnector
<1>6. L.pc \in OnConnector => L.idx <= Len(stored[r][c]) /\ L.idx <= Len(stored'[r][c])
  BY <1>0, <1>1, <1>2, <1>5 DEF Remembers
<1> USE DEF At, OnConnector, BeforeClaim
<1>25. \A n \in Nat, S \in Nat \ {0} :
         /\ n % S \in Nat
         /\ (n + 1) % S = IF (n % S) + 1 < S THEN (n % S) + 1 ELSE 0
         /\ (n % S) + 1 >= S => n + 1 >= S
  <2> SUFFICES ASSUME NEW n \in Nat, NEW S \in Nat \ {0}
               PROVE  /\ n % S \in Nat
                      /\ (n + 1) % S = IF (n % S) + 1 < S THEN (n % S) + 1 ELSE 0
                      /\ (n % S) + 1 >= S => n + 1 >= S
    OBVIOUS
  <2>1. n % S \in 0 .. S - 1 => n % S \in Nat
    OBVIOUS
  <2> QED BY <2>1, Remainders
<1>7. CASE M = L
  <2>1. L.pc \in {"code", "finish"} /\ L.verdict.status = "completed" => Len(stored'[r][c]) >= SourcePages[c]
    BY <1>0, <1>1, <1>2, <1>3, <1>5 DEF Remembers
  <2> QED BY <1>1, <1>6, <1>7, <2>1 DEF Remembers
<1>8. CASE M.pc \in {"idle", "claim", "abandon", "next", "start"} /\ M.idx = 0
  BY SMTT(40), <1>0, <1>2, <1>8, WorkersStep DEF Remembers, WorkersAreConsistent
<1>9. CASE M.pc \in {"finalize", "failing"}
  BY <1>9 DEF Remembers
\* The worker stays on its connector run with the pages it knew, and concludes no complete one.
<1>10. CASE /\ L.pc \in OnConnector /\ M.run = r /\ M.at = c /\ M.idx = L.idx
            /\ M.pc \in {"mark", "check", "attempt", "retry", "code", "finish"}
            /\ M.pc \in {"code", "finish"} => M.verdict.status # "completed"
  BY <1>6, <1>10 DEF Remembers
<1>11. ASSUME NEW q \in Runs, Receive(w, q) PROVE Remembers(w)'
  <2>1. M = [Idle EXCEPT !.pc = "claim", !.run = q]
    BY <1>4, <1>11 DEF Receive
  <2> QED BY <1>8, <2>1 DEF Idle
<1>12. CASE M = Idle
  BY <1>8, <1>12 DEF Idle
<1>13. CASE Crash(w) \/ AbandonIfExhausted(w) \/ LeaseLost(w) \/ Finalize(w) \/ FailInternal(w)
  BY <1>4, <1>12, <1>13 DEF Crash, AbandonIfExhausted, LeaseLost, Finalize, FailInternal
<1>14. CASE ClaimRun(w)
  <2>1. L.pc = "claim" /\ L.idx = 0
    BY <1>1, <1>14 DEF ClaimRun, Remembers
  <2>2. \/ M = [L EXCEPT !.pc = "next", !.tok = NewToken(r)]
        \/ M = [L EXCEPT !.pc = "abandon"]
    BY <1>4, <1>14 DEF ClaimRun
  <2>3. M.pc \in {"next", "abandon"} /\ M.idx = L.idx
    BY <1>0, <2>2 DEF Work
  <2> QED BY <1>8, <2>1, <2>3
<1>15. CASE NextConnector(w)
  <2>1. L.pc = "next" /\ L.idx = 0
    BY <1>1, <1>15 DEF NextConnector, Remembers
  <2>2. M = [L EXCEPT !.pc = "finalize"] \/ M = [L EXCEPT !.pc = "start"]
    BY <1>4, <1>15 DEF NextConnector
  <2> QED BY <1>0, <1>8, <1>9, <2>1, <2>2 DEF Work
<1>16. CASE StartConnector(w)
  <2>1. L.pc = "start" /\ L.idx = 0
    BY <1>1, <1>16 DEF StartConnector, Remembers
  <2>2. \/ M = [L EXCEPT !.pc = "next", !.at = @ + 1]
        \/ M = [L EXCEPT !.pc = "mark"]
        \/ \E s \in {"failed", "canceled"}, reason \in StopReasons :
              M = [L EXCEPT !.pc = "finish", !.verdict = Verdict(s, reason, "none")]
    BY <1>4, <1>16 DEF StartConnector, Conclude, StopReasons
  <2>3. CASE M = [L EXCEPT !.pc = "next", !.at = @ + 1]
    BY <1>0, <1>8, <2>1, <2>3 DEF Work
  <2>4. CASE M = [L EXCEPT !.pc = "mark"]
    BY <1>0, <1>10, <2>1, <2>4 DEF Work
  <2>5. CASE \E s \in {"failed", "canceled"}, reason \in StopReasons :
               M = [L EXCEPT !.pc = "finish", !.verdict = Verdict(s, reason, "none")]
    BY <1>0, <1>10, <2>1, <2>5 DEF Work, Verdict
  <2> QED BY <2>2, <2>3, <2>4, <2>5
<1>17. CASE MarkRunning(w)
  <2>1. M = [L EXCEPT !.pc = "check", !.idx = Len(stored[r][c])] /\ L.pc = "mark"
    BY <1>4, <1>17 DEF MarkRunning
  <2>2. M.pc = "check" /\ M.run = r /\ M.at = c /\ M.idx = Len(stored[r][c])
    BY <1>0, <2>1 DEF Work
  <2> QED BY <1>0, <1>2, <1>5, <2>1, <2>2 DEF Remembers
<1>18. CASE CheckStop(w)
  <2>1. \/ M = [L EXCEPT !.pc = "attempt"]
        \/ \E s \in {"partial", "failed", "canceled"}, reason \in StopReasons :
              M = [L EXCEPT !.pc = "finish", !.verdict = Verdict(s, reason, "none")]
    BY <1>4, <1>18 DEF CheckStop, Conclude, Cut, StopReasons
  <2>2. L.pc = "check"
    BY <1>18 DEF CheckStop
  <2>3. CASE M = [L EXCEPT !.pc = "attempt"]
    BY <1>0, <1>10, <2>2, <2>3 DEF Work
  <2>4. CASE \E s \in {"partial", "failed", "canceled"}, reason \in StopReasons :
               M = [L EXCEPT !.pc = "finish", !.verdict = Verdict(s, reason, "none")]
    BY <1>0, <1>10, <2>2, <2>4 DEF Work, Verdict
  <2> QED BY <2>1, <2>3, <2>4
<1>19. CASE CountAttempt(w)
  <2>1. M = [L EXCEPT !.pc = "fetch", !.idx = Len(stored[r][c]), !.page = Cursor(r, c)] /\ L.pc = "attempt"
    BY <1>4, <1>19 DEF CountAttempt
  <2>2. M.pc = "fetch" /\ M.run = r /\ M.at = c /\ M.idx = Len(stored[r][c]) /\ M.page = Cursor(r, c)
    BY <1>0, <2>1 DEF Work
  <2>3. Cursor(r, c) = CursorAfter(Len(stored[r][c]), c)
    <3>1. stored[r][c] \in Seq(Nat) /\ r \in Runs /\ c \in Connectors
      BY <1>0, <1>5, <2>1 DEF IInv, TypeOK
    <3>2. stored[r][c] # <<>> => stored[r][c][Len(stored[r][c])] = (Len(stored[r][c]) - 1) % SourcePages[c]
      BY SMTT(40), <3>1 DEF PInv, PagesInOrder
    <3> QED BY <3>1, <3>2 DEF Cursor, CursorAfter
  <2> QED BY <1>0, <1>2, <1>5, <2>1, <2>2, <2>3 DEF Remembers
<1>20. CASE FetchPage(w)
  <2>1. \/ M = [L EXCEPT !.pc = "persist", !.page = Delivered(w)]
        \/ M = [L EXCEPT !.pc = "retry"]
        \/ M = [L EXCEPT !.pc = "failing"]
        \/ \E s \in {"partial", "failed", "canceled"}, reason \in StopReasons, step \in {"code", "finish"}, e \in ErrorCodes :
              M = [L EXCEPT !.pc = step, !.verdict = Verdict(s, reason, e)]
    BY <1>4, <1>20 DEF FetchPage, Conclude, Cut, StopReasons, ErrorCodes
  <2>2. L.pc = "fetch"
    BY <1>20 DEF FetchPage
  <2>3. CASE M = [L EXCEPT !.pc = "persist", !.page = Delivered(w)]
    <3>1. M.pc = "persist" /\ M.run = r /\ M.at = c /\ M.idx = L.idx /\ M.page = Delivered(w)
      BY <1>0, <2>3 DEF Work
    <3>2. L.page = CursorAfter(L.idx, c) /\ c \in Connectors
      BY <1>0, <1>1, <2>2 DEF Remembers
    <3>3. Delivered(w) = L.idx % SourcePages[c]
      <4>1. CASE L.idx = 0
        <5>1. 0 % SourcePages[c] = 0 /\ 0 < SourcePages[c]
          <6>1. SourcePages[c] \in Nat \ {0}
            BY <1>3, <3>2
          <6> QED BY <1>25, <6>1
        <5> QED BY <3>2, <4>1, <5>1 DEF CursorAfter, Delivered
      <4>2. CASE L.idx # 0
        <5>1. PICK n \in Nat : L.idx = n + 1
          <6>1. L.idx - 1 \in Nat /\ L.idx = (L.idx - 1) + 1
            BY <1>0, <4>2
          <6> QED BY <6>1
        <5>2. L.page = (n % SourcePages[c]) + 1
          BY <3>2, <4>2, <5>1 DEF CursorAfter
        <5>3. /\ n % SourcePages[c] \in Nat
              /\ (n + 1) % SourcePages[c] = IF (n % SourcePages[c]) + 1 < SourcePages[c]
                                            THEN (n % SourcePages[c]) + 1 ELSE 0
          <6>1. SourcePages[c] \in Nat \ {0}
            BY <1>3, <3>2
          <6> QED BY <1>25, <6>1
        <5> QED BY <5>1, <5>2, <5>3 DEF Delivered
      <4> QED BY <4>1, <4>2
    <3> QED BY <1>6, <2>2, <3>1, <3>3 DEF Remembers
  <2>4. CASE M = [L EXCEPT !.pc = "failing"]
    BY <1>0, <1>9, <2>4 DEF Work
  <2>5. CASE M = [L EXCEPT !.pc = "retry"]
    BY <1>0, <1>10, <2>2, <2>5 DEF Work
  <2>6. CASE \E s \in {"partial", "failed", "canceled"}, reason \in StopReasons, step \in {"code", "finish"}, e \in ErrorCodes :
              M = [L EXCEPT !.pc = step, !.verdict = Verdict(s, reason, e)]
    BY <1>0, <1>10, <2>2, <2>6 DEF Work, Verdict
  <2> QED BY <2>1, <2>3, <2>4, <2>5, <2>6
<1>21. CASE CountRetry(w)
  <2>1. M = [L EXCEPT !.pc = "check"] /\ L.pc = "retry"
    BY <1>4, <1>21 DEF CountRetry
  <2> QED BY <1>0, <1>10, <2>1 DEF Work
<1>22. CASE PersistPage(w)
  <2>1. L.pc = "persist" /\ r \in Runs /\ c \in Connectors /\ L.page = L.idx % SourcePages[c]
    BY <1>0, <1>1, <1>5, <1>22 DEF PersistPage, Remembers
  <2>2. CASE M = [L EXCEPT !.pc = "failing"]
    BY <1>0, <1>9, <2>2 DEF Work
  <2>3. CASE M = [L EXCEPT !.pc = "check", !.idx = Len(stored'[r][c])]
    BY <1>0, <1>2, <2>1, <2>3 DEF Work, Remembers
  <2>4. CASE \E s \in {"partial", "failed", "canceled"}, reason \in StopReasons :
               M = [L EXCEPT !.pc = "finish", !.verdict = Verdict(s, reason, "none")]
    BY <1>0, <1>10, <2>1, <2>4 DEF Work, Verdict
  <2>5. CASE /\ ~HasMore(c, L.page)
             /\ M = [L EXCEPT !.pc = "finish", !.verdict = Verdict("completed", "complete", "none")]
             /\ \/ Len(stored[r][c]) > L.idx
                \/ stored' = [stored EXCEPT ![r][c] = Append(@, L.page)]
    <3>1. L.idx + 1 >= SourcePages[c]
      <4>1. SourcePages[c] \in Nat \ {0} /\ L.idx \in Nat
        BY <1>0, <1>3, <2>1
      <4>2. /\ L.idx % SourcePages[c] \in Nat
            /\ (L.idx % SourcePages[c]) + 1 >= SourcePages[c] => L.idx + 1 >= SourcePages[c]
        BY <4>1, <1>25
      <4>3. ~((L.idx % SourcePages[c]) + 1 < SourcePages[c])
        BY <2>1, <2>5 DEF HasMore
      <4> QED BY <4>1, <4>2, <4>3
    <3>2. Len(stored'[r][c]) >= L.idx + 1
      <4>1. CASE Len(stored[r][c]) > L.idx
        BY SMTT(40), <1>0, <1>2, <2>1, <4>1
      <4>2. CASE stored' = [stored EXCEPT ![r][c] = Append(@, L.page)]
        <5>1. stored \in [Runs -> [Connectors -> Seq(Nat)]]
          BY DEF IInv, TypeOK
        <5>2. stored'[r][c] = Append(stored[r][c], L.page) /\ stored[r][c] \in Seq(Nat)
          <6>1. r \in Runs /\ c \in Connectors
            BY <1>0, <2>1
          <6>2. stored' = [stored EXCEPT ![r][c] = Append(stored[r][c], L.page)]
            BY <4>2, <5>1, <6>1
          <6> HIDE DEF L, M, r, c
          <6> QED BY <5>1, <6>1, <6>2, NestedRead
        <5> DEFINE pages == stored[r][c]
        <5> HIDE DEF pages
        <5>a. pages \in Seq(Nat) => Len(Append(pages, L.page)) = Len(pages) + 1
          OBVIOUS
        <5>3. Len(stored'[r][c]) = Len(stored[r][c]) + 1
          BY <5>2, <5>a, Zenon DEF pages
        <5> QED BY <1>0, <1>2, <1>6, <2>1, <5>3
      <4> QED BY <2>5, <4>1, <4>2
    <3>3. M.pc = "finish" /\ M.run = r /\ M.at = c /\ M.idx = L.idx
      BY <1>0, <2>5 DEF Work
    <3>4. Len(stored'[r][c]) >= SourcePages[c]
      BY SMTT(40), <1>0, <1>2, <1>3, <2>1, <3>1, <3>2
    <3> QED BY <1>6, <2>1, <3>3, <3>4 DEF Remembers
  <2>6. \/ M = [L EXCEPT !.pc = "failing"]
        \/ M = [L EXCEPT !.pc = "check", !.idx = Len(stored'[r][c])]
        \/ \E s \in {"partial", "failed", "canceled"}, reason \in StopReasons :
               M = [L EXCEPT !.pc = "finish", !.verdict = Verdict(s, reason, "none")]
        \/ /\ ~HasMore(c, L.page)
           /\ M = [L EXCEPT !.pc = "finish", !.verdict = Verdict("completed", "complete", "none")]
           /\ \/ Len(stored[r][c]) > L.idx
              \/ stored' = [stored EXCEPT ![r][c] = Append(@, L.page)]
    BY <1>4, <1>22 DEF PersistPage, Conclude, StopReasons
  <2> HIDE DEF L, M, r, c
  <2> QED BY <2>2, <2>3, <2>4, <2>5, <2>6
<1>23. CASE WriteErrorCode(w)
  <2>1. M = [L EXCEPT !.pc = "finish"] /\ L.pc = "code"
    BY <1>4, <1>23 DEF WriteErrorCode
  <2>2. M.pc = "finish" /\ M.run = r /\ M.at = c /\ M.idx = L.idx /\ M.verdict = L.verdict
    BY <1>0, <2>1 DEF Work
  <2>3. L.verdict.status = "completed" => Len(stored'[r][c]) >= SourcePages[c]
    BY <1>0, <1>1, <1>2, <1>3, <1>5, <2>1 DEF Remembers
  <2> QED BY <1>6, <2>1, <2>2, <2>3 DEF Remembers
<1>24. CASE FinishConnector(w)
  <2>1. M = [L EXCEPT !.pc = "next", !.at = @ + 1, !.idx = 0, !.page = 0, !.verdict = NoVerdict]
    BY <1>4, <1>24 DEF FinishConnector
  <2> QED BY <1>0, <1>8, <2>1 DEF Work
<1> HIDE DEF L, M, r, c
<1> QED BY <1>7, <1>11, <1>13, <1>14, <1>15, <1>16, <1>17, <1>18, <1>19, <1>20, <1>21, <1>22, <1>23, <1>24,
           WorkerKinds DEF WorkerStep, L, M

\* Only the holder of the lease stores pages of a run and counts attempts at them.
LEMMA PagesOfAHolder ==
  ASSUME IInv, [Next]_vars, NEW w \in Workers, Holds(w), UNCHANGED work[w]
  PROVE  LET r == work[w].run IN UNCHANGED <<stored[r], tries[r]>> /\ late'[r] \in {0, late[r]}
<1> DEFINE r == work[w].run
           Kept == UNCHANGED <<stored[r], tries[r]>> /\ late'[r] \in {0, late[r]}
<1>0. /\ r \in Runs /\ work[w].tok # 0 /\ work \in [Workers -> Work]
      /\ stored \in [Runs -> [Connectors -> Seq(Nat)]] /\ tries \in [Runs -> [Connectors -> Nat]]
      /\ late \in [Runs -> Nat]
  BY DEF Holds, IInv, TypeOK, RowsAreConsistent
<1>1. ASSUME NEW v \in Workers, Holds(v), work[v].run = r PROVE v = w
  <2>1. work[v].tok = work[w].tok
    BY <1>1 DEF Holds
  <2> QED BY <1>0, <1>1, <2>1 DEF IInv, TokensAreUnique
<1>2. ASSUME NEW v \in Workers, CountAttempt(v) PROVE Kept
  <2>1. work'[v].pc = "fetch" /\ work[v].pc = "attempt"
    BY <1>0, <1>2 DEF CountAttempt, Becomes, At, Work
  <2>2. work[v].run # r
    BY <1>1, <1>2, <2>1 DEF CountAttempt
  <2> QED BY <1>0, <1>2, <2>2 DEF CountAttempt
<1>3. ASSUME NEW v \in Workers, PersistPage(v), Stores(v) PROVE Kept
  <2>1. work[v].pc = "persist"
    BY <1>3 DEF Stores, At
  <2>2. work'[v].pc \in {"finish", "check", "failing"}
    <3>1. work[v] \in Work
      BY <1>0
    <3>2. ASSUME NEW p \in {"finish", "check", "failing"}, NEW i, NEW d,
                 \/ Becomes(v, [work[v] EXCEPT !.pc = p])
                 \/ Becomes(v, [work[v] EXCEPT !.pc = p, !.verdict = d])
                 \/ Becomes(v, [work[v] EXCEPT !.pc = p, !.idx = i])
          PROVE  work'[v].pc = p
      BY ZenonT(60), <1>0, <3>1, <3>2 DEF Becomes, Work
    <3>3. \/ Becomes(v, [work[v] EXCEPT !.pc = "failing"])
          \/ \E d : Becomes(v, [work[v] EXCEPT !.pc = "finish", !.verdict = d])
          \/ \E i : Becomes(v, [work[v] EXCEPT !.pc = "check", !.idx = i])
      BY <1>3 DEF PersistPage, Conclude
    <3> QED BY <3>2, <3>3
  <2>3. work[v].run # r
    BY <1>1, <1>3, <2>1, <2>2 DEF Stores
  <2> QED BY <1>0, <1>3, <2>3 DEF Stores
<1>4. ASSUME NEW q \in Runs, NEW granted \in BOOLEAN, SetAccess(q, granted)
      PROVE  Kept
  <2>1. UNCHANGED <<stored, tries>>
    BY <1>4 DEF SetAccess, connectorVars
  <2>2. late' = [late EXCEPT ![q] = IF cancel[q] THEN @ ELSE 0]
    BY <1>4 DEF SetAccess
  <2> QED BY <1>0, <2>1, <2>2
<1>5. ASSUME UNCHANGED <<stored, tries, late, access>> PROVE Kept
  BY <1>5
<1> HIDE DEF Kept
<1>6. \/ UNCHANGED <<stored, tries, late, access>>
      \/ \E q \in Runs, granted \in BOOLEAN : SetAccess(q, granted)
      \/ \E v \in Workers : CountAttempt(v)
      \/ \E v \in Workers : PersistPage(v) /\ Stores(v)
  BY PageKinds
<1>7. Kept
  BY <1>2, <1>3, <1>4, <1>5, <1>6
<1> QED BY <1>7 DEF Kept

\* The holder of a lease knows the pages, has an attempt left where it has not been, and does not go on
\* to a page once one was late.
LEMMA HoldsAllStep ==
  ASSUME IInv, PInv, [Next]_vars, NEW w \in Workers
  PROVE  HoldsAll(w)'
<1> DEFINE L == work[w]
           M == work'[w]
           r == L.run
           c == L.at
<1> SUFFICES ASSUME Holds(w)' PROVE HoldsAll(w)'
  BY DEF HoldsAll
<1>0. /\ work \in [Workers -> Work] /\ M \in Work /\ L \in Work /\ M.run \in Runs
      /\ L.pc # "idle" => r \in Runs
      /\ L.pc \in OnConnector => c \in Connectors
      /\ L.idx \in Nat /\ c \in Nat /\ L.tok \in Nat
  BY WorkTypeStep, LocalTypes DEF IInv, TypeOK, Work, Holds
<1>1. /\ claims \in [Runs -> Nat] /\ tries \in [Runs -> [Connectors -> Nat]] /\ late \in [Runs -> Nat]
      /\ stored \in [Runs -> [Connectors -> Seq(Nat)]]
      /\ MaxAttempts \in Nat \ {0} /\ Connectors \subseteq Nat
  BY RunsAssumption DEF IInv, TypeOK, Connectors
<1>2. ASSUME NEW N, Becomes(w, N) PROVE M = N
  BY <1>0, <1>2 DEF Becomes
<1>3. PagesInOrder /\ RowsOfPages /\ Remembers(w) /\ HoldsAll(w)
  BY DEF PInv
<1> USE DEF At, BeforeClaim
<1>4. CASE ClaimRun(w) /\ Claimable(r) /\ r \in Runs
  <2>1. /\ M = [L EXCEPT !.pc = "next", !.tok = NewToken(r)]
        /\ claims' = [claims EXCEPT ![r] = @ + 1] /\ UNCHANGED tries
    BY <1>2, <1>4 DEF ClaimRun, connectorVars
  <2>2. M.pc = "next" /\ M.run = r /\ claims'[r] = claims[r] + 1
    BY <1>0, <1>1, <1>4, <2>1 DEF Work
  <2>3. \A d \in Connectors : tries'[r][d] + 1 < MaxAttempts + claims'[r]
    BY <1>1, <1>3, <1>4, <2>1, <2>2 DEF RowsOfPages
  <2> QED BY <2>2, <2>3 DEF HoldsAll
<1>5. CASE Holds(w) /\ M.run = r /\ M.tok = L.tok /\ L.tok # 0 /\ claims'[r] = claims[r]
  <2>0. /\ r \in Runs /\ claims[r] \in Nat /\ claims[r] > 0 /\ L.pc \notin BeforeClaim
    BY <1>0, <1>1, <1>5 DEF Holds, IInv, RowsAreConsistent, WorkersAreConsistent
  <2>1. /\ L.pc \in {"check", "attempt", "fetch", "retry", "persist"} => L.idx = Len(stored[r][c])
        /\ \A d \in Connectors : d > c \/ (d = c /\ L.pc \in BeforeAttempt)
              => tries[r][d] + 1 < MaxAttempts + claims[r]
        /\ late[r] # 0 => L.pc \notin {"attempt", "fetch", "persist"} /\ MustStop(r)
    BY <1>3, <1>5, <2>0 DEF HoldsAll, RowsOfPages
  <2>2. CASE M = L
    <3>1. UNCHANGED <<stored[r], tries[r]>> /\ late'[r] \in {0, late[r]}
      BY <1>5, <2>2, PagesOfAHolder
    <3> QED BY <1>5, <2>0, <2>1, <2>2, <3>1 DEF HoldsAll
  \* The worker moves on without writing pages or attempts, and not to a later page.
  <2>3. CASE /\ UNCHANGED <<stored, tries, late>>
             /\ M.pc \in {"check", "attempt", "fetch", "retry", "persist"} => M.idx = Len(stored[r][M.at])
             /\ M.at \in Nat /\ \A d \in Connectors : d > M.at => d > c
             /\ M.pc \in BeforeAttempt => M.at > c \/ (M.at = c /\ L.pc \in BeforeAttempt)
             /\ M.pc \in {"attempt", "fetch", "persist"} => late[r] = 0
    <3>1. \A d \in Connectors : d > M.at \/ (d = M.at /\ M.pc \in BeforeAttempt)
            => d > c \/ (d = c /\ L.pc \in BeforeAttempt)
      BY <1>0, <1>1, <2>3
    <3> QED BY <1>5, <2>1, <2>3, <3>1 DEF HoldsAll
  <2>4. CASE Crash(w) \/ AbandonIfExhausted(w) \/ LeaseLost(w) \/ Finalize(w) \/ FailInternal(w)
    <3>1. M = Idle
      BY <1>2, <2>4 DEF Crash, AbandonIfExhausted, LeaseLost, Finalize, FailInternal
    <3> QED BY <1>5, <3>1 DEF Idle
  <2>5. ASSUME NEW q \in Runs, Receive(w, q) PROVE HoldsAll(w)'
    BY <2>0, <2>5 DEF Receive
  <2>6. CASE ClaimRun(w)
    BY <2>0, <2>6 DEF ClaimRun
  <2>7. CASE NextConnector(w)
    <3>1. L.pc = "next" /\ UNCHANGED <<stored, tries, late>>
      BY <2>7 DEF NextConnector, connectorVars
    <3>2. M = [L EXCEPT !.pc = "finalize"] \/ M = [L EXCEPT !.pc = "start"]
      BY <1>2, <2>7 DEF NextConnector
    <3>3. M.at = c /\ M.pc \in {"finalize", "start"}
      BY <1>0, <3>2 DEF Work
    <3> QED BY <1>0, <2>3, <3>1, <3>3 DEF BeforeAttempt
  <2>8. CASE StartConnector(w)
    <3>1. L.pc = "start" /\ UNCHANGED <<stored, tries, late>>
      BY <2>8 DEF StartConnector, connectorVars
    <3>2. \/ M = [L EXCEPT !.pc = "next", !.at = @ + 1]
          \/ M = [L EXCEPT !.pc = "mark"]
          \/ \E v \in Verdicts : M = [L EXCEPT !.pc = "finish", !.verdict = v]
      BY <1>2, <2>8, VerdictType DEF StartConnector, Conclude, StopReasons, ConnectorStatus, Terminal, ErrorCodes
    <3>3. (M.at = c + 1 /\ M.pc = "next") \/ (M.at = c /\ M.pc \in {"finish", "mark"})
      <4>1. CASE M = [L EXCEPT !.pc = "next", !.at = @ + 1]
        BY <1>0, <4>1 DEF Work
      <4>2. CASE M = [L EXCEPT !.pc = "mark"]
        BY <1>0, <4>2 DEF Work
      <4>3. CASE \E v \in Verdicts : M = [L EXCEPT !.pc = "finish", !.verdict = v]
        BY <1>0, <4>3 DEF Work
      <4> QED BY <3>2, <4>1, <4>2, <4>3
    <3>4. M.at \in Nat /\ \A d \in Connectors : d > M.at => d > c
      BY <1>0, <1>1, <3>3
    <3>5. M.pc \in BeforeAttempt => M.at > c \/ (M.at = c /\ L.pc \in BeforeAttempt)
      BY <1>0, <3>1, <3>3 DEF BeforeAttempt
    <3> QED BY <2>3, <3>1, <3>3, <3>4, <3>5
  <2>9. CASE MarkRunning(w)
    <3>1. L.pc = "mark" /\ UNCHANGED <<stored, tries, late>>
      BY <2>9 DEF MarkRunning, connectorVars
    <3>2. M = [L EXCEPT !.pc = "check", !.idx = Len(stored[r][c])]
      BY <1>2, <2>9 DEF MarkRunning
    <3>3. M.at = c /\ M.pc = "check" /\ M.idx = Len(stored[r][c])
      BY <1>0, <3>2 DEF Work
    <3> QED BY <1>0, <2>3, <3>1, <3>3 DEF BeforeAttempt
  <2>10. CASE CheckStop(w)
    <3>1. L.pc = "check" /\ UNCHANGED <<stored, tries, late>>
      BY <2>10 DEF CheckStop, connectorVars
    <3>2. \/ M = [L EXCEPT !.pc = "attempt"] /\ ~StopReason(r)
          \/ \E v \in Verdicts : M = [L EXCEPT !.pc = "finish", !.verdict = v]
      BY <1>2, <2>10, VerdictType DEF CheckStop, Conclude, Cut, StopReasons, ConnectorStatus, Terminal, ErrorCodes
    <3>3. M.at = c /\ M.idx = L.idx /\ (M.pc = "finish" \/ (M.pc = "attempt" /\ ~StopReason(r)))
      BY <1>0, <3>2 DEF Work
    <3>4. M.pc = "attempt" => late[r] = 0
      BY <2>1, <3>3 DEF StopReason, MustStop
    <3>5. M.pc # "fetch" /\ M.pc # "persist" /\ L.pc \in BeforeAttempt /\ L.idx = Len(stored[r][c])
      BY <2>1, <3>1, <3>3 DEF BeforeAttempt
    <3> QED BY <1>0, <2>3, <3>1, <3>3, <3>4, <3>5
  <2>11. CASE CountAttempt(w)
    <3>1. /\ L.pc = "attempt" /\ UNCHANGED <<stored, late>>
          /\ tries' = [tries EXCEPT ![r][c] = @ + 1] /\ c \in Connectors
      BY <1>0, <2>11 DEF CountAttempt, OnConnector
    <3>2. M = [L EXCEPT !.pc = "fetch", !.idx = Len(stored[r][c]), !.page = Cursor(r, c)]
      BY <1>2, <2>11 DEF CountAttempt
    <3>3. M.at = c /\ M.pc = "fetch" /\ M.idx = Len(stored[r][c])
      BY <1>0, <3>2 DEF Work
    <3>4. \A d \in Connectors : d > c => tries'[r][d] = tries[r][d]
      BY <1>0, <1>1, <2>0, <3>1
    <3>5. \A d \in Connectors : d > c => tries'[r][d] + 1 < MaxAttempts + claims[r]
      BY <2>1, <3>4
    <3>6. late[r] = 0 /\ "fetch" \notin BeforeAttempt
      BY <2>1, <3>1 DEF BeforeAttempt
    <3> QED BY <1>5, <3>1, <3>3, <3>5, <3>6 DEF HoldsAll
  <2>12. CASE FetchPage(w)
    <3>1. L.pc = "fetch" /\ UNCHANGED <<stored, tries, late>> /\ c \in Connectors
      BY <1>0, <2>12 DEF FetchPage, connectorVars, OnConnector
    <3>2. \/ M = [L EXCEPT !.pc = "persist", !.page = Delivered(w)]
          \/ M = [L EXCEPT !.pc = "retry"] /\ AttemptsLeft(w)
          \/ M = [L EXCEPT !.pc = "failing"]
          \/ \E v \in Verdicts, step \in {"code", "finish"} : M = [L EXCEPT !.pc = step, !.verdict = v]
      BY ZenonT(60), <1>2, <2>12, VerdictType DEF FetchPage, Conclude, Cut, StopReasons, ConnectorStatus, Terminal, ErrorCodes
    <3>3. /\ M.at = c
          /\ M.pc \in {"persist", "retry", "failing", "code", "finish"}
          /\ M.pc \in {"persist", "retry"} => M.idx = L.idx
          /\ M.pc = "retry" => AttemptsLeft(w)
      <4>1. CASE M = [L EXCEPT !.pc = "persist", !.page = Delivered(w)]
        BY <1>0, <4>1 DEF Work
      <4>2. CASE M = [L EXCEPT !.pc = "retry"] /\ AttemptsLeft(w)
        BY <1>0, <4>2 DEF Work
      <4>3. CASE M = [L EXCEPT !.pc = "failing"]
        BY <1>0, <4>3 DEF Work
      <4>4. CASE \E v \in Verdicts, step \in {"code", "finish"} : M = [L EXCEPT !.pc = step, !.verdict = v]
        BY <1>0, <4>4 DEF Work
      <4> QED BY <3>2, <4>1, <4>2, <4>3, <4>4
    <3>4. CASE M.pc = "retry"
      <4>1. tries[r][c] + 1 < MaxAttempts + claims[r]
        <5>1. tries[r][c] < MaxAttempts /\ tries[r][c] \in Nat
          BY <1>1, <2>0, <3>1, <3>3, <3>4 DEF AttemptsLeft
        <5> QED BY <1>1, <2>0, <5>1
      <4>2. \A d \in Connectors : d > c \/ d = c => tries[r][d] + 1 < MaxAttempts + claims[r]
        BY <2>1, <4>1
      <4> QED BY <1>5, <2>1, <3>1, <3>3, <3>4, <4>2 DEF HoldsAll
    <3>5. CASE M.pc # "retry"
      BY <1>0, <2>1, <2>3, <3>1, <3>3, <3>5 DEF BeforeAttempt
    <3> QED BY <3>4, <3>5
  <2>13. CASE CountRetry(w)
    <3>1. L.pc = "retry" /\ UNCHANGED <<stored, tries, late>>
      BY <2>13 DEF CountRetry, connectorVars
    <3>2. M = [L EXCEPT !.pc = "check"]
      BY <1>2, <2>13 DEF CountRetry
    <3>3. M.at = c /\ M.pc = "check" /\ M.idx = L.idx
      BY <1>0, <3>2 DEF Work
    <3> QED BY <1>0, <2>1, <2>3, <3>1, <3>3 DEF BeforeAttempt
  <2>14. CASE PersistPage(w)
    <3>1. L.pc = "persist" /\ c \in Connectors
      BY SMTT(40), <1>0, <2>14 DEF PersistPage, OnConnector
    <3>2. \/ M = [L EXCEPT !.pc = "failing"]
          \/ \E v \in Verdicts : M = [L EXCEPT !.pc = "finish", !.verdict = v]
          \/ M = [L EXCEPT !.pc = "check", !.idx = Len(stored'[r][c])] /\ (Len(stored[r][c]) > L.idx \/ Stores(w))
      <4>1. Len(stored[r][c]) \in Nat
        BY SMTT(40), <1>1, <2>0, <3>1
      <4>2. ~(Len(stored[r][c]) > L.idx) => Len(stored[r][c]) <= L.idx
        BY <1>0, <4>1
      <4> QED BY <1>2, <1>5, <2>14, <4>2, VerdictType
              DEF PersistPage, Conclude, Stores, StopReasons, ConnectorStatus, Terminal, ErrorCodes
    <3>3. /\ M.at = c
          /\ M.pc \in {"failing", "finish", "check"}
          /\ M.pc = "check" => M.idx = Len(stored'[r][c]) /\ (Len(stored[r][c]) > L.idx \/ Stores(w))
      <4>1. CASE M = [L EXCEPT !.pc = "failing"]
        BY <1>0, <4>1 DEF Work
      <4>2. CASE \E v \in Verdicts : M = [L EXCEPT !.pc = "finish", !.verdict = v]
        BY <1>0, <4>2 DEF Work
      <4>3. CASE /\ M = [L EXCEPT !.pc = "check", !.idx = Len(stored'[r][c])]
                 /\ Len(stored[r][c]) > L.idx \/ Stores(w)
        BY <1>0, <4>3 DEF Work
      <4> QED BY <3>2, <4>1, <4>2, <4>3
    <3>4. L.idx = Len(stored[r][c])
      BY <2>1, <3>1
    <3>5. UNCHANGED tries \/ tries' = [tries EXCEPT ![r][c] = 0]
      BY <2>14 DEF PersistPage
    <3>6. M.pc = "check" => tries' = [tries EXCEPT ![r][c] = 0]
      BY <1>0, <3>3, <3>4 DEF Stores
    <3>7. \A d \in Connectors : d > c \/ (d = c /\ M.pc = "check") => tries'[r][d] + 1 < MaxAttempts + claims[r]
      <4>1. \A d \in Connectors : d > c => tries'[r][d] = tries[r][d]
        <5>1. CASE UNCHANGED tries
          BY <5>1
        <5>2. CASE tries' = [tries EXCEPT ![r][c] = 0]
          BY <1>0, <1>1, <2>0, <5>2
        <5> QED BY <3>5, <5>1, <5>2
      <4>2. M.pc = "check" => tries'[r][c] + 1 < MaxAttempts + claims[r]
        BY <1>1, <2>0, <3>1, <3>6
      <4> QED BY <2>1, <4>1, <4>2
    <3> QED BY <1>5, <3>3, <3>7 DEF HoldsAll, BeforeAttempt
  <2>15. CASE WriteErrorCode(w)
    <3>1. L.pc = "code" /\ UNCHANGED <<stored, tries, late>>
      BY <2>15 DEF WriteErrorCode, connectorVars
    <3>2. M = [L EXCEPT !.pc = "finish"]
      BY <1>2, <2>15 DEF WriteErrorCode
    <3>3. M.at = c /\ M.pc = "finish"
      BY <1>0, <3>2 DEF Work
    <3> QED BY <1>0, <2>3, <3>1, <3>3 DEF BeforeAttempt
  <2>16. CASE FinishConnector(w)
    <3>1. UNCHANGED <<stored, tries, late>>
      BY <2>16 DEF FinishConnector
    <3>2. M = [L EXCEPT !.pc = "next", !.at = @ + 1, !.idx = 0, !.page = 0, !.verdict = NoVerdict]
      BY <1>2, <2>16 DEF FinishConnector
    <3>3. M.at = c + 1 /\ M.pc = "next"
      BY <1>0, <3>2 DEF Work
    <3>4. M.at \in Nat /\ (\A d \in Connectors : d > M.at => d > c) /\ M.at > c
      BY <1>0, <1>1, <3>3
    <3> QED BY <2>3, <3>1, <3>3, <3>4
  <2> HIDE DEF L, M, r, c
  <2> QED BY <2>2, <2>4, <2>5, <2>6, <2>7, <2>8, <2>9, <2>10, <2>11, <2>12, <2>13, <2>14, <2>15, <2>16,
             WorkerKinds DEF WorkerStep, L, M
<1> QED BY <1>4, <1>5, HoldersStay

\* The rows keep the pages, attempts and late pages within what claims and stops allow.
LEMMA RowsOfPagesStep == ASSUME IInv, PInv, [Next]_vars PROVE RowsOfPages'
<1>0. /\ claims \in [Runs -> Nat] /\ tries \in [Runs -> [Connectors -> Nat]] /\ late \in [Runs -> Nat]
      /\ stored \in [Runs -> [Connectors -> Seq(Nat)]] /\ work \in [Workers -> Work]
      /\ cancel \in [Runs -> BOOLEAN] /\ access \in [Runs -> BOOLEAN]
      /\ claims' \in [Runs -> Nat] /\ tries' \in [Runs -> [Connectors -> Nat]] /\ late' \in [Runs -> Nat]
      /\ MaxAttempts \in Nat \ {0} /\ MaxClaims \in Nat \ {0}
      /\ \A d \in Connectors : SourcePages[d] \in Nat \ {0}
  BY InvStep, RunsAssumption DEF IInv, TypeOK
<1>1. RowsOfPages /\ \A w \in Workers : Remembers(w) /\ HoldsAll(w)
  BY DEF PInv
<1> SUFFICES ASSUME NEW r \in Runs
             PROVE  /\ claims'[r] <= MaxClaims
                    /\ late'[r] # 0 => late'[r] = 1 /\ MustStop(r)'
                    /\ status'[r] \in {"none", "requested"} => ~cancel'[r]
                    /\ status'[r] = "completed" => \A c \in Connectors : cstat'[r][c] = "completed"
                    /\ \A c \in Connectors :
                         /\ tries'[r][c] + 1 <= MaxAttempts + claims'[r]
                         /\ cstat'[r][c] = "completed" => Len(stored'[r][c]) >= SourcePages[c]
  BY DEF RowsOfPages
<1>2. /\ claims[r] <= MaxClaims
      /\ late[r] # 0 => late[r] = 1 /\ MustStop(r)
      /\ status[r] \in {"none", "requested"} => ~cancel[r]
      /\ status[r] = "completed" => \A c \in Connectors : cstat[r][c] = "completed"
      /\ \A c \in Connectors :
           /\ tries[r][c] + 1 <= MaxAttempts + claims[r]
           /\ cstat[r][c] = "completed" => Len(stored[r][c]) >= SourcePages[c]
  BY <1>1 DEF RowsOfPages
<1>3. RowMoves(r)
  BY RowKinds
<1>4. claims'[r] <= MaxClaims /\ claims'[r] >= claims[r]
  <2>1. CASE claims'[r] = claims[r]
    BY <1>0, <1>2, <2>1
  <2>2. CASE claims'[r] # claims[r]
    <3>1. Claimable(r) /\ claims'[r] = claims[r] + 1
      BY <1>3, <2>2 DEF RowMoves
    <3>2. claims[r] < MaxClaims
      BY <1>0, <3>1 DEF Claimable, IInv, RowsAreConsistent
    <3> QED BY <1>0, <3>1, <3>2
  <2> QED BY <2>1, <2>2
<1>5. ASSUME NEW w \in Workers, Holds(w), work[w].run = r
      PROVE  claims[r] > 0 /\ work[w].tok # 0
  BY <1>0, <1>5 DEF Holds, IInv, RowsAreConsistent
<1>6. ASSUME NEW w \in Workers, Stores(w), work[w].run = r
      PROVE  late[r] = 0
  <2>1. work[w].pc = "persist" /\ Holds(w)
    BY <1>6 DEF Stores, At
  <2> QED BY <1>1, <1>6, <2>1 DEF HoldsAll
<1>7. cancel[r] => cancel'[r]
  BY <1>3 DEF RowMoves
<1>8. late'[r] # 0 => late'[r] = 1 /\ MustStop(r)'
  <2>1. CASE late'[r] = late[r] /\ access'[r] = access[r]
    BY <1>0, <1>2, <1>7, <2>1 DEF MustStop
  <2>2. ASSUME NEW q \in Runs, NEW granted \in BOOLEAN, SetAccess(q, granted)
        PROVE  late'[r] # 0 => late'[r] = 1 /\ MustStop(r)'
    <3>1. /\ late' = [late EXCEPT ![q] = IF cancel[q] THEN @ ELSE 0]
          /\ access' = [access EXCEPT ![q] = granted]
      BY <2>2 DEF SetAccess
    <3>2. CASE q # r
      BY <1>0, <2>1, <3>1, <3>2
    <3>3. CASE q = r
      BY <1>0, <1>2, <1>7, <3>1, <3>3 DEF MustStop
    <3> QED BY <3>2, <3>3
  <2>3. ASSUME NEW w \in Workers, CountAttempt(w) PROVE late'[r] = late[r] /\ access'[r] = access[r]
    BY <2>3 DEF CountAttempt, envVars
  <2>4. ASSUME NEW w \in Workers, PersistPage(w), Stores(w)
        PROVE  late'[r] # 0 => late'[r] = 1 /\ MustStop(r)'
    <3>1. /\ late' = [late EXCEPT ![work[w].run] = IF MustStop(work[w].run) THEN @ + 1 ELSE @]
          /\ UNCHANGED access
      BY <2>4 DEF Stores, PersistPage, envVars
    <3>2. CASE work[w].run # r
      BY <1>0, <2>1, <3>1, <3>2
    <3>3. CASE work[w].run = r
      <4>1. late[r] = 0
        BY <1>6, <2>4, <3>3
      <4>2. late'[r] = IF MustStop(r) THEN 1 ELSE 0
        BY <1>0, <3>1, <3>3, <4>1
      <4> QED BY <1>7, <3>1, <4>2 DEF MustStop
    <3> QED BY <3>2, <3>3
  <2>5. CASE UNCHANGED <<stored, tries, late, access>>
    BY <2>1, <2>5
  <2> QED BY <2>1, <2>2, <2>3, <2>4, <2>5, PageKinds
<1>9. status'[r] = "completed" => \A c \in Connectors : cstat'[r][c] = "completed"
  BY <1>2, <1>3 DEF RowMoves
<1>10. ASSUME NEW c \in Connectors PROVE tries'[r][c] + 1 <= MaxAttempts + claims'[r]
  <2>0. tries[r][c] \in Nat /\ claims[r] \in Nat /\ claims'[r] \in Nat
    BY <1>0
  <2>1. CASE tries'[r][c] = tries[r][c]
    BY <1>0, <1>2, <1>4, <2>0, <2>1
  <2>2. CASE tries'[r][c] = 0
    BY <1>0, <2>0, <2>2
  <2>3. ASSUME NEW w \in Workers, CountAttempt(w) PROVE tries'[r][c] + 1 <= MaxAttempts + claims'[r]
    <3>1. /\ tries' = [tries EXCEPT ![work[w].run][work[w].at] = @ + 1]
          /\ work[w].pc = "attempt" /\ Holds(w)
      BY <2>3 DEF CountAttempt, At
    <3>2. CASE work[w].run = r /\ work[w].at = c
      <4>1. tries[r][c] + 1 < MaxAttempts + claims[r]
        BY <1>1, <3>1, <3>2 DEF HoldsAll, BeforeClaim, BeforeAttempt
      <4>2. tries'[r][c] = tries[r][c] + 1
        BY <1>0, <3>1, <3>2
      <4> QED BY <1>0, <1>4, <2>0, <4>1, <4>2
    <3>3. CASE work[w].run # r \/ work[w].at # c
      BY <1>0, <2>1, <3>1, <3>3
    <3> QED BY <3>2, <3>3
  <2>4. ASSUME NEW w \in Workers, Stores(w) PROVE tries'[r][c] \in {0, tries[r][c]}
    <3>1. tries' = [tries EXCEPT ![work[w].run][work[w].at] = 0]
      BY <2>4 DEF Stores
    <3> QED BY <1>0, <3>1
  <2>5. ASSUME UNCHANGED <<stored, tries, late, access>> \/ \E q \in Runs, granted \in BOOLEAN : SetAccess(q, granted)
        PROVE  tries'[r][c] = tries[r][c]
    BY <2>5 DEF SetAccess, connectorVars
  <2> QED BY <2>1, <2>2, <2>3, <2>4, <2>5, PageKinds
<1>11. ASSUME NEW c \in Connectors, cstat'[r][c] = "completed" PROVE Len(stored'[r][c]) >= SourcePages[c]
  <2>1. Len(stored[r][c]) >= SourcePages[c]
    <3>1. CASE cstat[r][c] = "completed"
      BY <1>2, <3>1
    <3>2. CASE \E w \in Workers : /\ FinishConnector(w) /\ work[w].run = r /\ work[w].at = c
                                  /\ work[w].verdict.status = "completed"
      BY <1>1, <3>2 DEF FinishConnector, Remembers, At
    <3> QED BY <1>3, <1>11, <3>1, <3>2 DEF RowMoves
  <2>2. /\ Len(stored'[r][c]) \in Nat /\ Len(stored[r][c]) \in Nat
        /\ Len(stored'[r][c]) >= Len(stored[r][c])
    BY PagesGrow
  <2> QED BY <1>0, <2>1, <2>2
<1>12. status'[r] \in {"none", "requested"} => ~cancel'[r]
  BY <1>2, <1>3 DEF RowMoves
<1> QED BY <1>4, <1>8, <1>9, <1>10, <1>11, <1>12

\* What a worker stores is the page that follows.
LEMMA NextPage ==
  ASSUME IInv, PInv, NEW w \in Workers, Stores(w)
  PROVE  LET r == work[w].run
             c == work[w].at IN
         /\ r \in Runs /\ c \in Connectors /\ status[r] = "running"
         /\ stored' = [stored EXCEPT ![r][c] = Append(@, Len(@) % SourcePages[c])]
<1> DEFINE r == work[w].run
           c == work[w].at
<1>1. r \in Runs /\ c \in Connectors /\ status[r] = "running" /\ work[w].pc = "persist"
  BY LocalTypes DEF Stores, Holds, At, OnConnector
<1>2. work[w].page = work[w].idx % SourcePages[c] /\ work[w].idx = Len(stored[r][c])
  BY <1>1 DEF PInv, Remembers, HoldsAll, Stores
<1>3. stored' = [stored EXCEPT ![r][c] = Append(@, work[w].page)]
  BY DEF Stores
<1>4. stored \in [Runs -> [Connectors -> Seq(Nat)]]
  BY DEF IInv, TypeOK
<1>5. [stored EXCEPT ![r][c] = Append(@, work[w].page)] = [stored EXCEPT ![r][c] = Append(@, Len(@) % SourcePages[c])]
  BY <1>1, <1>2, <1>4
<1> QED BY <1>1, <1>3, <1>5

\* A page is stored behind the one before it at the source.
LEMMA PagesInOrderStep == ASSUME IInv, PInv, [Next]_vars PROVE PagesInOrder'
<1>0. stored \in [Runs -> [Connectors -> Seq(Nat)]] /\ PagesInOrder
  BY DEF IInv, TypeOK, PInv
<1>1. CASE UNCHANGED stored
  BY <1>0, <1>1 DEF PagesInOrder
<1>2. ASSUME NEW w \in Workers, Stores(w) PROVE PagesInOrder'
  <2> DEFINE q == work[w].run
             d == work[w].at
  <2>1. /\ q \in Runs /\ d \in Connectors
        /\ stored' = [stored EXCEPT ![q][d] = Append(@, Len(@) % SourcePages[d])]
    BY <1>2, NextPage
  <2> HIDE DEF q, d
  <2> SUFFICES ASSUME NEW r \in Runs, NEW c \in Connectors, NEW i \in DOMAIN stored'[r][c]
               PROVE  stored'[r][c][i] = (i - 1) % SourcePages[c]
    BY DEF PagesInOrder
  <2>2. CASE r # q \/ c # d
    BY <1>0, <2>1, <2>2 DEF PagesInOrder
  <2>3. CASE r = q /\ c = d
    <3> DEFINE pages == stored[r][c]
    <3>1. pages \in Seq(Nat) /\ stored'[r][c] = Append(pages, Len(pages) % SourcePages[c])
      BY <1>0, <2>1, <2>3
    <3>2. \A k \in 1 .. Len(pages) : pages[k] = (k - 1) % SourcePages[c]
      BY <1>0, <3>1 DEF PagesInOrder
    <3> HIDE DEF pages
    <3>3. i \in 1 .. Len(pages) + 1 /\ Len(pages) \in Nat
      BY <3>1
    <3>4. CASE i = Len(pages) + 1
      <4>1. stored'[r][c][i] = Len(pages) % SourcePages[c] /\ i - 1 = Len(pages)
        BY <3>1, <3>3, <3>4
      <4> QED BY <4>1
    <3>5. CASE i \in 1 .. Len(pages)
      <4>1. stored'[r][c][i] = pages[i]
        BY SMTT(40), <3>1, <3>5
      <4> QED BY <3>2, <3>5, <4>1
    <3> QED BY <3>3, <3>4, <3>5
  <2> QED BY <2>2, <2>3
<1>3. \/ UNCHANGED stored
      \/ \E w \in Workers : Stores(w)
  BY PageKinds DEF SetAccess, CountAttempt, connectorVars
<1> QED BY <1>1, <1>2, <1>3

\* Nothing is stored before a run is requested.
LEMMA InitPInv == Init => PInv
<1> SUFFICES ASSUME Init PROVE PInv
  OBVIOUS
<1>1. PagesInOrder
  BY DEF Init, PagesInOrder
<1>2. RowsOfPages
  BY RunsAssumption DEF Init, RowsOfPages
<1>3. ASSUME NEW w \in Workers PROVE Remembers(w) /\ HoldsAll(w)
  BY <1>3, RunsAssumption DEF Init, Remembers, HoldsAll, Holds, Idle, OnConnector
<1> QED BY <1>1, <1>2, <1>3 DEF PInv

\* Every transaction keeps what is known of the pages.
LEMMA PInvStep == IInv /\ PInv /\ [Next]_vars => PInv'
<1> SUFFICES ASSUME IInv, PInv, [Next]_vars PROVE PInv'
  OBVIOUS
<1>1. \A w \in Workers : Remembers(w)' /\ HoldsAll(w)'
  BY RemembersStep, HoldsAllStep
<1> QED BY <1>1, PagesInOrderStep, RowsOfPagesStep DEF PInv

\* The invariant of the pages holds of every behaviour.
LEMMA PagesInvariance == Spec => [](IInv /\ PInv)
<1>1. Init => IInv /\ PInv
  BY InitIInv, InitPInv
<1>2. (IInv /\ PInv) /\ [Next]_vars => (IInv /\ PInv)'
  BY InvStep, PInvStep
<1> QED BY <1>1, <1>2, PTL DEF Spec

\* Whatever crashes, expires, is redelivered or taken over, the stored pages of a connector run are the
\* pages of the source in order.
THEOREM PagesInOrderAlways == Spec => []PagesInOrder
<1>1. PInv => PagesInOrder
  BY DEF PInv
<1> QED BY PagesInvariance, <1>1, PTL

\* A run that was told to stop, or whose requester lost access, stores at most the page in flight.
THEOREM StopIsPromptAlways == Spec => []StopIsPrompt
<1>1. PInv => StopIsPrompt
  <2> SUFFICES ASSUME PInv, NEW r \in Runs PROVE late[r] <= 1
    BY DEF StopIsPrompt
  <2>1. late[r] = 0 \/ late[r] = 1
    BY DEF PInv, RowsOfPages
  <2> QED BY <2>1
<1> QED BY PagesInvariance, <1>1, PTL

\* A source is asked for one page at most max_attempts times, plus once for every takeover.
THEOREM FetchBoundAlways == Spec => []FetchBound
<1>1. IInv /\ PInv => FetchBound
  <2> SUFFICES ASSUME IInv, PInv, NEW r \in Runs, NEW c \in Connectors
               PROVE  tries[r][c] <= MaxAttempts + MaxClaims - 1
    BY DEF FetchBound
  <2>1. tries[r][c] \in Nat /\ claims[r] \in Nat /\ MaxAttempts \in Nat /\ MaxClaims \in Nat
    BY RunsAssumption DEF IInv, TypeOK
  <2>2. tries[r][c] + 1 <= MaxAttempts + claims[r] /\ claims[r] <= MaxClaims
    BY DEF PInv, RowsOfPages
  <2> QED BY <2>1, <2>2
<1> QED BY PagesInvariance, <1>1, PTL

\* A completed run has stored every page of every source.
THEOREM CompletedIsCompleteAlways == Spec => []CompletedIsComplete
<1>1. IInv /\ PInv => CompletedIsComplete
  <2> SUFFICES ASSUME IInv, PInv, NEW r \in Runs, status[r] = "completed", NEW c \in Connectors,
                      NEW p \in 0 .. SourcePages[c] - 1
               PROVE  \E i \in DOMAIN stored[r][c] : stored[r][c][i] = p
    BY DEF CompletedIsComplete
  <2>1. stored[r][c] \in Seq(Nat) /\ Len(stored[r][c]) \in Nat /\ SourcePages[c] \in Nat \ {0}
    BY RunsAssumption DEF IInv, TypeOK
  <2>2. Len(stored[r][c]) >= SourcePages[c]
    BY DEF PInv, RowsOfPages
  <2>3. p \in Nat /\ p < SourcePages[c] /\ p + 1 \in 1 .. Len(stored[r][c]) /\ (p + 1) - 1 = p
    BY <2>1, <2>2
  <2>4. p + 1 \in DOMAIN stored[r][c]
    BY <2>1, <2>3
  <2>5. stored[r][c][p + 1] = p % SourcePages[c]
    BY <2>3, <2>4 DEF PInv, PagesInOrder
  <2>6. p % SourcePages[c] = p
    BY <2>1, <2>3, Remainders
  <2> QED BY <2>4, <2>5, <2>6
<1> QED BY PagesInvariance, <1>1, PTL

-----------------------------------------------------------------------------
(* The refinement: each transaction is a step of the lifecycle an analyst was promised, or none. *)

\* The variables of the lifecycle, as QueryRuns!Lifecycle maps them.
Phase == [r \in Runs |-> CASE status[r] \in {"none", "requested"} -> "none"
                           [] status[r] = "queued" -> "waiting"
                           [] status[r] = "running" -> "working"
                           [] OTHER -> "over"]
Result == [r \in Runs |-> IF Finished(r) THEN status[r] ELSE "none"]
StopPending == [r \in Runs |-> Active(r) /\ cancel[r]]

\* The row of run r ends as the step of the lifecycle says, and the other rows stay.
LEMMA LifecycleStep ==
  ASSUME PromptCancels, IInv, PInv, [Next]_vars
  PROVE  [Lifecycle!Next]_(Lifecycle!vars)
<1>0. /\ status \in [Runs -> RunStatus] /\ cancel \in [Runs -> BOOLEAN]
      /\ status' \in [Runs -> RunStatus] /\ cancel' \in [Runs -> BOOLEAN]
      /\ cstat \in [Runs -> [Connectors -> ConnectorStatus]]
  BY InvStep DEF IInv, TypeOK
<1>1. \A r \in Runs : /\ status[r] \in {"none", "requested"} => Phase[r] = "none"
                      /\ status[r] = "queued" => Phase[r] = "waiting"
                      /\ status[r] = "running" => Phase[r] = "working"
                      /\ status[r] \in Terminal => Phase[r] = "over"
                      /\ Result[r] = IF status[r] \in Terminal THEN status[r] ELSE "none"
  BY DEF Terminal, Unfinished, Finished, Active, Phase, Result
<1>2. \A r \in Runs : /\ status'[r] \in {"none", "requested"} => Phase'[r] = "none"
                      /\ status'[r] = "queued" => Phase'[r] = "waiting"
                      /\ status'[r] = "running" => Phase'[r] = "working"
                      /\ status'[r] \in Terminal => Phase'[r] = "over"
                      /\ Result'[r] = IF status'[r] \in Terminal THEN status'[r] ELSE "none"
  BY DEF Terminal, Unfinished, Finished, Active, Phase, Result
<1>a. \A r \in Runs : StopPending[r] = IF status[r] \in Unfinished /\ cancel[r] THEN TRUE ELSE FALSE
  BY DEF Active, StopPending
<1>b. \A r \in Runs : StopPending'[r] = IF status'[r] \in Unfinished /\ cancel'[r] THEN TRUE ELSE FALSE
  BY DEF Active, StopPending
<1>3. /\ Phase = [r \in Runs |-> Phase[r]] /\ Result = [r \in Runs |-> Result[r]] /\ StopPending = [r \in Runs |-> StopPending[r]]
      /\ Phase' = [r \in Runs |-> Phase'[r]] /\ Result' = [r \in Runs |-> Result'[r]] /\ StopPending' = [r \in Runs |-> StopPending'[r]]
  BY DEF Phase, Result, StopPending
\* What the abstract variables of a run are depends on its status and its cancellation alone.
<1>4. ASSUME NEW r \in Runs, UNCHANGED <<status[r], cancel[r]>> \/ (status'[r] = status[r] /\ ~Active(r))
      PROVE  Phase'[r] = Phase[r] /\ Result'[r] = Result[r] /\ StopPending'[r] = StopPending[r]
  <2>1. status'[r] = status[r] /\ status[r] \in RunStatus
    BY <1>0, <1>4
  <2>2. Phase'[r] = Phase[r]
    BY <2>1 DEF Phase
  <2>3. Result'[r] = Result[r]
    BY <1>1, <1>2, <2>1
  <2>4. StopPending'[r] = StopPending[r]
    BY <1>a, <1>b, <1>4, <2>1 DEF Active
  <2> QED BY <2>2, <2>3, <2>4
<1>v. Lifecycle!vars = <<Phase, Result, stored, StopPending>>
  BY DEF Lifecycle!vars, Phase, Result, StopPending
<1>w. Lifecycle!vars' = <<Phase', Result', stored', StopPending'>>
  BY DEF Lifecycle!vars, Phase, Result, StopPending
<1>5. (Phase' = Phase /\ Result' = Result /\ StopPending' = StopPending /\ stored' = stored) => UNCHANGED Lifecycle!vars
  BY <1>v, <1>w
<1>6. ASSUME NEW q \in Runs
      PROVE  Lifecycle!Submit(q) <=> /\ Phase[q] = "none" /\ Phase' = [Phase EXCEPT ![q] = "waiting"]
                                     /\ Result' = Result /\ stored' = stored /\ StopPending' = StopPending
  BY DEF Lifecycle!Submit, Phase, Result, StopPending
<1>7. ASSUME NEW q \in Runs
      PROVE  Lifecycle!Begin(q) <=> /\ Phase[q] = "waiting" /\ Phase' = [Phase EXCEPT ![q] = "working"]
                                    /\ Result' = Result /\ stored' = stored /\ StopPending' = StopPending
  BY DEF Lifecycle!Begin, Phase, Result, StopPending
<1>8. ASSUME NEW q \in Runs, NEW c \in Connectors
      PROVE  Lifecycle!KeepPage(q, c) <=>
               /\ Phase[q] = "working" /\ Phase' = Phase /\ Result' = Result /\ StopPending' = StopPending
               /\ stored' = [stored EXCEPT ![q][c] = Append(@, Len(@) % SourcePages[c])]
  BY DEF Lifecycle!KeepPage, Phase, Result, StopPending
<1>9. ASSUME NEW T \in SUBSET Runs
      PROVE  Lifecycle!AskStop(T) <=>
               /\ T # {} /\ \A r \in T : Phase[r] \in {"waiting", "working"}
               /\ Phase' = [r \in Runs |-> IF r \in T /\ Phase[r] = "waiting" THEN "over" ELSE Phase[r]]
               /\ Result' = [r \in Runs |-> IF r \in T /\ Phase[r] = "waiting" THEN "canceled" ELSE Result[r]]
               /\ StopPending' = [r \in Runs |-> IF r \in T THEN Phase[r] = "working" ELSE StopPending[r]]
               /\ stored' = stored
  BY DEF Lifecycle!AskStop, Phase, Result, StopPending
<1>10. ASSUME NEW q \in Runs, NEW o \in Terminal
       PROVE  Lifecycle!End(q, o) <=>
               /\ Phase[q] = "working" /\ (StopPending[q] => o = "canceled")
               /\ o = "completed" => \A c \in Connectors : Len(stored[q][c]) >= SourcePages[c]
               /\ Phase' = [Phase EXCEPT ![q] = "over"] /\ Result' = [Result EXCEPT ![q] = o]
               /\ StopPending' = [StopPending EXCEPT ![q] = FALSE] /\ stored' = stored
  BY DEF Lifecycle!End, Phase, Result, StopPending
<1>11. Terminal = Lifecycle!Results
  BY DEF Terminal, Lifecycle!Results
<1> DEFINE Step == Lifecycle!Next
           Stutter == UNCHANGED Lifecycle!vars
<1>s. ASSUME stored' = stored, \A r \in Runs : Phase'[r] = Phase[r] /\ Result'[r] = Result[r] /\ StopPending'[r] = StopPending[r]
      PROVE  Stutter
  <2>1. Phase' = Phase /\ Result' = Result /\ StopPending' = StopPending
    BY <1>3, <1>s
  <2> QED BY <1>5, <1>s, <2>1
<1>12. ASSUME UNCHANGED <<status, cancel, stored>> PROVE Stutter
  BY <1>s, <1>4, <1>12
<1>13. ASSUME NEW q \in Runs, AdmitRun(q) PROVE Stutter
  <2>1. /\ status[q] = "none" /\ status' = [status EXCEPT ![q] = "requested"] /\ UNCHANGED <<cancel, stored>>
    BY <1>13 DEF AdmitRun, connectorVars
  <2>2. Phase'[q] = Phase[q] /\ Result'[q] = Result[q] /\ StopPending'[q] = StopPending[q]
    <3>1. status'[q] = "requested"
      BY <1>0, <2>1
    <3>2. Phase'[q] = Phase[q] /\ Result'[q] = Result[q]
      BY <1>1, <1>2, <2>1, <3>1 DEF Terminal
    <3>3. StopPending'[q] = StopPending[q]
      BY <1>a, <1>b, <2>1, <3>1 DEF Unfinished
    <3> QED BY <3>2, <3>3
  <2>3. \A r \in Runs \ {q} : UNCHANGED <<status[r], cancel[r]>>
    BY <1>0, <2>1
  <2>4. \A r \in Runs \ {q} : Phase'[r] = Phase[r] /\ Result'[r] = Result[r] /\ StopPending'[r] = StopPending[r]
    BY <1>4, <2>3
  <2> QED BY <1>s, <2>1, <2>2, <2>4
<1>14. ASSUME NEW q \in Runs, CreateRun(q) PROVE Step
  <2>1. /\ status[q] = "requested" /\ status' = [status EXCEPT ![q] = "queued"] /\ UNCHANGED <<cancel, stored>>
    BY <1>14 DEF CreateRun, connectorVars
  <2>2. ~cancel[q]
    BY <2>1 DEF PInv, RowsOfPages
  <2>3. Phase[q] = "none" /\ Phase'[q] = "waiting" /\ Result'[q] = Result[q] /\ StopPending'[q] = StopPending[q]
    <3>1. status'[q] = "queued" /\ ~cancel'[q]
      BY <1>0, <2>1, <2>2
    <3>2. Phase[q] = "none" /\ Phase'[q] = "waiting" /\ Result'[q] = Result[q]
      BY <1>1, <1>2, <2>1, <3>1 DEF Terminal
    <3>3. StopPending'[q] = StopPending[q]
      BY <1>a, <1>b, <2>2, <3>1
    <3> QED BY <3>2, <3>3
  <2>4. \A r \in Runs \ {q} : UNCHANGED <<status[r], cancel[r]>>
    BY <1>0, <2>1
  <2>5. \A r \in Runs \ {q} : Phase'[r] = Phase[r] /\ Result'[r] = Result[r] /\ StopPending'[r] = StopPending[r]
    BY <1>4, <2>4
  <2>6. Phase' = [Phase EXCEPT ![q] = "waiting"] /\ Result' = Result /\ StopPending' = StopPending
    BY <1>3, <2>3, <2>5
  <2>7. Lifecycle!Submit(q)
    BY <1>6, <2>1, <2>3, <2>6
  <2> QED BY <2>7 DEF Lifecycle!Next
\* Told to stop: the waiting runs of T end, its running runs are marked.
<1>15. ASSUME NEW T \in SUBSET Runs, T # {}, \A r \in T : Active(r), stored' = stored,
              \A r \in T : cancel'[r] /\ status'[r] = IF status[r] = "queued" THEN "canceled" ELSE status[r],
              \A r \in Runs \ T : UNCHANGED <<status[r], cancel[r]>>
       PROVE  Step
  <2>1. \A r \in Runs \ T : Phase'[r] = Phase[r] /\ Result'[r] = Result[r] /\ StopPending'[r] = StopPending[r]
    BY <1>4, <1>15
  <2>2. ASSUME NEW r \in T
        PROVE  /\ Phase[r] \in {"waiting", "working"}
               /\ Phase'[r] = IF Phase[r] = "waiting" THEN "over" ELSE Phase[r]
               /\ Result'[r] = IF Phase[r] = "waiting" THEN "canceled" ELSE Result[r]
               /\ StopPending'[r] = (Phase[r] = "working")
    <3>1. CASE status[r] = "queued"
      <4>1. status'[r] = "canceled"
        BY <1>15, <3>1
      <4>2. Phase[r] = "waiting" /\ Phase'[r] = "over" /\ Result'[r] = "canceled"
        BY <1>1, <1>2, <3>1, <4>1 DEF Terminal
      <4>3. StopPending'[r] = FALSE
        BY <1>b, <4>1 DEF Unfinished
      <4> QED BY <4>2, <4>3
    <3>2. CASE status[r] = "running"
      <4>1. status'[r] = "running" /\ cancel'[r]
        BY <1>15, <3>2
      <4>2. Phase[r] = "working" /\ Phase'[r] = "working" /\ Result'[r] = Result[r]
        BY <1>1, <1>2, <3>2, <4>1 DEF Terminal
      <4>3. StopPending'[r] = TRUE
        BY <1>b, <4>1 DEF Unfinished
      <4> QED BY <4>2, <4>3
    <3> QED BY <1>15, <3>1, <3>2 DEF Active, Unfinished
  <2>3. /\ Phase' = [r \in Runs |-> IF r \in T /\ Phase[r] = "waiting" THEN "over" ELSE Phase[r]]
        /\ Result' = [r \in Runs |-> IF r \in T /\ Phase[r] = "waiting" THEN "canceled" ELSE Result[r]]
        /\ StopPending' = [r \in Runs |-> IF r \in T THEN Phase[r] = "working" ELSE StopPending[r]]
    <3>1. ASSUME NEW r \in Runs
          PROVE  /\ Phase'[r] = IF r \in T /\ Phase[r] = "waiting" THEN "over" ELSE Phase[r]
                 /\ Result'[r] = IF r \in T /\ Phase[r] = "waiting" THEN "canceled" ELSE Result[r]
                 /\ StopPending'[r] = IF r \in T THEN Phase[r] = "working" ELSE StopPending[r]
      BY <2>1, <2>2
    <3> QED BY <1>3, <3>1
  <2>4. Lifecycle!AskStop(T)
    BY <1>9, <1>15, <2>2, <2>3
  <2> QED BY <2>4 DEF Lifecycle!Next
<1>16. ASSUME NEW q \in Runs, RequestCancel(q) PROVE Step
  <2>1. /\ status[q] \in Unfinished /\ cancel' = [cancel EXCEPT ![q] = TRUE] /\ stored' = stored
        /\ IF status[q] = "queued" THEN status' = [status EXCEPT ![q] = "canceled"] ELSE status' = status
    BY <1>16 DEF RequestCancel, SeenStatus
  <2>2. cancel'[q] /\ status'[q] = IF status[q] = "queued" THEN "canceled" ELSE status[q]
    BY <1>0, <2>1
  <2>3. \A r \in Runs \ {q} : UNCHANGED <<status[r], cancel[r]>>
    BY <1>0, <2>1
  <2> DEFINE T == {q}
  <2>4. T # {} /\ \A r \in T : Active(r)
    BY <2>1 DEF Active
  <2>5. \A r \in T : cancel'[r] /\ status'[r] = IF status[r] = "queued" THEN "canceled" ELSE status[r]
    BY <2>2
  <2>6. T \in SUBSET Runs /\ \A r \in Runs \ T : UNCHANGED <<status[r], cancel[r]>>
    BY <2>3
  <2> HIDE DEF T
  <2> QED BY <1>15, <2>1, <2>4, <2>5, <2>6
<1>17. ASSUME StopRunsForDeletion PROVE Step
  <2> DEFINE T == {r \in Runs : Active(r)}
  <2>1. T # {} /\ stored' = stored
    BY <1>17 DEF StopRunsForDeletion
  <2>2. \A r \in Runs : /\ cancel'[r] = (cancel[r] \/ Active(r))
                        /\ status'[r] = IF status[r] = "queued" THEN "canceled" ELSE status[r]
    BY <1>17 DEF StopRunsForDeletion
  <2>3. \A r \in Runs \ T : UNCHANGED <<status[r], cancel[r]>>
    BY <1>0, <2>2 DEF Active, Unfinished
  <2>4. Step
    BY <1>15, <2>1, <2>2, <2>3
  <2> QED BY <2>4
<1>18. ASSUME NEW w \in Workers, ClaimRun(w) PROVE Step \/ Stutter
  <2> PICK q \in Runs : q = work[w].run
    BY <1>18, LocalTypes DEF ClaimRun, At
  <2>0. q \in Runs /\ stored' = stored /\ cancel' = cancel
    BY <1>18, LocalTypes DEF ClaimRun, At, connectorVars
  <2>1. CASE status' = status
    BY <1>12, <2>0, <2>1
  <2>2. CASE Claimable(q) /\ status' = [status EXCEPT ![q] = "running"]
    <3>1. CASE status[q] = "running"
      <4>1. status' = status
        BY <1>0, <2>2, <3>1
      <4> QED BY <2>1, <4>1
    <3>2. CASE status[q] = "queued"
      <4>1. Phase[q] = "waiting" /\ Phase'[q] = "working" /\ Result'[q] = Result[q] /\ StopPending'[q] = StopPending[q]
        <5>1. status'[q] = "running" /\ cancel'[q] = cancel[q]
          BY <1>0, <2>0, <2>2
        <5>2. Phase[q] = "waiting" /\ Phase'[q] = "working" /\ Result'[q] = Result[q]
          BY <1>1, <1>2, <2>0, <3>2, <5>1 DEF Terminal
        <5>3. StopPending'[q] = StopPending[q]
          BY <1>a, <1>b, <2>0, <3>2, <5>1 DEF Unfinished
        <5> QED BY <5>2, <5>3
      <4>2. \A r \in Runs \ {q} : UNCHANGED <<status[r], cancel[r]>>
        BY <1>0, <2>0, <2>2
      <4>3. \A r \in Runs \ {q} : Phase'[r] = Phase[r] /\ Result'[r] = Result[r] /\ StopPending'[r] = StopPending[r]
        BY <1>4, <4>2
      <4>4. Phase' = [Phase EXCEPT ![q] = "working"] /\ Result' = Result /\ StopPending' = StopPending
        BY <1>3, <4>1, <4>3
      <4>5. Lifecycle!Begin(q)
        BY <1>7, <2>0, <4>1, <4>4
      <4> QED BY <2>0, <4>5 DEF Lifecycle!Next
    <3> QED BY <2>2, <3>1, <3>2 DEF Claimable
  <2> QED BY <1>18, <2>1, <2>2 DEF ClaimRun
\* _apply_final_status ends a run that is running.
<1>19. ASSUME NEW q \in Runs, status[q] = "running", NEW cs, NEW reason, NEW e, ApplyFinalStatus(q, cs, reason, e),
              \A c \in Connectors : cs[c] = "completed" => cstat[q][c] = "completed"
       PROVE  Step
  <2> PICK o \in Terminal : o = FinalStatus(q, cs)
    BY DEF FinalStatus, Terminal
  <2>1. /\ status' = [status EXCEPT ![q] = o] /\ cancel' = cancel /\ stored' = stored
    BY <1>19 DEF ApplyFinalStatus
  <2>2. /\ o \in Terminal
        /\ cancel[q] => o = "canceled"
        /\ o = "completed" => \A c \in Connectors : cs[c] = "completed"
    BY DEF FinalStatus, Terminal
  <2>3. o = "completed" => \A c \in Connectors : Len(stored[q][c]) >= SourcePages[c]
    BY <1>19, <2>2 DEF PInv, RowsOfPages
  <2>4. Phase[q] = "working" /\ Phase'[q] = "over" /\ Result'[q] = o /\ StopPending'[q] = FALSE /\ (StopPending[q] => o = "canceled")
    <3>1. status'[q] = o
      BY <1>0, <2>1
    <3>2. o \notin Unfinished
      BY <2>2 DEF Terminal, Unfinished
    <3>3. StopPending'[q] = FALSE
      BY <1>b, <3>1, <3>2
    <3>4. StopPending[q] => o = "canceled"
      BY <1>a, <2>2
    <3>5. Phase[q] = "working" /\ Phase'[q] = "over" /\ Result'[q] = o
      BY <1>1, <1>2, <1>19, <2>2, <3>1
    <3> QED BY <3>3, <3>4, <3>5
  <2>5. \A r \in Runs \ {q} : UNCHANGED <<status[r], cancel[r]>>
    BY <1>0, <2>1
  <2>6. \A r \in Runs \ {q} : Phase'[r] = Phase[r] /\ Result'[r] = Result[r] /\ StopPending'[r] = StopPending[r]
    BY <1>4, <2>5
  <2>7. Phase' = [Phase EXCEPT ![q] = "over"] /\ Result' = [Result EXCEPT ![q] = o] /\ StopPending' = [StopPending EXCEPT ![q] = FALSE]
    BY <1>3, <2>4, <2>6
  <2>8. Lifecycle!End(q, o)
    <3>1. /\ Phase[q] = "working" /\ (StopPending[q] => o = "canceled")
          /\ o = "completed" => \A c \in Connectors : Len(stored[q][c]) >= SourcePages[c]
          /\ Phase' = [Phase EXCEPT ![q] = "over"] /\ Result' = [Result EXCEPT ![q] = o]
          /\ StopPending' = [StopPending EXCEPT ![q] = FALSE] /\ stored' = stored
      BY <2>1, <2>3, <2>4, <2>7
    <3>2. o \in Terminal
      BY <2>2
    <3> QED BY <1>10, <3>1, <3>2
  <2> QED BY <1>11, <2>2, <2>8 DEF Lifecycle!Next
<1>20. ASSUME NEW w \in Workers, AbandonIfExhausted(w) PROVE Step \/ Stutter
  <2>1. work[w].run \in Runs
    BY <1>20, LocalTypes DEF AbandonIfExhausted, At
  <2>2. CASE UNCHANGED <<status, cancel, stored>>
    BY <1>12, <2>2
  <2>3. CASE /\ status[work[w].run] = "running"
             /\ ApplyFinalStatus(work[w].run, Closed(work[w].run), "closed", "worker_lost")
    <3>1. \A c \in Connectors : Closed(work[w].run)[c] = "completed" => cstat[work[w].run][c] = "completed"
      BY DEF Closed, Cut
    <3> QED BY <1>19, <2>1, <2>3, <3>1
  <2> QED BY <1>20, <2>2, <2>3 DEF AbandonIfExhausted, runVars, connectorVars
<1>21. ASSUME NEW w \in Workers, Finalize(w) PROVE Step
  <2> DEFINE q == work[w].run
             cs == [c \in Connectors |-> IF cstat[q][c] \in Unfinished THEN "canceled" ELSE cstat[q][c]]
  <2>1. q \in Runs /\ status[q] = "running" /\ ApplyFinalStatus(q, cs, "none", err[q])
    BY <1>21 DEF Finalize, Holds
  <2>2. \A c \in Connectors : cs[c] = "completed" => cstat[q][c] = "completed"
    OBVIOUS
  <2> HIDE DEF q, cs
  <2> QED BY <1>19, <2>1, <2>2
<1>22. ASSUME NEW w \in Workers, FailInternal(w) PROVE Step
  <2>1. /\ work[w].run \in Runs /\ status[work[w].run] = "running"
        /\ ApplyFinalStatus(work[w].run, Closed(work[w].run), "closed", "internal_error")
    BY <1>22 DEF FailInternal, Holds
  <2>2. \A c \in Connectors : Closed(work[w].run)[c] = "completed" => cstat[work[w].run][c] = "completed"
    BY DEF Closed, Cut
  <2> QED BY <1>19, <2>1, <2>2
\* A worker that finds the authorization gone asks for the stop itself.
<1>23. ASSUME NEW w \in Workers, NextConnector(w) \/ StartConnector(w) \/ CheckStop(w) \/ FetchPage(w)
       PROVE  Step \/ Stutter
  <2> DEFINE q == work[w].run
  <2>1. status' = status /\ stored' = stored
    BY <1>23 DEF NextConnector, StartConnector, CheckStop, FetchPage, connectorVars
  <2>2. cancel' = cancel \/ RecordStop(q)
    BY <1>23 DEF NextConnector, StartConnector, CheckStop, FetchPage
  <2>3. work[w].pc \notin BeforeClaim
    BY <1>23 DEF NextConnector, StartConnector, CheckStop, FetchPage, BeforeClaim, At
  <2>4. q \in Runs /\ status[q] \in Terminal \cup {"running"}
    BY <2>3, ClaimedRun
  <2>5. CASE cancel' = cancel
    BY <1>12, <2>1, <2>5
  <2>6. CASE cancel' = [cancel EXCEPT ![q] = TRUE]
    <3>1. \A r \in Runs \ {q} : UNCHANGED <<status[r], cancel[r]>>
      BY <1>0, <2>1, <2>6
    <3>2. CASE status[q] = "running"
      <4>1. cancel'[q] /\ status'[q] = IF status[q] = "queued" THEN "canceled" ELSE status[q]
        BY <1>0, <2>1, <2>4, <2>6, <3>2
      <4> DEFINE T == {q}
      <4>2. T # {} /\ \A r \in T : Active(r)
        BY <3>2 DEF Active, Unfinished
      <4>3. \A r \in T : cancel'[r] /\ status'[r] = IF status[r] = "queued" THEN "canceled" ELSE status[r]
        BY <4>1
      <4>4. T \in SUBSET Runs /\ \A r \in Runs \ T : UNCHANGED <<status[r], cancel[r]>>
        BY <2>4, <3>1
      <4> HIDE DEF T
      <4> QED BY <1>15, <2>1, <4>2, <4>3, <4>4
    <3>3. CASE status[q] # "running"
      <4>1. ~Active(q) /\ status'[q] = status[q]
        BY <2>1, <2>4, <3>3 DEF Active, Terminal, Unfinished
      <4>2. \A r \in Runs : Phase'[r] = Phase[r] /\ Result'[r] = Result[r] /\ StopPending'[r] = StopPending[r]
        BY <1>4, <3>1, <4>1
      <4> QED BY <1>s, <2>1, <4>2
    <3> QED BY <3>2, <3>3
  <2> QED BY <2>2, <2>5, <2>6 DEF RecordStop
<1>24. ASSUME NEW w \in Workers, PersistPage(w) PROVE Step \/ Stutter
  <2>1. UNCHANGED <<status, cancel>> /\ (stored' = stored \/ Stores(w))
    <3>1. work[w].idx \in Nat /\ Len(stored[work[w].run][work[w].at]) \in Nat
      BY <1>24, LocalTypes DEF PersistPage, At, IInv, TypeOK, Work, OnConnector
    <3>2. ~(Len(stored[work[w].run][work[w].at]) > work[w].idx)
            => Len(stored[work[w].run][work[w].at]) <= work[w].idx
      BY SMTT(40), <3>1
    <3> QED BY <1>24, <3>2 DEF PersistPage, Stores
  <2>2. CASE stored' = stored
    BY <1>12, <2>1, <2>2
  <2>3. CASE Stores(w)
    <3> DEFINE q == work[w].run
               c == work[w].at
    <3>1. /\ q \in Runs /\ c \in Connectors /\ status[q] = "running"
          /\ stored' = [stored EXCEPT ![q][c] = Append(@, Len(@) % SourcePages[c])]
      BY <2>3, NextPage
    <3>2. \A r \in Runs : Phase'[r] = Phase[r] /\ Result'[r] = Result[r] /\ StopPending'[r] = StopPending[r]
      BY <1>4, <2>1
    <3>3. Phase' = Phase /\ Result' = Result /\ StopPending' = StopPending
      BY <1>3, <3>2
    <3>4. Phase[q] = "working"
      BY <1>1, <3>1
    <3> HIDE DEF q, c
    <3>5. Lifecycle!KeepPage(q, c)
      BY <1>8, <3>1, <3>3, <3>4
    <3> QED BY <3>1, <3>5 DEF Lifecycle!Next
  <2> QED BY <2>1, <2>2, <2>3
<1>25. ASSUME NEW w \in Workers,
              \/ LeaseLost(w) \/ CountAttempt(w) \/ CountRetry(w) \/ WriteErrorCode(w) \/ MarkRunning(w)
              \/ FinishConnector(w) \/ RenewWhileWaiting(w) \/ Crash(w) \/ \E q \in Runs : Receive(w, q)
       PROVE  UNCHANGED <<status, cancel, stored>>
  BY <1>25 DEF LeaseLost, CountAttempt, CountRetry, WriteErrorCode, MarkRunning, FinishConnector, RenewWhileWaiting,
       Crash, Receive, runVars, connectorVars
<1>26. ASSUME NEW q \in Runs,
              \/ \E granted \in BOOLEAN : SetAccess(q, granted)
              \/ Publish(q) \/ PublishUncommitted(q) \/ FindStale(q) \/ RequeueStale(q)
              \/ LoseMessage(q) \/ LeaseExpires(q)
       PROVE  UNCHANGED <<status, cancel, stored>>
  BY <1>26 DEF SetAccess, Publish, PublishUncommitted, FindStale, RequeueStale, LoseMessage, LeaseExpires,
       runVars, connectorVars
<1>27. ASSUME ArchiveCase \/ RestoreCase \/ RequestDeletion \/ UNCHANGED vars
       PROVE  UNCHANGED <<status, cancel, stored>>
  BY <1>27 DEF ArchiveCase, RestoreCase, RequestDeletion, vars, runVars, connectorVars
<1>28. Step \/ Stutter
  <2> HIDE DEF Step, Stutter
  <2>1. CASE UserStep \/ DispatchStep \/ Failure \/ UNCHANGED vars
    <3>1. CASE UserStep
      <4>1. ASSUME NEW q \in Runs, AdmitRun(q) \/ CreateRun(q) \/ RequestCancel(q) PROVE Step \/ Stutter
        BY <1>13, <1>14, <1>16, <4>1
      <4>2. ASSUME NEW q \in Runs, NEW granted \in BOOLEAN, SetAccess(q, granted) PROVE Step \/ Stutter
        BY <1>12, <1>26, <4>2
      <4>3. CASE ArchiveCase \/ RestoreCase \/ RequestDeletion
        BY <1>12, <1>27, <4>3
      <4>4. CASE StopRunsForDeletion
        BY <1>17, <4>4
      <4> QED BY <3>1, <4>1, <4>2, <4>3, <4>4 DEF UserStep
    <3>2. CASE DispatchStep
      BY <1>12, <1>26, <3>2 DEF DispatchStep
    <3>3. CASE Failure
      BY <1>12, <1>25, <1>26, <3>3 DEF Failure
    <3> QED BY <1>12, <1>27, <2>1, <3>1, <3>2, <3>3
  <2>2. ASSUME NEW w \in Workers, WorkerStep(w) \/ RenewWhileWaiting(w) PROVE Step \/ Stutter
    BY <1>12, <1>18, <1>20, <1>21, <1>22, <1>23, <1>24, <1>25, <2>2 DEF WorkerStep
  <2>3. ASSUME NEW w \in Workers, NEW r \in Runs, Receive(w, r) PROVE Step \/ Stutter
    BY <1>12, <1>25, <2>3
  <2> QED BY <2>1, <2>2, <2>3 DEF Next
<1> QED BY <1>28

\* The initial state is the lifecycle's.
LEMMA LifecycleInit == Init => Lifecycle!Init
  BY DEF Init, Lifecycle!Init, Finished, Active, Terminal, Unfinished

\* As long as cancellations see the status as it is, the machinery of workers, leases, messages and recovery
\* implements the lifecycle: each run is executed as if by one worker, once.
THEOREM ImplementsLifecycleAlways ==
  ASSUME PromptCancels PROVE Spec => ImplementsLifecycle
<1>1. (IInv /\ PInv) /\ [Next]_vars => [Lifecycle!Next]_(Lifecycle!vars)
  BY LifecycleStep
<1> QED BY PagesInvariance, LifecycleInit, <1>1, PTL DEF Spec, ImplementsLifecycle, Lifecycle!Spec
================================================================================
