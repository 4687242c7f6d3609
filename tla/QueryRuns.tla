------------------------------- MODULE QueryRuns -------------------------------
(***************************************************************************)
(* Execution of the query runs of one case: the outbox row that announces  *)
(* a run, the broker message, the worker that claims the run under a lease *)
(* token, the connectors it executes page by page, cancellation and loss   *)
(* of authorization, and the final status.                                 *)
(*                                                                         *)
(* One action is one database transaction of the program (or one step of   *)
(* the broker, the clock, or a user).  Between two transactions a worker   *)
(* remembers only what the Python code keeps in local variables: `work`.   *)
(*                                                                         *)
(* A lease is the pair (token, expired): `expired` stands for              *)
(* lease_expires_at < now.  A token is a fresh uuid per claim; as every    *)
(* claim increments claim_count, the value of claim_count names it.        *)
(***************************************************************************)
EXTENDS Naturals, Sequences, FiniteSets

CONSTANTS
  Runs,         \* the query runs of the case
  Workers,      \* Celery worker processes (worker and collector services)
  NumConnectors, \* connectors of a run, executed in order of position
  SourcePages,  \* how many pages the source behind each connector has
  MaxPages,     \* limits.max_pages: pages one connector run may store
  MaxClaims,    \* settings.run_max_claims
  MaxAttempts,  \* retry_policy.max_attempts for one page
  NoRun,        \* an idle worker's run
  PromptCancels \* assumption of a run: no run changes between the two reads of request_cancel

Connectors == 1 .. NumConnectors

ASSUME RunsAssumption ==
  /\ NoRun \notin Runs
  /\ NumConnectors \in Nat \ {0}
  /\ SourcePages \in [Connectors -> Nat \ {0}]
  /\ MaxPages \in Nat \ {0}
  /\ MaxClaims \in Nat \ {0}
  /\ MaxAttempts \in Nat \ {0}
  /\ PromptCancels \in BOOLEAN

VARIABLES
  status,     \* query_runs.status ("none": not requested, "requested": API checked the case)
  cancel,     \* query_runs.cancel_requested_at is not null
  err,        \* query_runs.error_code
  token,      \* query_runs.lease_token, 0 for null
  expired,    \* query_runs.lease_expires_at < now
  claims,     \* query_runs.claim_count
  cstat,      \* connector_runs.status
  stop,       \* connector_runs.coverage["stopped_reason"]
  tries,      \* connector_runs.page_attempts of the next page
  stored,     \* committed pages of a connector run: the source page each holds
  outbox,     \* dispatch_outbox.status of the run's row
  followUp,   \* change detection was enqueued and the monitor told of the finish
  inbox,      \* runs with at least one message waiting at the broker
  staleView,  \* rows the dispatcher's requeue query found, not yet re-armed
  access,     \* the requester has analyst access to the case
  caseState,  \* cases.status
  work,       \* what each worker process is doing
  late        \* history: pages stored since the run had a reason to stop

runVars == <<status, cancel, err, token, expired, claims>>
connectorVars == <<cstat, stop, tries, stored>>
dispatchVars == <<outbox, inbox, staleView>>
envVars == <<access, caseState>>
vars == <<runVars, connectorVars, dispatchVars, followUp, envVars, work, late>>

-----------------------------------------------------------------------------
(* Statuses and other small types.                                         *)

Terminal == {"completed", "partial", "failed", "canceled"}
Unfinished == {"queued", "running"}
RunStatus == Unfinished \cup Terminal \cup {"none", "requested"}
ConnectorStatus == Unfinished \cup Terminal
ErrorCodes == {"none", "authorization_revoked", "budget_exhausted",
               "worker_lost", "internal_error"}
StopReasons == {"none", "complete", "page_limit", "canceled", "source", "closed"}
OutboxStatus == {"none", "pending", "dispatched", "done"}
CaseStates == {"active", "archived", "deleting"}

Verdict(s, reason, code) == [status |-> s, stop |-> reason, code |-> code]
Verdicts == [status : ConnectorStatus, stop : StopReasons, code : ErrorCodes]
NoVerdict == Verdict("queued", "none", "none")

\* Steps of execute_run and the functions it calls, named for the next transaction.
PC == {"idle", "claim", "abandon", "next", "start", "mark", "check", "attempt",
       "fetch", "retry", "persist", "code", "finish", "finalize", "failing"}
BeforeClaim == {"idle", "claim", "abandon"}
OnConnector == {"start", "mark", "check", "attempt", "fetch", "retry", "persist", "code",
                "finish"}

Idle == [pc |-> "idle", run |-> NoRun, tok |-> 0, at |-> 1, idx |-> 0,
         page |-> 0, verdict |-> NoVerdict]

Work == [pc : PC, run : Runs \cup {NoRun}, tok : Nat, at : Nat \ {0}, idx : Nat,
         page : Nat, verdict : Verdicts]

TypeOK ==
  /\ status \in [Runs -> RunStatus]
  /\ cancel \in [Runs -> BOOLEAN]
  /\ err \in [Runs -> ErrorCodes]
  /\ token \in [Runs -> Nat]
  /\ expired \in [Runs -> BOOLEAN]
  /\ claims \in [Runs -> Nat]
  /\ cstat \in [Runs -> [Connectors -> ConnectorStatus]]
  /\ stop \in [Runs -> [Connectors -> StopReasons]]
  /\ tries \in [Runs -> [Connectors -> Nat]]
  /\ stored \in [Runs -> [Connectors -> Seq(Nat)]]
  /\ outbox \in [Runs -> OutboxStatus]
  /\ followUp \in [Runs -> BOOLEAN]
  /\ inbox \in SUBSET Runs
  /\ staleView \in SUBSET Runs
  /\ access \in [Runs -> BOOLEAN]
  /\ caseState \in CaseStates
  /\ work \in [Workers -> Work]
  /\ late \in [Runs -> Nat]

-----------------------------------------------------------------------------
(* State predicates of the code.                                           *)

Active(r) == status[r] \in Unfinished
Finished(r) == status[r] \in Terminal

\* A cancellation was requested, or the requester may no longer work on the case.
MustStop(r) == cancel[r] \/ ~access[r]

\* _stop_reason: the run must stop before its next unit of work.
StopReasonWithoutAccess(r) == cancel[r]      \* mutant: the role is not looked up again
StopReason(r) == cancel[r] \/ ~access[r]

\* The row condition of _renew, _finalize and _fail_internal.
HoldsClaimed(w) == work[w].run \in Runs       \* mutant: the update is not conditional
Holds(w) == /\ work[w].run \in Runs
            /\ status[work[w].run] = "running"
            /\ token[work[w].run] = work[w].tok

\* coverage["has_more"]: the source page p has a successor.
HasMoreTooFew(c, p) == p + 2 < SourcePages[c] \* mutant: off by one
HasMore(c, p) == p + 1 < SourcePages[c]

\* coverage["next_cursor"] of a connector run: the source page to ask for next, and
\* SourcePages[c] when the last page left no cursor.
CursorBehind(r, c) ==                         \* mutant: the cursor before the last page
  LET pages == stored[r][c]
  IN IF pages = <<>> THEN 0 ELSE pages[Len(pages)] - 1
CursorForgotten(r, c) == 0                    \* mutant: resumes without next_cursor
Cursor(r, c) ==
  LET pages == stored[r][c]
  IN IF pages = <<>> THEN 0 ELSE pages[Len(pages)] + 1

Collected(r, c) == stored[r][c] # <<>>

\* `collected`: what a connector that stops early becomes.
Cut(collected) == IF collected THEN "partial" ELSE "failed"

-----------------------------------------------------------------------------
Init ==
  /\ status = [r \in Runs |-> "none"]
  /\ cancel = [r \in Runs |-> FALSE]
  /\ err = [r \in Runs |-> "none"]
  /\ token = [r \in Runs |-> 0]
  /\ expired = [r \in Runs |-> FALSE]
  /\ claims = [r \in Runs |-> 0]
  /\ cstat = [r \in Runs |-> [c \in Connectors |-> "queued"]]
  /\ stop = [r \in Runs |-> [c \in Connectors |-> "none"]]
  /\ tries = [r \in Runs |-> [c \in Connectors |-> 0]]
  /\ stored = [r \in Runs |-> [c \in Connectors |-> <<>>]]
  /\ outbox = [r \in Runs |-> "none"]
  /\ followUp = [r \in Runs |-> FALSE]
  /\ inbox = {}
  /\ staleView = {}
  /\ access = [r \in Runs |-> TRUE]
  /\ caseState = "active"
  /\ work = [w \in Workers |-> Idle]
  /\ late = [r \in Runs |-> 0]

-----------------------------------------------------------------------------
(* The API: requests of users.                                             *)

\* WritableCase: the request reads the case and the requester's role first ...
AdmitRun(r) ==
  /\ status[r] = "none"
  /\ caseState = "active"
  /\ access[r]
  /\ status' = [status EXCEPT ![r] = "requested"]
  /\ UNCHANGED <<cancel, err, token, expired, claims, connectorVars, dispatchVars,
                 followUp, envVars, work, late>>

\* ... and commits the run, its connector runs and its outbox row later.
CreateRun(r) ==
  /\ status[r] = "requested"
  /\ status' = [status EXCEPT ![r] = "queued"]
  /\ outbox' = [outbox EXCEPT ![r] = "pending"]
  /\ UNCHANGED <<cancel, err, token, expired, claims, connectorVars, inbox, staleView,
                 followUp, envVars, work, late>>

\* The status request_cancel decides on.  get_run has loaded the run before, and the SELECT ...
\* FOR UPDATE returns that object with the attributes it had: any status the run was in since
\* the request came.
SeenStatus(r) ==
  IF PromptCancels THEN {status[r]}
  ELSE {status[r], "queued"} \cup (IF claims[r] > 0 THEN {"running"} ELSE {})

\* A run that is seen queued is canceled at once, a running one at its next unit of work.  The
\* connector runs are updated where the database has them unfinished.
RequestCancel(r) ==
  /\ caseState # "deleting"
  /\ status[r] \notin {"none", "requested"}
  /\ \E seen \in SeenStatus(r) \cap Unfinished :
       IF seen = "queued"
       THEN /\ status' = [status EXCEPT ![r] = "canceled"]
            /\ cstat' = [cstat EXCEPT ![r] = [c \in Connectors |->
                           IF cstat[r][c] \in Unfinished THEN "canceled" ELSE cstat[r][c]]]
            /\ outbox' = [outbox EXCEPT ![r] = "done"]
       ELSE UNCHANGED <<status, cstat, outbox>>
  /\ cancel' = [cancel EXCEPT ![r] = TRUE]
  /\ UNCHANGED <<err, token, expired, claims, stop, tries, stored, inbox, staleView,
                 followUp, envVars, work, late>>

\* The requester is removed, downgraded to viewer or deactivated; or gets the role back.
SetAccess(r, granted) ==
  /\ access[r] # granted
  /\ access' = [access EXCEPT ![r] = granted]
  /\ late' = [late EXCEPT ![r] = IF cancel[r] THEN @ ELSE 0]
  /\ UNCHANGED <<runVars, connectorVars, dispatchVars, followUp, caseState, work>>

ArchiveCase ==
  /\ caseState = "active"
  /\ \A r \in Runs : ~Active(r)
  /\ caseState' = "archived"
  /\ UNCHANGED <<runVars, connectorVars, dispatchVars, followUp, access, work, late>>

RestoreCase ==
  /\ caseState = "archived"
  /\ caseState' = "active"
  /\ UNCHANGED <<runVars, connectorVars, dispatchVars, followUp, access, work, late>>

RequestDeletion ==
  /\ caseState # "deleting"
  /\ caseState' = "deleting"
  /\ UNCHANGED <<runVars, connectorVars, dispatchVars, followUp, access, work, late>>

\* _stop_runs of the deletion worker: no outbox row is marked done here.
StopRunsForDeletion ==
  /\ caseState = "deleting"
  /\ \E r \in Runs : Active(r) /\ (~cancel[r] \/ status[r] = "queued")
  /\ cancel' = [r \in Runs |-> cancel[r] \/ Active(r)]
  /\ status' = [r \in Runs |-> IF status[r] = "queued" THEN "canceled" ELSE status[r]]
  /\ cstat' = [r \in Runs |-> IF status[r] = "queued"
                              THEN [c \in Connectors |-> "canceled"] ELSE cstat[r]]
  /\ UNCHANGED <<err, token, expired, claims, stop, tries, stored, dispatchVars,
                 followUp, envVars, work, late>>

-----------------------------------------------------------------------------
(* The dispatcher and the broker.                                          *)

PublishAndForget(r) ==                        \* mutant: a sent message counts as done
  /\ outbox[r] = "pending"
  /\ inbox' = inbox \cup {r}
  /\ outbox' = [outbox EXCEPT ![r] = "done"]
  /\ UNCHANGED <<runVars, connectorVars, staleView, followUp, envVars, work, late>>

\* publish: the message goes out before the row's transaction commits, so the row may
\* stay pending although the message was sent.
Publish(r) ==
  /\ outbox[r] = "pending"
  /\ inbox' = inbox \cup {r}
  /\ outbox' = [outbox EXCEPT ![r] = "dispatched"]
  /\ UNCHANGED <<runVars, connectorVars, staleView, followUp, envVars, work, late>>

PublishUncommitted(r) ==
  /\ outbox[r] = "pending"
  /\ r \notin inbox
  /\ inbox' = inbox \cup {r}
  /\ UNCHANGED <<runVars, connectorVars, outbox, staleView, followUp, envVars, work, late>>

\* requeue_stale, the join as its snapshot sees it ...
FindStale(r) ==
  /\ r \notin staleView
  /\ outbox[r] \in {"dispatched", "done"}
  /\ \/ status[r] = "queued"
     \/ status[r] = "running" /\ expired[r]
  /\ staleView' = staleView \cup {r}
  /\ UNCHANGED <<runVars, connectorVars, outbox, inbox, followUp, envVars, work, late>>

\* ... and the row it locks: the outbox columns are read again, the run's are not.
RequeueStale(r) ==
  /\ r \in staleView
  /\ staleView' = staleView \ {r}
  /\ outbox' = [outbox EXCEPT ![r] = IF @ \in {"dispatched", "done"} THEN "pending" ELSE @]
  /\ UNCHANGED <<runVars, connectorVars, inbox, followUp, envVars, work, late>>

LoseMessage(r) ==
  /\ r \in inbox
  /\ inbox' = inbox \ {r}
  /\ UNCHANGED <<runVars, connectorVars, outbox, staleView, followUp, envVars, work, late>>

\* A worker at this step, and a worker whose local variables become `locals`.
At(w, step) == work[w].pc = step
Becomes(w, locals) == work' = [work EXCEPT ![w] = locals]

\* At-least-once delivery: a copy may stay behind (late acknowledgement, visibility timeout).
Receive(w, r) ==
  /\ At(w, "idle")
  /\ r \in inbox
  /\ inbox' \in {inbox, inbox \ {r}}
  /\ Becomes(w, [Idle EXCEPT !.pc = "claim", !.run = r])
  /\ UNCHANGED <<runVars, connectorVars, outbox, staleView, followUp, envVars, late>>

-----------------------------------------------------------------------------
(* The worker.                                                             *)

\* The worker's process dies, or its database connection fails: execute_run keeps the
\* lease; the message may or may not come back.
Crash(w) ==
  /\ ~At(w, "idle")
  /\ inbox' \in {inbox, inbox \cup {work[w].run}}
  /\ Becomes(w, Idle)
  /\ UNCHANGED <<runVars, connectorVars, outbox, staleView, followUp, envVars, late>>

LeaseExpires(r) ==
  /\ status[r] = "running"
  /\ ~expired[r]
  /\ expired' = [expired EXCEPT ![r] = TRUE]
  /\ UNCHANGED <<status, cancel, err, token, claims, connectorVars, dispatchVars,
                 followUp, envVars, work, late>>

ClaimableOnce(r) == status[r] = "queued"      \* mutant: no takeover of an expired lease

Claimable(r) ==
  \/ status[r] = "queued"
  \/ /\ status[r] = "running"
     /\ expired[r]
     /\ claims[r] < MaxClaims

\* A fresh uuid: no claim had it before.
OldToken(r) == IF token[r] = 0 THEN claims[r] + 1 ELSE token[r] \* mutant: a takeover keeps it
NewToken(r) == claims[r] + 1

\* claim_run: one conditional UPDATE.
ClaimRun(w) ==
  /\ At(w, "claim")
  /\ LET r == work[w].run IN
     IF Claimable(r)
     THEN /\ status' = [status EXCEPT ![r] = "running"]
          /\ claims' = [claims EXCEPT ![r] = @ + 1]
          /\ token' = [token EXCEPT ![r] = NewToken(r)]
          /\ expired' = [expired EXCEPT ![r] = FALSE]
          /\ err' = [err EXCEPT ![r] = IF @ = "authorization_revoked" THEN @ ELSE "none"]
          /\ Becomes(w, [work[w] EXCEPT !.pc = "next", !.tok = NewToken(r)])
     ELSE /\ Becomes(w, [work[w] EXCEPT !.pc = "abandon"])
          /\ UNCHANGED <<status, claims, token, expired, err>>
  /\ UNCHANGED <<cancel, connectorVars, dispatchVars, followUp, envVars, late>>

FinalStatusByConnectors(r, cs) ==             \* mutant: cancel_requested_at is not read
  IF \A c \in Connectors : cs[c] = "completed" THEN "completed"
  ELSE IF \A c \in Connectors : cs[c] = "failed" THEN "failed"
  ELSE "partial"

\* _apply_final_status for run r whose connectors end as cs; e is the run's error code.
FinalStatus(r, cs) ==
  IF cancel[r] \/ \E c \in Connectors : cs[c] = "canceled" THEN "canceled"
  ELSE IF \A c \in Connectors : cs[c] = "completed" THEN "completed"
  ELSE IF \A c \in Connectors : cs[c] = "failed" THEN "failed"
  ELSE "partial"

ApplyFinalStatus(r, cs, reason, e) ==
  /\ cstat' = [cstat EXCEPT ![r] = cs]
  /\ stop' = [stop EXCEPT ![r] = [c \in Connectors |->
                IF cstat[r][c] \in Unfinished THEN reason ELSE @[c]]]
  /\ status' = [status EXCEPT ![r] = FinalStatus(r, cs)]
  /\ err' = [err EXCEPT ![r] = e]
  /\ token' = [token EXCEPT ![r] = 0]
  /\ expired' = [expired EXCEPT ![r] = FALSE]
  /\ outbox' = [outbox EXCEPT ![r] = "done"]
  /\ followUp' = [followUp EXCEPT ![r] = TRUE]
  /\ UNCHANGED <<cancel, claims, tries, stored, inbox, staleView, envVars, late>>

ClosedStarted(r) == [c \in Connectors |->      \* mutant: closes only the running one
  IF cstat[r][c] = "running" THEN Cut(Collected(r, c)) ELSE cstat[r][c]]

\* _close_unfinished_connectors: what was collected before is kept.
Closed(r) == [c \in Connectors |->
  IF cstat[r][c] \in Unfinished THEN Cut(Collected(r, c)) ELSE cstat[r][c]]

\* _abandon_if_exhausted, after a claim that found nothing to claim.
AbandonIfExhausted(w) ==
  /\ At(w, "abandon")
  /\ LET r == work[w].run IN
     IF status[r] = "running" /\ expired[r] /\ claims[r] >= MaxClaims
     THEN ApplyFinalStatus(r, Closed(r), "closed", "worker_lost")
     ELSE UNCHANGED <<runVars, connectorVars, dispatchVars, followUp, envVars, late>>
  /\ Becomes(w, Idle)

\* A guarded write of a worker that is no longer the holder raises LeaseLostError; the
\* case is checked before the lease when a page is stored; the progress callback renews
\* the lease during a fetch, the wait for a collection slot before it.
LeaseLost(w) ==
  /\ work[w].pc \in {"start", "mark", "attempt", "fetch", "retry", "persist",
                     "finish", "finalize", "failing"}
  /\ ~Holds(w)
  /\ At(w, "persist") => caseState = "active"
  /\ At(w, "start") => cstat[work[w].run][work[w].at] \in Unfinished
  /\ Becomes(w, Idle)
  /\ UNCHANGED <<runVars, connectorVars, dispatchVars, followUp, envVars, late>>

\* What _stop_reason writes when it finds the authorization gone.  No lease is checked.
RecordStop(r) ==
  /\ cancel' = [cancel EXCEPT ![r] = TRUE]
  /\ err' = [err EXCEPT ![r] = IF cancel[r] THEN @ ELSE "authorization_revoked"]

RenewLease(r) == expired' = [expired EXCEPT ![r] = FALSE]

\* execute_run's loop over the connector runs, with its check before each one.
NextConnector(w) ==
  /\ At(w, "next")
  /\ LET r == work[w].run IN
     \/ /\ work[w].at > NumConnectors
        /\ Becomes(w, [work[w] EXCEPT !.pc = "finalize"])
        /\ UNCHANGED <<cancel, err>>
     \/ /\ work[w].at <= NumConnectors
        /\ StopReason(r)
        /\ RecordStop(r)
        /\ Becomes(w, [work[w] EXCEPT !.pc = "finalize"])
     \/ /\ work[w].at <= NumConnectors
        /\ ~StopReason(r)
        /\ Becomes(w, [work[w] EXCEPT !.pc = "start"])
        /\ UNCHANGED <<cancel, err>>
  /\ UNCHANGED <<status, token, expired, claims, connectorVars, dispatchVars, followUp,
                 envVars, late>>

\* The end of a connector run, decided but not yet written.
Conclude(w, step, verdict) ==
  Becomes(w, [work[w] EXCEPT !.pc = step, !.verdict = verdict])

\* _execute_connector up to the collection slot.  A finished connector is skipped, a
\* connector without implementation or without a free slot in time fails.
StartConnector(w) ==
  /\ At(w, "start")
  /\ LET r == work[w].run
         c == work[w].at IN
     \/ /\ cstat[r][c] \notin Unfinished
        /\ Becomes(w, [work[w] EXCEPT !.pc = "next", !.at = @ + 1])
        /\ UNCHANGED <<cancel, err>>
     \/ /\ cstat[r][c] \in Unfinished
        /\ Conclude(w, "finish", Verdict("failed", "source", "none"))
        /\ UNCHANGED <<cancel, err>>
     \/ /\ cstat[r][c] \in Unfinished
        /\ StopReason(r)
        /\ RecordStop(r)
        /\ Conclude(w, "finish", Verdict("canceled", "canceled", "none"))
     \/ /\ cstat[r][c] \in Unfinished
        /\ Becomes(w, [work[w] EXCEPT !.pc = "mark"])
        /\ UNCHANGED <<cancel, err>>
  /\ UNCHANGED <<status, token, expired, claims, connectorVars, dispatchVars, followUp,
                 envVars, late>>

\* The first write of _run_pages.
MarkRunning(w) ==
  /\ At(w, "mark")
  /\ Holds(w)
  /\ LET r == work[w].run
         c == work[w].at IN
     /\ RenewLease(r)
     /\ cstat' = [cstat EXCEPT ![r][c] = "running"]
     /\ Becomes(w, [work[w] EXCEPT !.pc = "check", !.idx = Len(stored[r][c])])
  /\ UNCHANGED <<status, cancel, err, token, claims, stop, tries, stored, dispatchVars,
                 followUp, envVars, late>>

\* The head of the page loop: cancellation, then the page limit, then the deadline.
CheckStop(w) ==
  /\ At(w, "check")
  /\ LET r == work[w].run
         collected == work[w].idx > 0 IN
     \/ /\ StopReason(r)
        /\ RecordStop(r)
        /\ Conclude(w, "finish", Verdict("canceled", "canceled", "none"))
     \/ /\ ~StopReason(r)
        /\ \/ /\ work[w].idx >= MaxPages
              /\ Conclude(w, "finish", Verdict("partial", "page_limit", "none"))
           \/ /\ work[w].idx < MaxPages
              /\ Conclude(w, "finish", Verdict(Cut(collected), "source", "none"))
           \/ /\ work[w].idx < MaxPages
              /\ Becomes(w, [work[w] EXCEPT !.pc = "attempt"])
        /\ UNCHANGED <<cancel, err>>
  /\ UNCHANGED <<status, token, expired, claims, connectorVars, dispatchVars, followUp,
                 envVars, late>>

\* The attempt is counted, and the worker's copy of the connector run refreshed, before
\* the source is asked.
CountAttempt(w) ==
  /\ At(w, "attempt")
  /\ Holds(w)
  /\ LET r == work[w].run
         c == work[w].at IN
     /\ RenewLease(r)
     /\ tries' = [tries EXCEPT ![r][c] = @ + 1]
     /\ Becomes(w, [work[w] EXCEPT !.pc = "fetch", !.idx = Len(stored[r][c]),
                                   !.page = Cursor(r, c)])
  /\ UNCHANGED <<status, cancel, err, token, claims, cstat, stop, stored, dispatchVars,
                 followUp, envVars, late>>

\* The source page a connector delivers: the one its cursor names, or the first one again
\* when the cursor is missing although the page index is not 0.
Delivered(w) == IF work[w].page < SourcePages[work[w].at] THEN work[w].page ELSE 0

\* Another attempt at the page is allowed.
AttemptsLeftTooMany(w) == tries[work[w].run][work[w].at] <= MaxAttempts \* mutant: off by one
AttemptsLeft(w) == tries[work[w].run][work[w].at] < MaxAttempts

\* connector.fetch_page and the outcomes the loop distinguishes.
FetchPage(w) ==
  /\ At(w, "fetch")
  /\ LET r == work[w].run
         collected == work[w].idx > 0 IN
     \/ /\ Becomes(w, [work[w] EXCEPT !.pc = "persist", !.page = Delivered(w)])
        /\ UNCHANGED <<cancel, err>>
     \/ \* BudgetExhaustedError
        /\ Conclude(w, "code", Verdict(Cut(collected), "source", "budget_exhausted"))
        /\ UNCHANGED <<cancel, err>>
     \/ \* ConnectorError, retryable and attempts left
        /\ AttemptsLeft(w)
        /\ Becomes(w, [work[w] EXCEPT !.pc = "retry"])
        /\ UNCHANGED <<cancel, err>>
     \/ \* ConnectorError
        /\ Conclude(w, "finish", Verdict(Cut(collected), "source", "none"))
        /\ UNCHANGED <<cancel, err>>
     \/ \* ConnectorError(CANCELED) after the connector's own cancellation check
        /\ StopReason(r)
        /\ RecordStop(r)
        /\ Conclude(w, "finish", Verdict("canceled", "canceled", "none"))
     \/ \* an unexpected exception
        /\ Becomes(w, [work[w] EXCEPT !.pc = "failing"])
        /\ UNCHANGED <<cancel, err>>
  /\ UNCHANGED <<status, token, expired, claims, connectorVars, dispatchVars, followUp, envVars, late>>

\* Renewals that do not end a step: the progress callback of a connector at work, and the
\* note that a connector run waits for a collection slot.
RenewWhileWaiting(w) ==
  /\ At(w, "fetch") \/ (At(w, "start") /\ cstat[work[w].run][work[w].at] \in Unfinished)
  /\ Holds(w)
  /\ expired[work[w].run]
  /\ RenewLease(work[w].run)
  /\ UNCHANGED <<status, cancel, err, token, claims, connectorVars, dispatchVars, followUp,
                 envVars, work, late>>

CountRetry(w) ==
  /\ At(w, "retry")
  /\ Holds(w)
  /\ RenewLease(work[w].run)
  /\ Becomes(w, [work[w] EXCEPT !.pc = "check"])
  /\ UNCHANGED <<status, cancel, err, token, claims, connectorVars, dispatchVars, followUp,
                 envVars, late>>

\* _persist_page, and what the loop decides once the page is committed.
PersistPage(w) ==
  /\ At(w, "persist")
  /\ LET r == work[w].run
         c == work[w].at
         p == work[w].page
         already == Len(stored[r][c]) > work[w].idx IN
     \/ \* CaseNotWritableError
        /\ caseState # "active"
        /\ Conclude(w, "finish", Verdict("canceled", "canceled", "none"))
        /\ UNCHANGED <<expired, tries, stored, late>>
     \/ /\ caseState = "active"
        /\ Holds(w)
        /\ RenewLease(r)
        /\ IF already
           THEN UNCHANGED <<tries, stored, late>>
           ELSE /\ stored' = [stored EXCEPT ![r][c] = Append(@, p)]
                /\ tries' = [tries EXCEPT ![r][c] = 0]
                /\ late' = [late EXCEPT ![r] = IF MustStop(r) THEN @ + 1 ELSE @]
        /\ \/ /\ ~HasMore(c, p)
              /\ \E s \in {"completed", "partial", "failed"} :
                   Conclude(w, "finish", Verdict(s, "complete", "none"))
           \/ \* max_items_per_run reached
              /\ HasMore(c, p)
              /\ Conclude(w, "finish", Verdict("partial", "source", "none"))
           \/ /\ HasMore(c, p)
              /\ Becomes(w, [work[w] EXCEPT !.pc = "check", !.idx = Len(stored'[r][c])])
     \/ \* an unexpected exception: rolled back
        /\ Becomes(w, [work[w] EXCEPT !.pc = "failing"])
        /\ UNCHANGED <<expired, tries, stored, late>>
  /\ UNCHANGED <<status, cancel, err, token, claims, cstat, stop, dispatchVars, followUp,
                 envVars>>

\* _finish_connector, first transaction: the run's error code.  No lease is checked.
WriteErrorCode(w) ==
  /\ At(w, "code")
  /\ err' = [err EXCEPT ![work[w].run] = IF @ = "none" THEN work[w].verdict.code ELSE @]
  /\ Becomes(w, [work[w] EXCEPT !.pc = "finish"])
  /\ UNCHANGED <<status, cancel, token, expired, claims, connectorVars, dispatchVars,
                 followUp, envVars, late>>

\* _finish_connector, second transaction.
FinishConnector(w) ==
  /\ At(w, "finish")
  /\ Holds(w)
  /\ LET r == work[w].run
         c == work[w].at IN
     /\ RenewLease(r)
     /\ cstat' = [cstat EXCEPT ![r][c] = work[w].verdict.status]
     /\ stop' = [stop EXCEPT ![r][c] = work[w].verdict.stop]
     /\ Becomes(w, [work[w] EXCEPT !.pc = "next", !.at = @ + 1, !.idx = 0, !.page = 0,
                                   !.verdict = NoVerdict])
  /\ UNCHANGED <<status, cancel, err, token, claims, tries, stored, dispatchVars, followUp,
                 envVars, late>>

\* _finalize: connectors that were not reached are canceled.
Finalize(w) ==
  /\ At(w, "finalize")
  /\ Holds(w)
  /\ LET r == work[w].run
         cs == [c \in Connectors |->
                  IF cstat[r][c] \in Unfinished THEN "canceled" ELSE cstat[r][c]]
     IN ApplyFinalStatus(r, cs, "none", err[r])
  /\ Becomes(w, Idle)

FailInternal(w) ==
  /\ At(w, "failing")
  /\ Holds(w)
  /\ LET r == work[w].run
     IN ApplyFinalStatus(r, Closed(r), "closed", "internal_error")
  /\ Becomes(w, Idle)

-----------------------------------------------------------------------------
UserStep ==
  \/ \E r \in Runs : AdmitRun(r) \/ CreateRun(r) \/ RequestCancel(r)
  \/ \E r \in Runs, granted \in BOOLEAN : SetAccess(r, granted)
  \/ ArchiveCase \/ RestoreCase \/ RequestDeletion \/ StopRunsForDeletion

DispatchStep ==
  \E r \in Runs : \/ Publish(r) \/ PublishUncommitted(r)
                  \/ FindStale(r) \/ RequeueStale(r)

\* One transaction of a worker that has not crashed.
WorkerStep(w) ==
  \/ ClaimRun(w) \/ AbandonIfExhausted(w) \/ LeaseLost(w)
  \/ NextConnector(w) \/ StartConnector(w) \/ MarkRunning(w)
  \/ CheckStop(w) \/ CountAttempt(w) \/ FetchPage(w) \/ CountRetry(w)
  \/ PersistPage(w) \/ WriteErrorCode(w) \/ FinishConnector(w)
  \/ Finalize(w) \/ FailInternal(w)

Failure ==
  \/ \E r \in Runs : LoseMessage(r) \/ LeaseExpires(r)
  \/ \E w \in Workers : Crash(w)

Next ==
  \/ UserStep
  \/ DispatchStep
  \/ \E w \in Workers, r \in Runs : Receive(w, r)
  \/ \E w \in Workers : WorkerStep(w) \/ RenewWhileWaiting(w)
  \/ Failure

Spec == Init /\ [][Next]_vars

-----------------------------------------------------------------------------
(* Safety.                                                                 *)

\* Two workers never both pass the lease check of one run, whatever was redelivered,
\* expired or renewed in between.
OneHolder ==
  \A v, w \in Workers :
    Holds(v) /\ Holds(w) /\ work[v].run = work[w].run => v = w

\* A run that a worker executes and that a cancel request, which had read it as queued, ended
\* under the worker.  Nothing of the sort happens while cancellations are prompt.
Interrupted(r) ==
  /\ ~PromptCancels
  /\ status[r] = "canceled"
  /\ cancel[r]
  /\ token[r] = claims[r]
  /\ ~followUp[r]

\* A finished run has no connector left unfinished.  It holds no lease, and is handed to change
\* detection and its monitor exactly when a worker ever executed it, whether it ended completed,
\* failed, partial or canceled; the one exception is a run that a cancel request, decided on an old
\* status, took from the worker that executed it: it keeps its lease and is not handed on.  Nothing
\* is handed on before its run is finished.
FinishedRunIsClosed ==
  \A r \in Runs :
    /\ Finished(r) => \A c \in Connectors : cstat[r][c] \in Terminal
    /\ Finished(r) => \/ token[r] = 0 /\ (followUp[r] <=> claims[r] > 0)
                      \/ Interrupted(r)
    /\ followUp[r] => Finished(r) /\ token[r] = 0 /\ claims[r] > 0

\* A run that is not finished is never marked done in the outbox: the dispatcher can
\* always find it again.
NeverForgotten ==
  \A r \in Runs : Active(r) => outbox[r] \in {"pending", "dispatched"}

\* Crashes and takeovers never leave a gap in a connector run: every stored page follows
\* the one before it at the source, or starts again at the first page.
PagesInOrder ==
  \A r \in Runs, c \in Connectors :
    \A i \in DOMAIN stored[r][c] : stored[r][c][i] = (i - 1) % SourcePages[c]

\* A completed run has stored every page of every source.
CompletedIsComplete ==
  \A r \in Runs : status[r] = "completed" =>
    \A c \in Connectors : \A p \in 0 .. SourcePages[c] - 1 :
      \E i \in DOMAIN stored[r][c] : stored[r][c][i] = p

\* After a cancellation, or once the requester has lost access, at most the page that was
\* in flight is still stored, across all workers and takeovers.
StopIsPrompt == \A r \in Runs : late[r] <= 1

\* A source is asked for one page at most max_attempts times, plus once for every worker
\* that took the run over.
FetchBound ==
  \A r \in Runs, c \in Connectors : tries[r][c] <= MaxAttempts + MaxClaims - 1

\* No step changes what a finished run has collected, its connectors' outcomes, its lease, its
\* claims or its hand-over; and none changes its status, except that a cancel request decided on an
\* old status makes it canceled.
FinishedIsFinal ==
  [][\A r \in Runs : Finished(r) =>
       /\ UNCHANGED <<token[r], claims[r], cstat[r], stored[r], followUp[r]>>
       /\ \/ UNCHANGED status[r]
          \/ ~PromptCancels /\ status[r]' = "canceled" /\ cancel[r]']_vars

\* The execution machinery implements the promise made to the analyst.
Lifecycle == INSTANCE RunLifecycle WITH
  phase <- [r \in Runs |-> CASE status[r] \in {"none", "requested"} -> "none"
                             [] status[r] = "queued" -> "waiting"
                             [] status[r] = "running" -> "working"
                             [] OTHER -> "over"],
  result <- [r \in Runs |-> IF Finished(r) THEN status[r] ELSE "none"],
  kept <- stored,
  stopPending <- [r \in Runs |-> Active(r) /\ cancel[r]]

\* Leases, redelivery and recovery are invisible: each run is executed as if by one worker,
\* once; it ends canceled when a stop was asked for, and complete when it says so.
ImplementsLifecycle == Lifecycle!Spec

-----------------------------------------------------------------------------
(* The inductive invariant behind the safety theorems (QueryRuns_proofs).                *)

\* A worker that claimed a run carries the token of that claim, which no later claim
\* repeats; a worker on a connector is on one of the run's.
WorkersAreConsistent ==
  \A w \in Workers :
    /\ At(w, "idle") <=> work[w].run = NoRun
    /\ work[w].pc \in BeforeClaim => work[w].tok = 0
    /\ work[w].pc \notin BeforeClaim => work[w].tok \in 1 .. claims[work[w].run]
    /\ work[w].pc \in OnConnector => work[w].at \in Connectors

TokensAreUnique ==
  \A v, w \in Workers :
    work[v].run = work[w].run /\ work[v].tok = work[w].tok /\ work[v].tok # 0 => v = w

\* The claim counter and the outbox row follow the status, and a running run has the token of
\* its last claim.
RowsAreConsistent ==
  \A r \in Runs :
    /\ status[r] = "running" => token[r] = claims[r] /\ claims[r] > 0
    /\ status[r] \in {"none", "requested", "queued"} => claims[r] = 0
    /\ Finished(r) => \A c \in Connectors : cstat[r][c] \in Terminal
    /\ Active(r) => outbox[r] \in {"pending", "dispatched"}

\* A run that is not running has no token, and one that a worker executed is handed on when it
\* finishes, unless it was interrupted.
RowIsClosed(r) ==
  /\ followUp[r] => Finished(r)
  /\ status[r] \in {"none", "requested", "queued"} => token[r] = 0
  /\ Finished(r) => \/ token[r] = 0 /\ (followUp[r] <=> claims[r] > 0)
                    \/ Interrupted(r)

RowsAreClosed == \A r \in Runs : RowIsClosed(r)

IInv == TypeOK /\ WorkersAreConsistent /\ TokensAreUnique /\ RowsAreConsistent /\ RowsAreClosed

-----------------------------------------------------------------------------
(* Liveness.  The dispatcher's loop and the living workers keep running.  A message is   *)
(* not lost forever, and a worker does not die forever between receiving a message and   *)
(* the claim, or the abandonment, that follows; it may die anywhere else any number of   *)
(* times.  A lease that no living worker holds runs out.  The waits for a slot and for a *)
(* source end (the connector's timeout), so they are steps a worker takes, too.          *)

Orphaned(r) == \A w \in Workers : ~(work[w].run = r /\ work[w].tok = token[r])

Fairness ==
  /\ \A r \in Runs : /\ WF_vars(Publish(r))
                     /\ WF_vars(FindStale(r))
                     /\ WF_vars(RequeueStale(r))
                     /\ WF_vars(Orphaned(r) /\ LeaseExpires(r))
                     /\ SF_vars(\E w \in Workers : Receive(w, r))
  /\ \A w \in Workers : /\ WF_vars(WorkerStep(w))
                        /\ SF_vars(ClaimRun(w))
                        /\ SF_vars(AbandonIfExhausted(w))

FairSpec == Spec /\ Fairness

\* No run stays queued or running forever.
EveryRunFinishes == \A r \in Runs : Active(r) ~> Finished(r)

\* A run that was told to stop while unfinished ends canceled, whoever finishes it.
CancelSticks == \A r \in Runs : (Active(r) /\ cancel[r]) ~> status[r] = "canceled"

-----------------------------------------------------------------------------
\* What docs/adr/0004:70-71 says and the code does not do: "a reclaimed run resumes after the last
\* committed page without duplicates".
ResumesWithoutDuplicates ==
  \A r \in Runs, c \in Connectors : \A i, j \in DOMAIN stored[r][c] :
    stored[r][c][i] = stored[r][c][j] => i = j
=============================================================================
