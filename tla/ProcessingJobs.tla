----------------------------- MODULE ProcessingJobs -----------------------------
(***************************************************************************)
(* The processing of one imported original: jobs that follow one another,  *)
(* each claimed with a lease, read, staged as files, recorded in one       *)
(* transaction that replaces what the jobs before it recorded, and cleaned *)
(* up.  Analysts cancel, answer, start again and delete meanwhile.         *)
(***************************************************************************)
EXTENDS Naturals, Outbox

CONSTANTS
  Workers,
  MaxAttempts,  \* settings.processing_max_attempts
  MaxJobs,      \* bound: jobs started on the original
  MaxFaults     \* bound: workers that die or outlive their lease

ProcessingAssumption == {MaxAttempts, MaxJobs} \subseteq Nat \ {0} /\ MaxFaults \in Nat

VARIABLES
  kind,         \* the original is a "chat" export or a "document"
  original,     \* its evidence row exists
  caseOpen,     \* the case is active
  access,       \* who started the jobs still is an analyst of the case
  job,          \* the latest job; those before it have ended
  rows,         \* the derived records, one for each recording: <<job, claim>>
  files,        \* the derived files
  worker,       \* what each worker does
  left,         \* files of workers that died
  faults

settingsVars == <<kind, original, caseOpen, access>>
vars == <<outboxVars, settingsVars, job, rows, files, worker, left, faults>>

Idle == [step |-> "idle", of |-> <<0, 0>>, kept |-> FALSE, outcome |-> "none", old |-> {}]
NoJob == [id |-> 0, status |-> "none", attempts |-> 0, claim |-> 0, held |-> FALSE, lapsed |-> FALSE,
          cancel |-> FALSE, answered |-> FALSE]

Active == {"queued", "running", "needs_input"}
Terminal == {"completed", "failed", "canceled"}   \* completed or partial

\* The attempts start anew when the analyst answers, once.
Recordings == (1 .. MaxJobs) \X (1 .. 2 * MaxAttempts)

TypeOK ==
  /\ OutboxTypeOK
  /\ kind \in {"chat", "document"} /\ {original, caseOpen, access} \subseteq BOOLEAN
  /\ job \in [id : 0 .. MaxJobs, status : {"none"} \cup Active \cup Terminal, attempts : 0 .. MaxAttempts,
              claim : 0 .. 2 * MaxAttempts, held : BOOLEAN, lapsed : BOOLEAN, cancel : BOOLEAN, answered : BOOLEAN]
  /\ rows \subseteq Recordings /\ files \subseteq Recordings /\ left \subseteq Recordings
  /\ \A w \in Workers :
       /\ worker[w].step \in {"idle", "access", "read", "renew", "stage", "write", "tidy", "stop", "requeue"}
       /\ worker[w].kept \in BOOLEAN /\ worker[w].old \subseteq Recordings
       /\ worker[w].outcome \in {"none", "needs_input"} \cup Terminal
  /\ faults \in 0 .. MaxFaults

\* store_original_and_queue: the original comes with its first job.
Init ==
  /\ outbox = "pending" /\ inbox = FALSE
  /\ kind \in {"chat", "document"} /\ original = TRUE /\ caseOpen = TRUE /\ access = TRUE
  /\ job = [NoJob EXCEPT !.id = 1, !.status = "queued"]
  /\ rows = {} /\ files = {} /\ left = {}
  /\ worker = [w \in Workers |-> Idle]
  /\ faults = 0

Goes(w, step) == worker' = [worker EXCEPT ![w].step = step]
Returns(w) == worker' = [worker EXCEPT ![w] = Idle]
GoesWith(w, step, outcome) == worker' = [worker EXCEPT ![w].step = step, ![w].outcome = outcome]

\* The guard of every transaction of a worker: the row exists, runs, and has its token.
Owns(w) == job.status = "running" /\ job.held /\ <<job.id, job.claim>> = worker[w].of

\* StagedParts.discard.
Discarded(w) == files' = files \ ({worker[w].of} \ rows)

\* finish.
Ended(status) ==
  /\ job' = [job EXCEPT !.status = status, !.held = FALSE, !.lapsed = FALSE]
  /\ MarkDone

Claimable == job.attempts < MaxAttempts /\ (job.status = "queued" \/ (job.status = "running" /\ job.lapsed))

\* process_import_job: claim and _fail_if_exhausted.
Claim(w) ==
  /\ worker[w].step = "idle"
  /\ TakeMessage
  /\ IF Claimable
     THEN /\ job' = [job EXCEPT !.status = "running", !.attempts = @ + 1, !.claim = @ + 1, !.held = TRUE, !.lapsed = FALSE]
          /\ worker' = [worker EXCEPT ![w] = [Idle EXCEPT !.step = "access", !.of = <<job.id, job.claim + 1>>]]
          /\ UNCHANGED outbox
     ELSE /\ UNCHANGED worker
          /\ IF job.status = "running" /\ job.lapsed THEN Ended("failed") ELSE UNCHANGED <<job, outbox>>
  /\ UNCHANGED <<settingsVars, rows, files, left, faults>>

\* authorization_revoked marks the job whoever holds it by now.
CheckAccess(w) ==
  /\ worker[w].step = "access"
  /\ IF access THEN Goes(w, "read") /\ UNCHANGED job
     ELSE /\ GoesWith(w, "stop", "canceled")
          /\ job' = IF job.id = worker[w].of[1] THEN [job EXCEPT !.cancel = TRUE] ELSE job
  /\ UNCHANGED <<outboxVars, settingsVars, rows, files, left, faults>>

\* _load_original and what is read from it: it cannot be read at all, it needs an answer, an error
\* that may pass, or parts to record.
Read(w) ==
  /\ worker[w].step = "read"
  /\ IF ~original THEN Returns(w)
     ELSE \/ GoesWith(w, "stop", "failed")
          \/ GoesWith(w, "requeue", "none")
          \/ kind = "document" /\ GoesWith(w, "write", "failed")
          \/ kind = "chat" /\ ~job.answered /\ GoesWith(w, "write", "needs_input")
          \/ Goes(w, "renew")
  /\ UNCHANGED <<outboxVars, settingsVars, job, rows, files, left, faults>>

\* renew.  A document keeps the pages it has when the job is canceled; a chat keeps nothing.
Renew(w) ==
  /\ worker[w].step = "renew"
  /\ IF ~Owns(w) THEN Returns(w) /\ UNCHANGED job
     ELSE IF ~access \/ job.cancel \/ ~caseOpen
     THEN /\ IF kind = "document" THEN GoesWith(w, "stage", "canceled") ELSE GoesWith(w, "stop", "canceled")
          /\ job' = [job EXCEPT !.cancel = @ \/ ~access]
     ELSE GoesWith(w, "stage", "completed") /\ job' = [job EXCEPT !.lapsed = FALSE]
  /\ UNCHANGED <<outboxVars, settingsVars, rows, files, left, faults>>

\* stage_part; a document may have no text, and storing may fail.
Stage(w) ==
  /\ worker[w].step = "stage"
  /\ \/ /\ worker' = [worker EXCEPT ![w].step = "write", ![w].kept = TRUE]
        /\ files' = files \cup {worker[w].of}
     \/ /\ kind = "document"
        /\ Goes(w, IF worker[w].outcome = "canceled" THEN "stop" ELSE "write")
        /\ UNCHANGED files
     \/ Goes(w, "requeue") /\ UNCHANGED files
  /\ UNCHANGED <<outboxVars, settingsVars, job, rows, left, faults>>

\* Mutant: what earlier jobs recorded is not superseded.
RecordBesides(w) ==
  /\ rows' = rows \cup IF worker[w].kept THEN {worker[w].of} ELSE {}
  /\ worker' = [worker EXCEPT ![w].step = "tidy"]
  /\ Ended(IF kind = "document" /\ job.cancel THEN "canceled" ELSE worker[w].outcome)
  /\ UNCHANGED files

\* supersede_previous, the new rows, the outcome.
Record(w) ==
  /\ rows' = IF worker[w].kept THEN {worker[w].of} ELSE {}
  /\ worker' = [worker EXCEPT ![w].step = "tidy", ![w].old = rows]
  /\ Ended(IF kind = "document" /\ job.cancel THEN "canceled" ELSE worker[w].outcome)
  /\ UNCHANGED files

\* The transaction of guarded_write and what is done under it.
Write(w) ==
  /\ worker[w].step = "write"
  /\ \/ ~Owns(w) /\ Returns(w) /\ Discarded(w) /\ UNCHANGED <<rows, job, outbox>>
     \/ /\ Owns(w)
        /\ IF ~caseOpen \/ ~access \/ (job.cancel /\ (kind = "chat" \/ worker[w].outcome = "failed"))
           THEN GoesWith(w, "stop", "canceled") /\ Discarded(w) /\ UNCHANGED <<rows, job, outbox>>
           ELSE IF worker[w].outcome \in {"failed", "needs_input"}
           THEN Returns(w) /\ Ended(worker[w].outcome) /\ UNCHANGED <<rows, files>>
           ELSE Record(w)
     \* The transaction fails.
     \/ Owns(w) /\ Goes(w, "requeue") /\ Discarded(w) /\ UNCHANGED <<rows, job, outbox>>
  /\ UNCHANGED <<inbox, settingsVars, left, faults>>

Tidy(w) ==
  /\ worker[w].step = "tidy"
  /\ files' = files \ worker[w].old
  /\ Returns(w)
  /\ UNCHANGED <<outboxVars, settingsVars, job, rows, left, faults>>

\* finish_without_results.
Stop(w) ==
  /\ worker[w].step = "stop"
  /\ Returns(w)
  /\ IF Owns(w) THEN Ended(worker[w].outcome) ELSE UNCHANGED <<job, outbox>>
  /\ UNCHANGED <<inbox, settingsVars, rows, files, left, faults>>

\* requeue_after_retryable_error.
RequeueJob(w) ==
  /\ worker[w].step = "requeue"
  /\ Returns(w)
  /\ IF ~Owns(w) THEN UNCHANGED <<job, outbox>>
     ELSE IF job.attempts >= MaxAttempts THEN Ended("failed")
     ELSE job' = [job EXCEPT !.status = "queued", !.held = FALSE, !.lapsed = FALSE] /\ Enqueue
  /\ UNCHANGED <<inbox, settingsVars, rows, files, left, faults>>

LeaseExpires ==
  /\ job.status = "running" /\ ~job.lapsed
  /\ job' = [job EXCEPT !.lapsed = TRUE]
  /\ IF \E w \in Workers : worker[w].of = <<job.id, job.claim>> THEN faults < MaxFaults /\ faults' = faults + 1 ELSE UNCHANGED faults
  /\ UNCHANGED <<outboxVars, settingsVars, rows, files, worker, left>>

Crash(w) ==
  /\ worker[w].step # "idle" /\ faults < MaxFaults
  /\ faults' = faults + 1
  /\ Returns(w)
  /\ left' = left \cup (IF worker[w].kept THEN {worker[w].of} ELSE {}) \cup worker[w].old
  /\ UNCHANGED <<outboxVars, settingsVars, job, rows, files>>

-----------------------------------------------------------------------------
(* Analysts, the deletion of the case, the dispatcher, housekeeping.       *)

\* start_processing.
Start ==
  /\ original /\ caseOpen /\ access
  /\ job.status \notin Active /\ job.id < MaxJobs
  /\ job' = [NoJob EXCEPT !.id = job.id + 1, !.status = "queued"]
  /\ outbox' = "pending" /\ inbox' = FALSE   \* messages of an ended job find nothing to claim
  /\ UNCHANGED <<settingsVars, rows, files, worker, left, faults>>

\* provide_input.
ProvideInput ==
  /\ caseOpen /\ job.status = "needs_input"
  /\ job' = [job EXCEPT !.status = "queued", !.attempts = 0, !.answered = TRUE]
  /\ Enqueue
  /\ UNCHANGED <<inbox, settingsVars, rows, files, worker, left, faults>>

\* request_cancel.
RequestCancel ==
  /\ job.status \in Active
  /\ IF job.status = "running" THEN job' = [job EXCEPT !.cancel = TRUE] /\ UNCHANGED outbox
     ELSE job' = [job EXCEPT !.status = "canceled", !.cancel = TRUE] /\ MarkDone
  /\ UNCHANGED <<inbox, settingsVars, rows, files, worker, left, faults>>

\* delete_evidence: the job goes with the row, its outbox row stays.
DeleteOriginal ==
  /\ original /\ caseOpen
  /\ original' = FALSE
  /\ job' = [NoJob EXCEPT !.id = job.id]
  /\ rows' = {} /\ files' = files \ rows
  /\ UNCHANGED <<outboxVars, kind, caseOpen, access, worker, left, faults>>

CloseCase ==
  /\ caseOpen /\ access /\ caseOpen' = FALSE
  /\ UNCHANGED <<outboxVars, kind, original, access, job, rows, files, worker, left, faults>>

\* _stop_processing of the deletion of the case.
StopProcessing ==
  /\ ~caseOpen /\ job.status \in Active
  /\ job' = IF job.status = "running" THEN [job EXCEPT !.cancel = TRUE] ELSE [job EXCEPT !.status = "canceled"]
  /\ UNCHANGED <<outboxVars, settingsVars, rows, files, worker, left, faults>>

\* Bound: an analyst loses access, or the case is closed, not both.
LoseAccess ==
  /\ access /\ caseOpen /\ access' = FALSE
  /\ UNCHANGED <<outboxVars, kind, original, caseOpen, job, rows, files, worker, left, faults>>

Stale == job.status = "queued" \/ (job.status = "running" /\ job.lapsed)

Dispatch ==
  /\ Publish \/ Requeue(Stale) \/ LoseMessage
  /\ UNCHANGED <<settingsVars, job, rows, files, worker, left, faults>>

InHands == UNION {{worker[w].of} \cup worker[w].old : w \in {v \in Workers : worker[v].step # "idle"}}

\* reconcile; whoever stages files records them before their grace ends.
Reconcile ==
  /\ files' = files \cap (rows \cup InHands)
  /\ files' # files
  /\ UNCHANGED <<outboxVars, settingsVars, job, rows, worker, left, faults>>

WorkerStep(w) ==
  \/ CheckAccess(w) \/ Read(w) \/ Renew(w) \/ Stage(w)
  \/ Write(w) \/ Tidy(w) \/ Stop(w) \/ RequeueJob(w)

Next ==
  \/ \E w \in Workers : Claim(w) \/ WorkerStep(w) \/ Crash(w)
  \/ Dispatch \/ LeaseExpires \/ Reconcile
  \/ Start \/ ProvideInput \/ RequestCancel \/ DeleteOriginal \/ CloseCase \/ StopProcessing \/ LoseAccess

Spec == Init /\ [][Next]_vars

\* The dispatcher goes on, and sends a message that the broker does not lose (of the fairness).
DispatchAgain ==
  /\ Requeue(Stale) \/ (Publish /\ outbox' = "dispatched")
  /\ UNCHANGED <<settingsVars, job, rows, files, worker, left, faults>>

-----------------------------------------------------------------------------
(* Properties.                                                             *)

\* Readers of the original see the records of one attempt of one job, each with its file, and none of
\* a job that failed or still works: whatever dies, is retried, canceled or started again meanwhile.
RecordsAreWhole ==
  /\ \A r, s \in rows : r = s
  /\ rows \subseteq files
  /\ \A r \in rows : r[1] = job.id => job.status \in {"completed", "canceled"}

\* No attempt leaves files behind that belong to no record, except one whose worker died.
NothingIsLeftBehind == files \subseteq rows \cup InHands \cup left
================================================================================
