---------------------------- MODULE EvidenceIndexing ----------------------------
(***************************************************************************)
(* The index of a case's evidence: each record has a state, workers claim  *)
(* the due ones with a lease, embed their text outside of any transaction  *)
(* with the model installed when they began, and write the chunks.         *)
(* Analysts add, delete, reindex, cancel, and switch AI off meanwhile.     *)
(***************************************************************************)
EXTENDS Naturals, FiniteSets, Outbox

CONSTANTS
  Workers,
  Records,
  MaxAttempts,  \* settings.ai_index_max_attempts
  MaxModels,    \* bound: models installed, one after the other
  MaxFaults,    \* bound: workers that die or outlive their lease
  MaxEdits      \* bound: requests of analysts

IndexingAssumption ==
  {MaxAttempts, MaxModels} \subseteq Nat \ {0} /\ {MaxFaults, MaxEdits} \subseteq Nat

VARIABLES
  caseOpen,     \* the case is active or archived
  mode,         \* the case allows AI
  model,        \* the embedding model that is installed
  active,       \* the model of the active profile; 0 is none
  state,        \* the row of each record in evidence_index_states
  chunks,       \* the profile of the chunks of each record; 0 is none
  worker,       \* what each worker does
  faults, edits

settingsVars == <<caseOpen, mode, edits>>
vars == <<outboxVars, settingsVars, model, active, state, chunks, worker, faults>>

Models == 1 .. MaxModels
Nobody == "nobody"      \* the token of a batch that ended
NoState == [status |-> "none", holder |-> Nobody, lapsed |-> FALSE, due |-> FALSE, cancel |-> FALSE, attempts |-> 0, profile |-> 0]
Pending == [NoState EXCEPT !.status = "pending", !.due = TRUE]
Idle == [step |-> "idle", digest |-> 0, todo |-> {}]
Settled == {"indexed", "failed", "canceled"}

\* Only errors of the provider look at the attempts.
Counted(n) == IF n < MaxAttempts THEN n + 1 ELSE n

TypeOK ==
  /\ OutboxTypeOK
  /\ {caseOpen, mode} \subseteq BOOLEAN /\ model \in Models /\ active \in Models \cup {0}
  /\ \A r \in Records :
       /\ state[r].status \in Settled \cup {"none", "pending", "indexing"} /\ state[r].holder \in Workers \cup {Nobody}
       /\ {state[r].lapsed, state[r].due, state[r].cancel} \subseteq BOOLEAN
       /\ state[r].attempts \in 0 .. MaxAttempts /\ state[r].profile \in Models \cup {0}
  /\ chunks \in [Records -> Models \cup {0}]
  /\ worker \in [Workers -> [step : {"idle", "claim", "batch", "embed", "write", "look", "close", "close_more"},
                             digest : Models \cup {0}, todo : SUBSET Records]]
  /\ faults \in 0 .. MaxFaults

Init ==
  /\ OutboxInit
  /\ caseOpen = TRUE /\ mode \in BOOLEAN /\ edits = 0
  /\ model = 1 /\ active = 0
  /\ state = [r \in Records |-> NoState] /\ chunks = [r \in Records |-> 0]
  /\ worker = [w \in Workers |-> Idle]
  /\ faults = 0

Allowed == caseOpen /\ mode
Goes(w, step) == worker' = [worker EXCEPT ![w].step = step]

\* The batch is over: nobody has its token any more.
Leaves(w) ==
  /\ worker' = [worker EXCEPT ![w] = Idle]
  /\ state' = [r \in Records |-> IF state[r].holder = w THEN [state[r] EXCEPT !.holder = Nobody] ELSE state[r]]

\* index_case_evidence, and index_case until the claim: the inventory has the model, not (0), or
\* cannot be reached (0).
Begin(w) ==
  /\ worker[w].step = "idle"
  /\ TakeMessage
  /\ IF Allowed
     THEN /\ \E digest \in {model, 0} : worker' = [worker EXCEPT ![w] = [Idle EXCEPT !.step = "claim", !.digest = digest]]
          /\ UNCHANGED outbox
     ELSE UNCHANGED worker /\ MarkDone
  /\ UNCHANGED <<settingsVars, model, active, state, chunks, faults>>

\* Mutant: what a worker that died had claimed is not due again.
DueUnclaimed(r) == state[r].status = "pending" /\ state[r].due

Due(r) ==
  \/ state[r].status = "pending" /\ state[r].due
  \/ state[r].status = "indexing" /\ state[r].lapsed

\* _claim.
Claim(w) ==
  /\ worker[w].step = "claim"
  /\ LET ids == {r \in Records : Due(r)}
     IN /\ state' = [r \in Records |->
              IF r \in ids
              THEN [state[r] EXCEPT !.status = "indexing", !.holder = w, !.lapsed = FALSE, !.attempts = Counted(@)]
              ELSE state[r]]
        /\ worker' = [worker EXCEPT ![w].step = IF ids = {} THEN "look" ELSE "batch", ![w].todo = ids]
  /\ UNCHANGED <<outboxVars, settingsVars, model, active, chunks, faults>>

\* The guard of _finish and _write.
Holds(w, r) == state[r].status = "indexing" /\ state[r].holder = w

\* _finish.
Finish(w, r, status) ==
  state' = IF Holds(w, r) THEN [state EXCEPT ![r].status = status, ![r].holder = Nobody, ![r].lapsed = FALSE, ![r].due = FALSE]
           ELSE state

\* _retry_or_fail.
RetryOrFail(w, r) ==
  IF state[r].attempts < MaxAttempts THEN Finish(w, r, "pending") ELSE Finish(w, r, "failed")

\* The records of a batch are taken one at a time, in its order.
Current(w) == CHOOSE r \in worker[w].todo : TRUE

Rest(w, r) ==
  LET rest == worker[w].todo \ {r}
  IN worker' = [worker EXCEPT ![w].step = IF rest = {} THEN "look" ELSE "batch", ![w].todo = rest]

\* The batch of a model that is not there: it fails, or is tried again if it could not be reached.
NoModel(w) ==
  /\ worker[w].step = "batch" /\ worker[w].digest = 0
  /\ LET r == Current(w)
     IN /\ Finish(w, r, "failed") \/ RetryOrFail(w, r)
        /\ Rest(w, r)
  /\ UNCHANGED <<outboxVars, settingsVars, model, active, chunks, faults>>

\* _index_one reads the record.
ReadRecord(w) ==
  /\ worker[w].step = "batch" /\ worker[w].digest # 0
  /\ LET r == Current(w)
     IN IF state[r].status = "none" THEN Rest(w, r) /\ UNCHANGED state
        ELSE IF state[r].cancel THEN Finish(w, r, "canceled") /\ Rest(w, r)
        ELSE Goes(w, "embed") /\ UNCHANGED state
  /\ UNCHANGED <<outboxVars, settingsVars, model, active, chunks, faults>>

\* The text is read, cut, embedded, and the profile activated; or one of these fails.
Embed(w) ==
  /\ worker[w].step = "embed"
  /\ LET r == Current(w)
     IN \/ Finish(w, r, "failed") /\ Rest(w, r) /\ UNCHANGED active
        \/ RetryOrFail(w, r) /\ Rest(w, r) /\ UNCHANGED active
        \/ active' = worker[w].digest /\ Goes(w, "write") /\ UNCHANGED state
  /\ UNCHANGED <<outboxVars, settingsVars, model, chunks, faults>>

\* Mutant: the case and the request to cancel are looked at before the text is embedded only.
MayWriteAnyway(r) == TRUE

MayWrite(r) == ~state[r].cancel /\ Allowed

\* _write, under the lock of the state and a share lock of the case.
Write(w) ==
  /\ worker[w].step = "write"
  /\ LET r == Current(w)
     IN /\ Rest(w, r)
        /\ IF Holds(w, r) /\ MayWrite(r)
           THEN /\ chunks' = [chunks EXCEPT ![r] = worker[w].digest]
                /\ state' = [state EXCEPT ![r].status = "indexed", ![r].profile = worker[w].digest,
                                          ![r].holder = Nobody, ![r].lapsed = FALSE, ![r].due = FALSE]
           ELSE Finish(w, r, "canceled") /\ UNCHANGED chunks
  /\ UNCHANGED <<outboxVars, settingsVars, model, active, faults>>

\* The end of index_case: what remains is read, then the row of the outbox is written.
Look(w) ==
  /\ worker[w].step = "look"
  /\ Goes(w, IF Allowed /\ \E r \in Records : state[r].status = "pending" THEN "close_more" ELSE "close")
  /\ UNCHANGED <<outboxVars, settingsVars, model, active, state, chunks, faults>>

Close(w) ==
  /\ worker[w].step \in {"close", "close_more"}
  /\ Leaves(w)
  /\ IF worker[w].step = "close_more" THEN Enqueue ELSE MarkDone
  /\ UNCHANGED <<inbox, settingsVars, model, active, chunks, faults>>

BecomesDue(r) ==
  /\ state[r].status = "pending" /\ ~state[r].due
  /\ state' = [state EXCEPT ![r].due = TRUE]
  /\ UNCHANGED <<outboxVars, settingsVars, model, active, chunks, worker, faults>>

LeaseExpires(r) ==
  /\ state[r].status = "indexing" /\ ~state[r].lapsed
  /\ state' = [state EXCEPT ![r].lapsed = TRUE]
  /\ IF state[r].holder # Nobody THEN faults < MaxFaults /\ faults' = faults + 1 ELSE UNCHANGED faults
  /\ UNCHANGED <<outboxVars, settingsVars, model, active, chunks, worker>>

\* A worker dies, or an error that nothing handles ends the batch.
Crash(w) ==
  /\ worker[w].step # "idle" /\ faults < MaxFaults
  /\ faults' = faults + 1
  /\ Leaves(w)
  /\ UNCHANGED <<outboxVars, settingsVars, model, active, chunks>>

-----------------------------------------------------------------------------
(* Analysts, the operator, the dispatcher.                                 *)

Edit == edits < MaxEdits /\ edits' = edits + 1

\* mark_evidence_for_indexing: the state is recorded whatever the case allows.
Mark(r) ==
  /\ caseOpen /\ state[r].status = "none" /\ chunks[r] = 0
  /\ \A w \in Workers : r \notin worker[w].todo
  /\ state' = [state EXCEPT ![r] = Pending]
  /\ IF mode THEN Enqueue ELSE UNCHANGED outbox
  /\ UNCHANGED <<inbox, settingsVars, model, active, chunks, worker, faults>>

\* The evidence is deleted, and with it its state and chunks.
Remove(r) ==
  /\ state[r].status # "none" /\ Edit
  /\ state' = [state EXCEPT ![r] = NoState] /\ chunks' = [chunks EXCEPT ![r] = 0]
  /\ UNCHANGED <<outboxVars, caseOpen, mode, model, active, worker, faults>>

Stale(r) == state[r].status = "indexed" /\ state[r].profile # active

InScope(r, scope) ==
  CASE scope = "failed" -> state[r].status \in {"failed", "canceled"}
    [] scope = "stale" -> Stale(r)
    [] scope = "all" -> state[r].status \notin {"none", "indexing"}

\* request_reindex; the router enqueues the case.  What is claimed keeps its token.
Reindex(scope) ==
  /\ Allowed /\ Edit
  /\ state' = [r \in Records |-> IF InScope(r, scope) THEN [Pending EXCEPT !.profile = state[r].profile] ELSE state[r]]
  /\ Enqueue
  /\ UNCHANGED <<inbox, caseOpen, mode, model, active, chunks, worker, faults>>

\* cancel_indexing.
CancelIndexing ==
  /\ Edit
  /\ state' = [r \in Records |->
       CASE state[r].status = "pending" -> [state[r] EXCEPT !.status = "canceled", !.cancel = TRUE]
         [] state[r].status = "indexing" -> [state[r] EXCEPT !.cancel = TRUE]
         [] OTHER -> state[r]]
  /\ UNCHANGED <<outboxVars, caseOpen, mode, model, active, chunks, worker, faults>>

\* update_case_settings.
SetMode ==
  /\ caseOpen /\ Edit
  /\ mode' = ~mode
  /\ IF mode' THEN Enqueue ELSE UNCHANGED outbox
  /\ UNCHANGED <<inbox, caseOpen, model, active, state, chunks, worker, faults>>

CloseCase ==
  /\ caseOpen /\ caseOpen' = FALSE
  /\ UNCHANGED <<outboxVars, mode, edits, model, active, state, chunks, worker, faults>>

InstallModel ==
  /\ model < MaxModels /\ model' = model + 1
  /\ UNCHANGED <<outboxVars, settingsVars, active, state, chunks, worker, faults>>

\* schedule_index_work: due records and a row that is done or was dispatched long ago.
ScheduleIndexWork ==
  /\ Allowed /\ \E r \in Records : Due(r)
  /\ outbox # "pending"
  /\ Enqueue
  /\ UNCHANGED <<inbox, settingsVars, model, active, state, chunks, worker, faults>>

Dispatch ==
  /\ Publish \/ LoseMessage
  /\ UNCHANGED <<settingsVars, model, active, state, chunks, worker, faults>>

WorkerStep(w) ==
  \/ Claim(w) \/ NoModel(w) \/ ReadRecord(w) \/ Embed(w) \/ Write(w) \/ Look(w) \/ Close(w)

Next ==
  \/ \E w \in Workers : Begin(w) \/ WorkerStep(w) \/ Crash(w)
  \/ Dispatch \/ ScheduleIndexWork
  \/ \E r \in Records : BecomesDue(r) \/ LeaseExpires(r) \/ Mark(r) \/ Remove(r)
  \/ \E scope \in {"failed", "stale", "all"} : Reindex(scope)
  \/ CancelIndexing \/ SetMode \/ CloseCase \/ InstallModel

Spec == Init /\ [][Next]_vars

\* The dispatcher goes on, and sends a message that the broker does not lose (of the fairness).
PublishAgain ==
  /\ Publish /\ outbox' = "dispatched"
  /\ UNCHANGED <<settingsVars, model, active, state, chunks, worker, faults>>

-----------------------------------------------------------------------------
(* Properties.                                                             *)

\* What an analyst decides holds against workers that embed for minutes: a settled record changes only
\* when it is asked for again or deleted, one whose indexing was canceled is not indexed, and nothing
\* is added to the index of a case that was closed or has AI switched off.
IndexingObeys ==
  \A r \in Records :
    /\ state[r].status \in Settled => state'[r].status \in {state[r].status, "pending", "none"}
    /\ state[r].cancel /\ state'[r].status = "indexed" => state[r].status = "indexed"
    /\ chunks'[r] \notin {0, chunks[r]} => Allowed
================================================================================
