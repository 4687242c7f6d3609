------------------------------- MODULE CaseFiles -------------------------------
(***************************************************************************)
(* A case, its evidence records and their files.  Analysts import and      *)
(* delete evidence, a run or job records what it collects, the operator    *)
(* reconciles the files, and the case is archived, restored and deleted    *)
(* by requests that decide on what they loaded before.                     *)
(***************************************************************************)
EXTENDS Naturals, FiniteSets

CONSTANTS
  Importers,    \* requests that import one record each
  Workers,      \* workers that execute deletions
  Deletions,    \* requests to delete the case
  First,        \* the evidence there is
  MaxFaults     \* bound: failures, crashes and leases that end too early

CaseFilesAssumption ==
  /\ First \notin Importers /\ {"run", "none"} \cap (Importers \cup {First}) = {}
  /\ MaxFaults \in Nat

VARIABLES
  caseStatus,   \* cases.status; "gone" once the row is deleted
  pending,      \* the requests that have passed their checks
  rows, files,  \* the evidence with a row, with a file
  young,        \* the files stored within the grace of the reconciliation
  importer,     \* what each import does
  run,          \* the run or job that works on the case: its step and lease
  removal,      \* the evidence that delete_evidence is removing
  deletion,     \* each row of case_deletions
  worker,       \* what each deletion worker does
  scan,         \* what the reconciliation has read
  broken,       \* evidence whose deletion removed the file and failed
  left,         \* files of requests and workers that died
  faults

requestVars == <<importer, run, removal, scan>>
deletionVars == <<deletion, worker>>
vars == <<caseStatus, pending, rows, files, young, requestVars, deletionVars, broken, left, faults>>

Evidence == Importers \cup {First, "run"}
None == "none"
NoScan == [old |-> {}, known |-> {}, step |-> "idle"]
Kinds == {"archive", "restore"} \cup Deletions

TypeOK ==
  /\ caseStatus \in {"active", "archived", "deleting", "deletion_failed", "gone"}
  /\ pending \subseteq Kinds
  /\ \A s \in {rows, files, young, broken, left} : s \subseteq Evidence
  /\ importer \in [Importers -> {"idle", "stored", "failing", "ended"}]
  /\ run \in [step : {"working", "staged", "ended"}, live : BOOLEAN, cancel : BOOLEAN]
  /\ removal \in Evidence \cup {None}
  /\ deletion \in [Deletions -> [status : {"none", "queued", "running", "completed", "failed"}, lapsed : BOOLEAN]]
  /\ worker \in [Workers -> [step : {"idle", "cancel_runs", "waiting", "remove_files", "delete_records", "verify", "complete", "failed"},
                             of : Deletions \cup {None}]]
  /\ scan \in [old : SUBSET Evidence, known : SUBSET Evidence, step : {"idle", "old", "known"}]
  /\ faults \in 0 .. MaxFaults

Init ==
  /\ caseStatus = "active" /\ pending = {}
  /\ rows = {First} /\ files = {First} /\ young = {}
  /\ importer = [i \in Importers |-> "idle"]
  /\ run = [step |-> "working", live |-> TRUE, cancel |-> FALSE]
  /\ removal = None /\ scan = NoScan
  /\ deletion = [d \in Deletions |-> [status |-> "none", lapsed |-> FALSE]]
  /\ worker = [w \in Workers |-> [step |-> "idle", of |-> None]]
  /\ broken = {} /\ left = {} /\ faults = 0

Fault == faults < MaxFaults /\ faults' = faults + 1

\* lock_case_for_write: a share lock on the row of the case until the transaction ends.
Locked == removal # None \/ \E i \in Importers : importer[i] = "stored"
Exists == caseStatus # "gone"

\* The files that somebody at work has stored and will record or remove.
InHands ==
  {i \in Importers : importer[i] \in {"stored", "failing"}} \cup (IF run.step = "staged" THEN {"run"} ELSE {})

-----------------------------------------------------------------------------
(* import_evidence.                                                        *)

Store(f) == files' = files \cup {f} /\ young' = young \cup {f}

ImportStore(i) ==
  /\ importer[i] = "idle" /\ caseStatus = "active"
  /\ Store(i)
  /\ importer' = [importer EXCEPT ![i] = "stored"]
  /\ UNCHANGED <<caseStatus, pending, rows, run, removal, scan, deletionVars, broken, left, faults>>

ImportCommit(i) ==
  /\ importer[i] = "stored"
  /\ rows' = rows \cup {i}
  /\ importer' = [importer EXCEPT ![i] = "ended"]
  /\ UNCHANGED <<caseStatus, pending, files, young, run, removal, scan, deletionVars, broken, left, faults>>

\* The transaction is rolled back, then the file goes.
ImportFails(i) ==
  /\ importer[i] = "stored" /\ Fault
  /\ importer' = [importer EXCEPT ![i] = "failing"]
  /\ UNCHANGED <<caseStatus, pending, rows, files, young, run, removal, scan, deletionVars, broken, left>>

ImportCleansUp(i) ==
  /\ importer[i] = "failing"
  /\ files' = files \ {i} /\ young' = young \ {i}
  /\ importer' = [importer EXCEPT ![i] = "ended"]
  /\ UNCHANGED <<caseStatus, pending, rows, run, removal, scan, deletionVars, broken, left, faults>>

ImportDies(i) ==
  /\ importer[i] \in {"stored", "failing"} /\ Fault
  /\ importer' = [importer EXCEPT ![i] = "ended"]
  /\ left' = left \cup {i}
  /\ UNCHANGED <<caseStatus, pending, rows, files, young, run, removal, scan, deletionVars, broken>>

-----------------------------------------------------------------------------
(* The run or job at work: it takes no lock until it records.              *)

RunStages ==
  /\ run.step = "working"
  /\ Store("run")
  /\ run' = [run EXCEPT !.step = "staged"]
  /\ UNCHANGED <<caseStatus, pending, rows, importer, removal, scan, deletionVars, broken, left, faults>>

\* guarded_write, which a canceled document passes too, or the discard of what was staged.
RunRecords ==
  /\ run.step = "staged"
  /\ run' = [run EXCEPT !.step = "ended", !.live = FALSE]
  /\ \/ caseStatus = "active" /\ rows' = rows \cup {"run"} /\ UNCHANGED <<files, young>>
     \/ files' = files \ {"run"} /\ young' = young \ {"run"} /\ UNCHANGED rows
  /\ UNCHANGED <<caseStatus, pending, importer, removal, scan, deletionVars, broken, left, faults>>

RunStops ==
  /\ run.step = "working" /\ (run.cancel \/ ~run.live)
  /\ run' = [run EXCEPT !.step = "ended", !.live = FALSE]
  /\ UNCHANGED <<caseStatus, pending, rows, files, young, importer, removal, scan, deletionVars, broken, left, faults>>

RunLeaseExpires ==
  /\ run.live /\ Fault
  /\ run' = [run EXCEPT !.live = FALSE]
  /\ UNCHANGED <<caseStatus, pending, rows, files, young, importer, removal, scan, deletionVars, broken, left>>

-----------------------------------------------------------------------------
(* delete_evidence: the file, then the row, in one transaction.            *)

RemoveFile(e) ==
  /\ removal = None /\ caseStatus = "active" /\ e \in rows \ {"run"}
  /\ removal' = e
  /\ files' = files \ {e} /\ young' = young \ {e}
  /\ UNCHANGED <<caseStatus, pending, rows, importer, run, scan, deletionVars, broken, left, faults>>

RemoveRow ==
  /\ removal # None /\ removal' = None
  /\ \/ rows' = rows \ {removal} /\ broken' = broken \ {removal} /\ UNCHANGED faults
     \/ Fault /\ broken' = broken \cup {removal} /\ UNCHANGED rows
  /\ UNCHANGED <<caseStatus, pending, files, young, importer, run, scan, deletionVars, left>>

-----------------------------------------------------------------------------
(* reconcile: the cutoff, then the rows, then the files.                   *)

\* Whoever stored a file records or removes it within the grace.
Ages(f) ==
  /\ f \in young \ InHands
  /\ young' = young \ {f}
  /\ UNCHANGED <<caseStatus, pending, rows, files, requestVars, deletionVars, broken, left, faults>>

\* Mutant: every file without a row is an orphan.
OldFilesWithoutGrace == files

OldFiles == files \ young

ScanStarts ==
  /\ scan.step = "idle"
  /\ scan' = [NoScan EXCEPT !.old = OldFiles, !.step = "old"]
  /\ UNCHANGED <<caseStatus, pending, rows, files, young, importer, run, removal, deletionVars, broken, left, faults>>

ScanRows ==
  /\ scan.step = "old"
  /\ scan' = [scan EXCEPT !.known = rows, !.step = "known"]
  /\ UNCHANGED <<caseStatus, pending, rows, files, young, importer, run, removal, deletionVars, broken, left, faults>>

Quarantine ==
  /\ scan.step = "known" /\ scan' = NoScan
  /\ files' = files \ (scan.old \ scan.known)
  /\ UNCHANGED <<caseStatus, pending, rows, young, importer, run, removal, deletionVars, broken, left, faults>>

-----------------------------------------------------------------------------
(* archive_case, restore_case and request_deletion: the check on the       *)
(* status that was loaded, then the write.                                 *)

Passes(k) ==
  CASE k = "archive" -> caseStatus = "active" /\ run.step = "ended"
    [] k = "restore" -> caseStatus = "archived"
    [] k \in Deletions -> caseStatus \in {"active", "archived"} /\ deletion[k].status = "none"

Load(k) ==
  /\ k \notin pending /\ Passes(k)
  /\ pending' = pending \cup {k}
  /\ UNCHANGED <<caseStatus, rows, files, young, requestVars, deletionVars, broken, left, faults>>

SetStatus(k, status) ==
  /\ k \in pending /\ Exists /\ ~Locked
  /\ pending' = pending \ {k}
  /\ caseStatus' = status
  /\ UNCHANGED <<rows, files, young, requestVars, worker, broken, left, faults>>

Archive == SetStatus("archive", "archived") /\ UNCHANGED deletion
Restore == SetStatus("restore", "active") /\ UNCHANGED deletion
RequestDeletion(d) == SetStatus(d, "deleting") /\ deletion' = [deletion EXCEPT ![d].status = "queued"]

\* retry_deletion.
Retry(d) ==
  /\ deletion[d].status = "failed" /\ ~Locked
  /\ deletion' = [deletion EXCEPT ![d] = [status |-> "queued", lapsed |-> FALSE]]
  /\ caseStatus' = IF Exists THEN "deleting" ELSE "gone"
  /\ UNCHANGED <<pending, rows, files, young, requestVars, worker, broken, left, faults>>

-----------------------------------------------------------------------------
(* execute_deletion.  Its row has no token, and only the claim checks it.  *)

Goes(w, step) == worker' = [worker EXCEPT ![w].step = step]
Frees(w) == worker' = [worker EXCEPT ![w] = [step |-> "idle", of |-> None]]
SetDeletion(w, status) == deletion' = [deletion EXCEPT ![worker[w].of] = [status |-> status, lapsed |-> FALSE]]

\* _claim, for a message of the outbox, which requeue_stale sends again as long as the row is
\* queued, or runs with an expired lease, whatever the state of the outbox.
Claim(w, d) ==
  /\ worker[w].step = "idle"
  /\ deletion[d].status = "queued" \/ (deletion[d].status = "running" /\ deletion[d].lapsed)
  /\ deletion' = [deletion EXCEPT ![d] = [status |-> "running", lapsed |-> FALSE]]
  /\ worker' = [worker EXCEPT ![w] = [step |-> "cancel_runs", of |-> d]]
  /\ UNCHANGED <<caseStatus, pending, rows, files, young, requestVars, broken, left, faults>>

\* _stop_runs, _stop_processing, _stop_ai_work: who holds a lease is waited for.
CancelRuns(w) ==
  /\ worker[w].step = "cancel_runs"
  /\ IF Exists
     THEN /\ ~Locked
          /\ caseStatus' = "deleting"
          /\ run' = [run EXCEPT !.cancel = TRUE]
          /\ Goes(w, IF run.step # "ended" /\ run.live THEN "waiting" ELSE "remove_files")
     ELSE Goes(w, "remove_files") /\ UNCHANGED <<caseStatus, run>>
  /\ UNCHANGED <<pending, rows, files, young, importer, removal, scan, deletion, broken, left, faults>>

Waits(w) ==
  /\ worker[w].step = "waiting"
  /\ SetDeletion(w, "queued") /\ Frees(w)
  /\ UNCHANGED <<caseStatus, pending, rows, files, young, requestVars, broken, left, faults>>

RemoveFiles(w) ==
  /\ worker[w].step = "remove_files"
  /\ files' = {} /\ young' = {}
  /\ deletion' = [deletion EXCEPT ![worker[w].of].lapsed = FALSE]
  /\ Goes(w, "delete_records")
  /\ UNCHANGED <<caseStatus, pending, rows, requestVars, broken, left, faults>>

DeleteRecords(w) ==
  /\ worker[w].step = "delete_records" /\ ~Locked
  /\ caseStatus' = "gone" /\ rows' = {}
  /\ Goes(w, "verify")
  /\ UNCHANGED <<pending, files, young, requestVars, deletion, broken, left, faults>>

\* Mutant: only the rows are verified.
VerifyRows(w) ==
  /\ worker[w].step = "verify"
  /\ Goes(w, "complete")
  /\ UNCHANGED <<caseStatus, pending, rows, files, young, requestVars, deletion, broken, left, faults>>

Verify(w) ==
  /\ worker[w].step = "verify"
  /\ files' = {} /\ young' = {}
  /\ Goes(w, "complete")
  /\ UNCHANGED <<caseStatus, pending, rows, requestVars, deletion, broken, left, faults>>

Complete(w) ==
  /\ worker[w].step = "complete"
  /\ SetDeletion(w, "completed") /\ Frees(w)
  /\ UNCHANGED <<caseStatus, pending, rows, files, young, requestVars, broken, left, faults>>

\* An error in any step; files may have been removed already.
Fails(w) ==
  /\ worker[w].step \in {"cancel_runs", "remove_files", "delete_records", "verify"} /\ Fault
  /\ files' \in IF worker[w].step \in {"remove_files", "verify"} THEN {files, {}} ELSE {files}
  /\ young' = young \cap files'
  /\ Goes(w, "failed")
  /\ UNCHANGED <<caseStatus, pending, rows, requestVars, deletion, broken, left>>

\* The handler writes whoever has the row by now.
RecordFailure(w) ==
  /\ worker[w].step = "failed" /\ ~Locked
  /\ SetDeletion(w, "failed") /\ Frees(w)
  /\ caseStatus' = IF Exists THEN "deletion_failed" ELSE "gone"
  /\ UNCHANGED <<pending, rows, files, young, requestVars, broken, left, faults>>

WorkerDies(w) ==
  /\ worker[w].step # "idle" /\ Fault
  /\ Frees(w)
  /\ UNCHANGED <<caseStatus, pending, rows, files, young, requestVars, deletion, broken, left>>

LeaseExpires(d) ==
  /\ deletion[d].status = "running" /\ ~deletion[d].lapsed
  /\ deletion' = [deletion EXCEPT ![d].lapsed = TRUE]
  /\ IF \E w \in Workers : worker[w].of = d THEN Fault ELSE UNCHANGED faults
  /\ UNCHANGED <<caseStatus, pending, rows, files, young, requestVars, worker, broken, left>>

-----------------------------------------------------------------------------
Import(i) == ImportStore(i) \/ ImportCommit(i) \/ ImportFails(i) \/ ImportCleansUp(i) \/ ImportDies(i)
RunStep == RunStages \/ RunRecords \/ RunStops
WorkerStep(w) ==
  \/ CancelRuns(w) \/ Waits(w) \/ RemoveFiles(w) \/ DeleteRecords(w) \/ Verify(w)
  \/ Complete(w) \/ RecordFailure(w)

Next ==
  \/ \E i \in Importers : Import(i)
  \/ RunStep \/ RunLeaseExpires
  \/ \E e \in Evidence : RemoveFile(e) \/ Ages(e)
  \/ RemoveRow \/ ScanStarts \/ ScanRows \/ Quarantine
  \/ \E k \in Kinds : Load(k)
  \/ Archive \/ Restore
  \/ \E d \in Deletions : RequestDeletion(d) \/ Retry(d) \/ LeaseExpires(d) \/ \E w \in Workers : Claim(w, d)
  \/ \E w \in Workers : WorkerStep(w) \/ Fails(w) \/ WorkerDies(w)

Spec == Init /\ [][Next]_vars

-----------------------------------------------------------------------------
(* Properties.                                                             *)

\* A deletion reported as completed left no record and no file, whatever was imported, collected,
\* restored or reconciled while it worked, except files a straggler is about to discard or a dead one left.
CompletedMeansGone ==
  (\E d \in Deletions : deletion[d].status = "completed") =>
    caseStatus = "gone" /\ rows = {} /\ files \subseteq InHands \cup left

\* Until somebody deletes the case, every record has its file, except one whose own deletion has
\* removed it: neither a failed import, a late worker nor the reconciliation takes it away.
RecordsHaveFiles ==
  (\A d \in Deletions : deletion[d].status = "none") => rows \ files \subseteq broken \cup {removal}

================================================================================
