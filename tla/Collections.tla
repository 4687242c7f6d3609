------------------------------- MODULE Collections ------------------------------
(***************************************************************************)
(* What becomes of the collections of a monitored query: each is compared  *)
(* with an earlier one some time after it ended, and retention removes the *)
(* results of old ones, and old imports, in jobs that are claimed with a   *)
(* lease, plan once, and remove files before rows.                         *)
(***************************************************************************)
EXTENDS Naturals, Comparison

CONSTANTS
  MaxRuns,      \* bound: executions of the query
  Jobs,         \* bound: retention jobs of the case
  Workers,
  Scopes,       \* the scopes the query has one after the other; the source shows items to the first
  Rules,        \* the rules of retention analysts may set: at most "collected", "imported", "keep_last"
  KeepLast,     \* keep_last_runs of the monitor
  MaxFaults,    \* bound: workers that die or outlive their lease
  MaxEdits      \* bound: changes of the rules

CollectionsAssumption ==
  /\ {MaxRuns, SearchLimit, KeepLast} \subseteq Nat \ {0} /\ {MaxFaults, MaxEdits} \subseteq Nat
  /\ 1 \in Scopes /\ "absent" \notin Values

VARIABLES
  world,        \* the items the source has
  runs,         \* the executions in the order they were queued, each with its change set
  import,       \* an old authorized import and the processing job that works on it
  rules,        \* the rules of the active policy and of the monitor
  caseOpen,     \* the case is active or archived
  jobs,         \* the rows of retention_jobs
  worker,       \* what each worker does
  relaxed,      \* history: a rule was lifted, or the case closed
  faults, edits

sourceVars == <<world, runs>>
ruleVars == <<rules, caseOpen, relaxed, edits>>
vars == <<sourceVars, import, ruleVars, jobs, worker, faults>>

Worlds == [Items -> Values \cup {"absent"}]
NoRun == [status |-> "none", end |-> "failed", scope |-> 1, seen |-> [i \in Items |-> NotSeen],
          truth |-> [i \in Items |-> "absent"], old |-> FALSE, files |-> TRUE, expired |-> FALSE,
          set |-> NoChangeSet, blind |-> FALSE]
Idle == [step |-> "idle", job |-> 0, runs |-> {}, import |-> FALSE, held |-> {}]

Init ==
  /\ world \in Worlds
  /\ runs = [n \in 1 .. MaxRuns |-> NoRun]
  /\ import = [present |-> TRUE, files |-> TRUE, use |-> "none"]
  /\ rules \in SUBSET Rules /\ caseOpen = TRUE /\ relaxed = FALSE /\ edits = 0
  /\ jobs = [j \in Jobs |-> [status |-> "none", lapsed |-> FALSE]]
  /\ worker = [w \in Workers |-> Idle]
  /\ faults = 0

-----------------------------------------------------------------------------
(* Executions, and the source they ask.                                    *)

WorldChanges ==
  /\ world' \in Worlds \ {world}
  /\ UNCHANGED <<runs, import, ruleVars, jobs, worker, faults>>

\* A change of the query's version, input, parameters or limits is another scope.
QueueRun(n) ==
  /\ caseOpen /\ runs[n].status = "none" /\ \A m \in 1 .. n - 1 : runs[m].status # "none"
  /\ \E scope \in Scopes : runs' = [runs EXCEPT ![n].status = "live", ![n].scope = scope]
  /\ UNCHANGED <<world, import, ruleVars, jobs, worker, faults>>

\* Items outside of the scope are not returned.
Visible(scope) == [i \in Items |-> IF scope = 1 THEN world[i] ELSE "absent"]

\* What a collection returns of what there is.
Returns(truth, end) ==
  {seen \in [Items -> Seen] : \A i \in Items :
     IF truth[i] = "absent" \/ end = "failed" THEN seen[i] = NotSeen
     ELSE \/ seen[i] # NotSeen /\ Last(seen[i]) = truth[i]
          \/ end = "stopped" /\ seen[i] = NotSeen}

\* _apply_final_status, which enqueues the detection of changes.
EndRun(n) ==
  /\ runs[n].status = "live"
  /\ \E end \in Ends : \E seen \in Returns(Visible(runs[n].scope), end) :
       runs' = [runs EXCEPT ![n].status = "done", ![n].end = end, ![n].seen = seen,
                            ![n].truth = Visible(runs[n].scope)]
  /\ UNCHANGED <<world, import, ruleVars, jobs, worker, faults>>

\* What the transactions of workers have locked: runs, and the import.
Import == 0
Held == UNION {worker[w].held : w \in Workers}

\* detect, when its message comes; it waits for whoever holds the row.  It is delivered again
\* without effect.
Detect(n) ==
  /\ runs[n].status = "done" /\ runs[n].set = NoChangeSet /\ n \notin Held
  /\ LET set == Compare(runs, n)
     IN runs' = [runs EXCEPT ![n].set = set,
                   ![n].blind = runs[n].expired \/ (set.baseline # 0 /\ runs[set.baseline].expired)]
  /\ UNCHANGED <<world, import, ruleVars, jobs, worker, faults>>

\* Only where a rule looks at it; so is the import's processing.  A monitor never has two unfinished
\* executions (Monitors), so they end, and become too old, in the order they were queued.
Age(n) ==
  /\ runs[n].status = "done" /\ ~runs[n].old /\ "collected" \in Rules
  /\ \A m \in 1 .. n - 1 : runs[m].old
  /\ runs' = [runs EXCEPT ![n].old = TRUE]
  /\ UNCHANGED <<world, import, ruleVars, jobs, worker, faults>>

\* The import is processed again; its job is queued, running, or waits for an analyst.
ProcessImport ==
  /\ import.present /\ "imported" \in Rules /\ Import \notin Held
  /\ import' = [import EXCEPT !.use = CASE @ = "none" -> "waiting" [] @ = "waiting" -> "running" [] OTHER -> "none"]
  /\ UNCHANGED <<sourceVars, ruleVars, jobs, worker, faults>>

\* activate_policy, deactivate_policy and the settings of the monitor.
SetRules ==
  /\ edits < MaxEdits /\ edits' = edits + 1
  /\ rules' \in SUBSET Rules \ {rules}
  /\ relaxed' = (relaxed \/ ~(rules \subseteq rules'))
  /\ UNCHANGED <<sourceVars, import, caseOpen, jobs, worker, faults>>

CloseCase ==
  /\ caseOpen /\ caseOpen' = FALSE
  /\ relaxed' = TRUE
  /\ UNCHANGED <<sourceVars, import, rules, edits, jobs, worker, faults>>

-----------------------------------------------------------------------------
(* Retention.                                                              *)

\* What a job can remove.
Ended == {n \in DOMAIN runs : runs[n].status = "done" /\ ~runs[n].expired}

\* Mutant: only the newest collection with data is kept.
NewestRun == LET usable == {n \in Ended : HasPages(runs[n])} IN IF usable = {} THEN {} ELSE {Max(usable)}

\* _baseline_runs.
BaselineRuns ==
  LET usable == {n \in Ended : HasPages(runs[n])}
      complete == {n \in usable : CollectionComplete(runs[n])}
      Newest(set) == IF set = {} THEN {} ELSE {Max(set)}
  IN Newest(usable) \cup Newest(complete)

\* plan: the two rules of age say the same of this query, whose runs are all the monitor's.
Candidates ==
  {n \in Ended :
     \/ "collected" \in rules /\ runs[n].old
     \/ "keep_last" \in rules /\ Cardinality({m \in Ended : m > n}) >= KeepLast}

PlannedRuns == Candidates \ BaselineRuns
PlannedImport == "imported" \in rules /\ import.present /\ import.use = "none"

\* enqueue_job: after an activation, once a day, and on request.
EnqueueJob(j) ==
  /\ caseOpen /\ jobs[j].status = "none"
  /\ jobs' = [jobs EXCEPT ![j].status = "queued"]
  /\ UNCHANGED <<sourceVars, import, ruleVars, worker, faults>>

\* _claim; a message that finds the job held has no effect.
Claim(w, j) ==
  /\ worker[w].step = "idle"
  /\ jobs[j].status = "queued" \/ (jobs[j].status = "running" /\ jobs[j].lapsed)
  /\ jobs' = [jobs EXCEPT ![j] = [status |-> "running", lapsed |-> FALSE]]
  /\ worker' = [worker EXCEPT ![w] = [Idle EXCEPT !.step = "plan", !.job = j]]
  /\ UNCHANGED <<sourceVars, import, ruleVars, faults>>

Goes(w, step) == worker' = [worker EXCEPT ![w].step = step]

\* The first transaction of apply_job; AI work may hold a lease as well.
Plan(w) ==
  /\ worker[w].step = "plan"
  /\ \/ ~caseOpen /\ Goes(w, "finish") /\ UNCHANGED jobs
     \/ /\ caseOpen
        /\ worker' = [worker EXCEPT ![w] = Idle]
        /\ jobs' = [jobs EXCEPT ![worker[w].job] = [status |-> "queued", lapsed |-> FALSE]]
     \/ /\ caseOpen /\ import.use # "running"
        /\ worker' = [worker EXCEPT ![w].step = "runs", ![w].runs = PlannedRuns, ![w].import = PlannedImport]
        /\ UNCHANGED jobs
  /\ UNCHANGED <<sourceVars, import, ruleVars, faults>>

\* The transaction of a batch, until the files of its runs are gone: rows that are locked are skipped.
RemoveFiles(w) ==
  /\ worker[w].step = "runs"
  /\ LET batch == (worker[w].runs \cap Ended) \ Held
     IN /\ runs' = [n \in DOMAIN runs |-> IF n \in batch /\ HasPages(runs[n]) THEN [runs[n] EXCEPT !.files = FALSE] ELSE runs[n]]
        /\ worker' = [worker EXCEPT ![w].step = "runs_gone", ![w].held = batch]
  /\ UNCHANGED <<world, import, ruleVars, jobs, faults>>

\* It commits: the rows, and what hangs on them, are gone.
RemoveRows(w) ==
  /\ worker[w].step = "runs_gone"
  /\ runs' = [n \in DOMAIN runs |-> IF n \in worker[w].held THEN [runs[n] EXCEPT !.expired = TRUE] ELSE runs[n]]
  /\ worker' = [worker EXCEPT ![w].step = "import", ![w].held = {}]
  /\ UNCHANGED <<world, import, ruleVars, jobs, faults>>

\* Under the lock of the import the processing jobs are counted again.
ImportUnused == import.use = "none"

RemoveImportFiles(w) ==
  /\ worker[w].step = "import"
  /\ IF worker[w].import /\ import.present /\ Import \notin Held /\ ImportUnused
     THEN /\ import' = [import EXCEPT !.files = FALSE]
          /\ worker' = [worker EXCEPT ![w].step = "import_gone", ![w].held = {Import}]
     ELSE Goes(w, "finish") /\ UNCHANGED import
  /\ UNCHANGED <<sourceVars, ruleVars, jobs, faults>>

RemoveImport(w) ==
  /\ worker[w].step = "import_gone"
  /\ import' = [import EXCEPT !.present = FALSE]
  /\ worker' = [worker EXCEPT ![w].step = "finish", ![w].held = {}]
  /\ UNCHANGED <<sourceVars, ruleVars, jobs, faults>>

\* _finish asks for no lease.
Finish(w) ==
  /\ worker[w].step = "finish"
  /\ jobs' = [jobs EXCEPT ![worker[w].job] = [status |-> "completed", lapsed |-> FALSE]]
  /\ worker' = [worker EXCEPT ![w] = Idle]
  /\ UNCHANGED <<sourceVars, import, ruleVars, faults>>

LeaseExpires(j) ==
  /\ jobs[j].status = "running" /\ ~jobs[j].lapsed
  /\ jobs' = [jobs EXCEPT ![j].lapsed = TRUE]
  /\ IF \E w \in Workers : worker[w].job = j THEN faults < MaxFaults /\ faults' = faults + 1 ELSE UNCHANGED faults
  /\ UNCHANGED <<sourceVars, import, ruleVars, worker>>

\* A worker dies, or a file cannot be removed: its transaction is rolled back, its job stays running.
Crash(w) ==
  /\ worker[w].step # "idle" /\ faults < MaxFaults
  /\ faults' = faults + 1
  /\ worker' = [worker EXCEPT ![w] = Idle]
  /\ UNCHANGED <<sourceVars, import, ruleVars, jobs>>

WorkerStep(w) ==
  \/ Plan(w) \/ RemoveFiles(w) \/ RemoveRows(w) \/ RemoveImportFiles(w) \/ RemoveImport(w) \/ Finish(w)

Next ==
  \/ WorldChanges \/ ProcessImport \/ SetRules \/ CloseCase
  \/ \E n \in DOMAIN runs : QueueRun(n) \/ EndRun(n) \/ Detect(n) \/ Age(n)
  \/ \E j \in Jobs : EnqueueJob(j) \/ LeaseExpires(j)
  \/ \E w \in Workers, j \in Jobs : Claim(w, j)
  \/ \E w \in Workers : WorkerStep(w) \/ Crash(w)

Spec == Init /\ [][Next]_vars

-----------------------------------------------------------------------------
(* Properties.                                                             *)

Says(n, kind, i) == <<kind, i>> \in runs[n].set.events

\* An incomplete baseline says nothing of the items it lacks.
Covered(b, i) == CollectionComplete(runs[b]) \/ runs[b].seen[i] # NotSeen

\* What a change set says of an item is true of the source: it is called new only if it was not there
\* when the baseline was collected, not observed only if it is not there now, and nothing changed only
\* if nothing did that the baseline covered.
TrueOf(n) ==
  LET b == runs[n].set.baseline
      was == runs[b].truth
      is == runs[n].truth
  IN b # 0 /\ runs[n].set.status # "baseline_incompatible" =>
       /\ runs[b].scope = runs[n].scope
       /\ \A i \in Items :
            /\ Says(n, "new", i) => was[i] = "absent" /\ is[i] # "absent"
            /\ Says(n, "not_observed", i) => was[i] # "absent" /\ is[i] = "absent"
            /\ Says(n, "changed", i) => was[i] # is[i] /\ "absent" \notin {was[i], is[i]}
            /\ runs[n].set.status = "no_meaningful_change" /\ Covered(b, i) => was[i] = is[i]

\* So it is for whatever order the runs end, are compared and expire in, as long as neither side had
\* expired when they were compared.
ChangesAreTrue == \A n \in DOMAIN runs : ~runs[n].blind => TrueOf(n)

\* retention.md:100: retention keeps "the latest execution that collected data and the latest complete
\* execution", also when several jobs plan and remove at the same time.
BaselinesAreKept ==
  LET usable == {n \in DOMAIN runs : runs[n].status = "done" /\ HasPages(runs[n])}
      complete == {n \in usable : CollectionComplete(runs[n])}
  IN \A set \in {usable, complete} : set # {} => ~runs[Max(set)].expired

\* Whatever dies or is taken over, and whatever other jobs remove or executions end meanwhile, results
\* that lost their files are still due: the next job removes their rows, unless a rule was lifted.
HalfRemovedIsDue == \A n \in Ended : ~runs[n].files => relaxed \/ n \in PlannedRuns

\* So is an import that lost its files.
HalfRemovedImportIsDue == import.present /\ ~import.files => relaxed \/ "imported" \in rules

\* An import is not removed under the job that processes it.
ImportsInUseStay == import'.files # import.files => import.use = "none"
================================================================================
