-------------------------------- MODULE Monitors --------------------------------
(***************************************************************************)
(* One monitor: a saved query that is executed on a schedule.  Several     *)
(* dispatcher processes schedule it, analysts run, pause, resume, edit and *)
(* disable it, edit its query or archive its case, and workers finish its  *)
(* executions.                                                             *)
(*                                                                         *)
(* Whoever handles the monitor locks its row.  What is read without that   *)
(* lock, or before it, is read in a step of its own: the due set and the   *)
(* scheduler's `now`, the case as a request has loaded it, the query as a  *)
(* resume has loaded it, the active runs that archiving counts.            *)
(***************************************************************************)
EXTENDS Schedule

CONSTANTS
  Schedulers,   \* dispatcher processes
  Every,        \* ticks between two slots
  Grace,        \* settings.monitor_misfire_grace_seconds
  Retention,    \* settings.monitor_occurrence_retention_days
  MaxFailures,  \* settings.monitor_max_consecutive_failures
  MissedRunPolicies,
  NoTime,
  MaxTime,      \* bound: ticks of the clock
  MaxEdits,     \* bound: edits of the query, and of the schedule
  MaxManual     \* bound: manual runs

ASSUME MonitorsAssumption ==
  /\ Every \in Nat \ {0}
  /\ Grace \in Nat
  /\ Retention \in Nat \ {0}
  /\ MaxFailures \in Nat \ {0}
  /\ MissedRunPolicies \subseteq {"run_latest", "skip"}
  /\ NoTime \notin Nat
  /\ {MaxTime, MaxEdits, MaxManual} \subseteq Nat

VARIABLES
  now,          \* the clock
  caseStatus,   \* cases.status
  access,       \* the analyst of the monitor has analyst access
  query,        \* the definition in saved_queries: its version
  status,       \* monitors.status
  reason,       \* monitors.status_reason
  nextRun,      \* monitors.next_run_at
  anchor,       \* monitors.schedule_anchor
  pinned,       \* monitors.query_fingerprint
  policy,       \* monitors.missed_run_policy
  failures,     \* monitors.consecutive_failures
  occurrences,  \* monitor_occurrences of kind scheduled
  runs,         \* unfinished query_runs of the monitor: how many of a status and definition
  seen,         \* the now of a scheduler that found the monitor due
  loaded,       \* what requests have loaded and not yet committed
  edits, manual, \* counters, for the bounds
  since,        \* history: the first slot that is not accounted for
  accounted     \* history: slots from `since` that occurrences account for

caseVars == <<caseStatus, access, query>>
monitorVars == <<status, reason, nextRun, anchor, pinned, policy, failures>>
bounds == <<edits, manual>>
history == <<since, accounted>>
vars == <<now, caseVars, monitorVars, occurrences, runs, seen, loaded, bounds, history>>

-----------------------------------------------------------------------------
UTC == [change |-> 0, before |-> 0, after |-> 0]
Plan == Interval(Every)
NextSlot(a, after) == NextAfter(Plan, UTC, a, after)

Times == 0 .. MaxTime + Every
Versions == 0 .. MaxEdits
RunKinds == {"queued", "running"} \X Versions
Requests == {"none", "run_now", "archive"}
NotResuming == -1
Reasons == {"none", "created", "manual", "case_archived", "authorization_lost", "query_changed",
            "query_invalid", "repeated_failures"}

TypeOK ==
  /\ now \in 0 .. MaxTime
  /\ caseStatus \in {"active", "archived"}
  /\ access \in BOOLEAN
  /\ query \in Versions
  /\ status \in {"enabled", "paused", "disabled", "deleted"}
  /\ reason \in Reasons
  /\ nextRun \in Times \cup {NoTime}
  /\ status # "enabled" <=> nextRun = NoTime
  /\ anchor \in Times
  /\ pinned \in Versions
  /\ policy \in MissedRunPolicies
  /\ failures \in 0 .. MaxFailures
  /\ occurrences \subseteq [slot : Times, dispatched : BOOLEAN, missed : Nat, created : Times]
  /\ runs \in [RunKinds -> Nat]
  /\ seen \in [Schedulers -> Times \cup {NoTime}]
  /\ loaded \in [request : Requests, resume : Versions \cup {NotResuming}]
  /\ edits \in Nat /\ manual \in 0 .. MaxManual
  /\ since \in Times /\ accounted \in Nat

\* active_run.
Active == \E k \in RunKinds : runs[k] > 0

Init ==
  /\ now = 0
  /\ caseStatus = "active"
  /\ access = TRUE
  /\ query = 0
  /\ status = "paused"
  /\ reason = "created"
  /\ nextRun = NoTime
  /\ anchor = 0
  /\ pinned = 0
  /\ policy \in MissedRunPolicies
  /\ failures = 0
  /\ occurrences = {}
  /\ runs = [k \in RunKinds |-> 0]
  /\ seen = [s \in Schedulers |-> NoTime]
  /\ loaded = [request |-> "none", resume |-> NotResuming]
  /\ edits = 0 /\ manual = 0
  /\ since = 0 /\ accounted = 0

\* _change_status; a monitor that is not enabled has no next slot.
Becomes(s, why, next) ==
  /\ status' = s
  /\ reason' = why
  /\ nextRun' = IF s = "enabled" THEN next ELSE NoTime

\* History: slots are accounted for from now on, beginning with the next one.
Restarted(next) == since' = next /\ accounted' = 0

\* A resume holds the row of the monitor while it works.
RowIsFree == loaded.resume = NotResuming

-----------------------------------------------------------------------------
(* Dispatch.                                                               *)

\* _dispatch_blocker: the first check that fails.  The request may have the case as it was; a
\* definition may be invalid, and a budget used up, at any time.
Troubles == {"none", "query_invalid", "budget_exhausted"}

\* Mutant: the active run is not looked for.
BlockerWithoutOverlap(caseIs, trouble) ==
  CASE caseIs # "active" -> "case_archived"
    [] caseIs = "active" /\ ~access -> "authorization_lost"
    [] caseIs = "active" /\ access /\ query # pinned -> "query_changed"
    [] OTHER -> trouble

\* Mutant: the fingerprint is not compared.
BlockerWithoutFingerprint(caseIs, trouble) ==
  CASE caseIs # "active" -> "case_archived"
    [] caseIs = "active" /\ ~access -> "authorization_lost"
    [] caseIs = "active" /\ access /\ Active -> "overlap"
    [] OTHER -> trouble

Blocker(caseIs, trouble) ==
  IF caseIs # "active" THEN "case_archived"
  ELSE IF ~access THEN "authorization_lost"
  ELSE IF query # pinned THEN "query_changed"
  ELSE IF trouble # "query_invalid" /\ Active THEN "overlap"
  ELSE trouble

\* The pause that a blocker causes; an overlap, or a budget that is used up, only skips.
PausesFor(blocker) == blocker \notin {"none", "missed", "overlap", "budget_exhausted"}

\* dispatch_occurrence and create_run, which takes its snapshot of the query.
NewRun(blocker) ==
  runs' = IF blocker = "none" THEN [runs EXCEPT ![<<"queued", query>>] = @ + 1] ELSE runs

\* due_monitor_ids, with the `now` of the batch.
FindDue(s) ==
  /\ seen[s] = NoTime
  /\ status = "enabled"
  /\ nextRun <= now
  /\ seen' = [seen EXCEPT ![s] = now]
  /\ UNCHANGED <<now, caseVars, monitorVars, occurrences, runs, loaded, bounds, history>>

\* Mutant: next_run_at is not read again under the lock.
StillDueOnce(s) == status = "enabled"

\* schedule_one: the row, still enabled and due, locked; a locked one is skipped.
StillDue(s) == status = "enabled" /\ nextRun <= seen[s]

\* The occurrence of a slot; its index is unique, and a second insert does nothing.
Recorded(slot) == \E o \in occurrences : o.slot = slot

ScheduleOne(s) ==
  /\ seen[s] # NoTime
  /\ StillDue(s) /\ RowIsFree
  /\ seen' = [seen EXCEPT ![s] = NoTime]
  /\ LET turn == SlotToRun(Plan, UTC, anchor, Grace, nextRun, seen[s])
         next == FollowingSlot(Plan, UTC, anchor, turn.slot, seen[s])
     IN  \E trouble \in Troubles :
           LET blocker == IF turn.late /\ policy = "skip" THEN "missed"
                          ELSE Blocker(caseStatus, trouble)
           IN  IF Recorded(turn.slot)
               THEN /\ Becomes("enabled", reason, next)
                    /\ UNCHANGED <<occurrences, runs, accounted>>
               ELSE /\ occurrences' = occurrences \cup
                         {[slot |-> turn.slot, dispatched |-> blocker = "none",
                           missed |-> turn.missed, created |-> now]}
                    /\ accounted' = accounted + turn.missed + 1
                    /\ NewRun(blocker)
                    /\ IF PausesFor(blocker) THEN Becomes("paused", blocker, NoTime)
                       ELSE Becomes("enabled", reason, next)
  /\ UNCHANGED <<now, caseVars, anchor, pinned, policy, failures, loaded, bounds, since>>

\* The row is not due any more, or another scheduler has it.
AlreadyHandled(s) ==
  /\ seen[s] # NoTime
  /\ ~StillDue(s) \/ ~RowIsFree
  /\ seen' = [seen EXCEPT ![s] = NoTime]
  /\ UNCHANGED <<now, caseVars, monitorVars, occurrences, runs, loaded, bounds, history>>

\* run_now: the request has loaded the case before it locks the monitor, and the FOR SHARE of
\* _dispatch_blocker does not refresh it.  Its occurrence has the time of the request.
LoadRunNow ==
  /\ loaded.request = "none"
  /\ manual < MaxManual
  /\ caseStatus = "active" /\ access
  /\ loaded' = [loaded EXCEPT !.request = "run_now"]
  /\ manual' = manual + 1
  /\ UNCHANGED <<now, caseVars, monitorVars, occurrences, runs, seen, edits, history>>

RunNow ==
  /\ loaded.request = "run_now"
  /\ RowIsFree
  /\ loaded' = [loaded EXCEPT !.request = "none"]
  /\ IF status \in {"disabled", "deleted"} THEN UNCHANGED <<runs, status, reason, nextRun>>
     ELSE \E trouble \in Troubles :
            LET blocker == Blocker("active", trouble)
            IN  /\ NewRun(blocker)
                /\ IF PausesFor(blocker) /\ status = "enabled"
                   THEN Becomes("paused", blocker, NoTime)
                   ELSE UNCHANGED <<status, reason, nextRun>>
  /\ UNCHANGED <<now, caseVars, anchor, pinned, policy, failures, occurrences, seen, bounds,
                 history>>

-----------------------------------------------------------------------------
(* Analysts.                                                               *)

Pause ==
  /\ status = "enabled" /\ RowIsFree
  /\ Becomes("paused", "manual", NoTime)
  /\ UNCHANGED <<now, caseVars, anchor, pinned, policy, failures, occurrences, runs, seen, loaded,
                 bounds, history>>

\* resume_monitor: the row is locked, the query is read, and an analyst adopts its definition;
\* at that moment the case may already be archived.
LoadResume ==
  /\ status \in {"paused", "disabled"} /\ RowIsFree
  /\ caseStatus = "active" /\ access
  /\ loaded' = [loaded EXCEPT !.resume = query]
  /\ UNCHANGED <<now, caseVars, monitorVars, occurrences, runs, seen, bounds, history>>

Resume ==
  /\ ~RowIsFree
  /\ pinned' = loaded.resume
  /\ failures' = 0
  /\ Becomes("enabled", "none", NextSlot(anchor, now))
  /\ Restarted(NextSlot(anchor, now))
  /\ loaded' = [loaded EXCEPT !.resume = NotResuming]
  /\ UNCHANGED <<now, caseVars, anchor, policy, occurrences, runs, seen, bounds>>

\* update_monitor with another schedule.
EditSchedule ==
  /\ status # "deleted" /\ caseStatus = "active" /\ RowIsFree
  /\ edits < MaxEdits
  /\ edits' = edits + 1
  /\ anchor' = now
  /\ policy' \in MissedRunPolicies
  /\ IF status = "enabled"
     THEN nextRun' = NextSlot(now, now) /\ Restarted(NextSlot(now, now))
     ELSE UNCHANGED <<nextRun, history>>
  /\ UNCHANGED <<now, caseVars, status, reason, pinned, failures, occurrences, runs, seen, loaded,
                 manual>>

\* request_cancel of the active run: a queued one ends at once.
WithoutQueued == [k \in RunKinds |-> IF k[1] = "queued" THEN 0 ELSE runs[k]]

Disable ==
  /\ status \in {"enabled", "paused"} /\ RowIsFree
  /\ Becomes("disabled", "manual", NoTime)
  /\ runs' = WithoutQueued
  /\ UNCHANGED <<now, caseVars, anchor, pinned, policy, failures, occurrences, seen, loaded, bounds,
                 history>>

Delete ==
  /\ status = "disabled" /\ RowIsFree
  /\ ~Active
  /\ status' = "deleted"
  /\ occurrences' = {}
  /\ UNCHANGED <<now, caseVars, reason, nextRun, anchor, pinned, policy, failures, runs, seen,
                 loaded, bounds, history>>

\* update_saved_query and pause_for_query_change, which locks the monitors that are enabled.
UpdateQuery ==
  /\ edits < MaxEdits
  /\ caseStatus = "active"
  /\ edits' = edits + 1
  /\ query' = edits + 1
  /\ IF status = "enabled" THEN Becomes("paused", "query_changed", NoTime)
     ELSE UNCHANGED <<status, reason, nextRun>>
  /\ UNCHANGED <<now, caseStatus, access, anchor, pinned, policy, failures, occurrences, runs, seen,
                 loaded, manual, history>>

\* archive_case: it counts the active runs before it writes, and then pauses the monitors.
LoadArchive ==
  /\ loaded.request = "none"
  /\ caseStatus = "active"
  /\ ~Active
  /\ loaded' = [loaded EXCEPT !.request = "archive"]
  /\ UNCHANGED <<now, caseVars, monitorVars, occurrences, runs, seen, bounds, history>>

Archive ==
  /\ loaded.request = "archive"
  /\ loaded' = [loaded EXCEPT !.request = "none"]
  /\ caseStatus' = "archived"
  /\ IF status = "enabled" THEN Becomes("paused", "case_archived", NoTime)
     ELSE UNCHANGED <<status, reason, nextRun>>
  /\ UNCHANGED <<now, access, query, anchor, pinned, policy, failures, occurrences, runs, seen,
                 bounds, history>>

Restore ==
  /\ caseStatus = "archived"
  /\ caseStatus' = "active"
  /\ UNCHANGED <<now, access, query, monitorVars, occurrences, runs, seen, loaded, bounds, history>>

\* A member is removed or downgraded, or gets the role back.
ChangeAccess ==
  /\ access' = ~access
  /\ UNCHANGED <<now, caseStatus, query, monitorVars, occurrences, runs, seen, loaded, bounds,
                 history>>

-----------------------------------------------------------------------------
(* Workers and the clock.                                                  *)

StartRun(v) ==
  /\ runs[<<"queued", v>>] > 0
  /\ runs' = [runs EXCEPT ![<<"queued", v>>] = @ - 1, ![<<"running", v>>] = @ + 1]
  /\ UNCHANGED <<now, caseVars, monitorVars, occurrences, seen, loaded, bounds, history>>

\* The failures after one more execution ended.
FailuresAfter(outcome) ==
  CASE outcome = "failed" -> failures + 1
    [] outcome = "completed" -> 0
    [] outcome = "canceled" -> failures

\* record_run_finished, in the transaction that finishes the run.
FinishRun(v, outcome) ==
  /\ runs[<<"running", v>>] > 0
  /\ RowIsFree
  /\ runs' = [runs EXCEPT ![<<"running", v>>] = @ - 1]
  /\ failures' = Min({FailuresAfter(outcome), MaxFailures})
  /\ IF status = "enabled" /\ failures' >= MaxFailures
     THEN Becomes("paused", "repeated_failures", NoTime)
     ELSE UNCHANGED <<status, reason, nextRun>>
  /\ UNCHANGED <<now, caseVars, anchor, pinned, policy, occurrences, seen, loaded, bounds, history>>

\* prune_occurrences: skipped ones, long after they were created.
PruneOccurrences ==
  /\ \E o \in occurrences : ~o.dispatched /\ o.created + Retention < now
  /\ occurrences' = {o \in occurrences : o.dispatched \/ o.created + Retention >= now}
  /\ UNCHANGED <<now, caseVars, monitorVars, runs, seen, loaded, bounds, history>>

\* Time passes, also while no scheduler runs.
Tick ==
  /\ now < MaxTime
  /\ now' = now + 1
  /\ UNCHANGED <<caseVars, monitorVars, occurrences, runs, seen, loaded, bounds, history>>

SchedulerStep(s) == FindDue(s) \/ ScheduleOne(s) \/ AlreadyHandled(s)

Next ==
  \/ \E s \in Schedulers : SchedulerStep(s)
  \/ LoadRunNow \/ RunNow \/ Pause \/ LoadResume \/ Resume \/ EditSchedule \/ Disable \/ Delete
  \/ UpdateQuery \/ LoadArchive \/ Archive \/ Restore \/ ChangeAccess
  \/ \E v \in Versions : StartRun(v) \/ \E o \in {"failed", "completed", "canceled"} : FinishRun(v, o)
  \/ PruneOccurrences \/ Tick

Spec == Init /\ [][Next]_vars

-----------------------------------------------------------------------------
(* Properties.                                                             *)

\* However many schedulers and analysts start executions, one at most is unfinished: an
\* execution never overlaps the one before it.
OneActiveRun ==
  \A j, k \in RunKinds : runs[j] > 0 /\ runs[k] > 0 => j = k /\ runs[k] = 1

\* Since a monitor was enabled or its schedule edited, every slot before its next one was
\* executed or skipped by one occurrence, or is one of the missed slots of one: late, stale and
\* competing schedulers lose none and count none twice.
SlotsAreAccounted ==
  status = "enabled" =>
    accounted = Cardinality(Occurrences(Plan, UTC, anchor, since .. nextRun - 1))

\* A monitor executes the definition its analyst has reviewed: no execution is dispatched with
\* another one than it has pinned, however the query is edited meanwhile.
ReviewedDefinition ==
  [][\A v \in Versions : runs'[<<"queued", v>>] > runs[<<"queued", v>>] => v = pinned]_vars
================================================================================
