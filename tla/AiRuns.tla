---------------------------------- MODULE AiRuns ----------------------------------
(***************************************************************************)
(* One request to the AI of a case: it is created under a policy, claimed  *)
(* with a lease, goes through its stages, asks a local or a cloud model    *)
(* and stores one answer, while analysts cancel it, change the policy,     *)
(* lose their role, and archive or delete the case.                        *)
(***************************************************************************)
EXTENDS Naturals, Outbox

CONSTANTS
  Workers,
  MaxClaims,    \* settings.ai_run_max_claims
  MaxTries,     \* calls of one generation: retries, and once more for a shorter answer
  MaxFaults,    \* bound: workers that die or outlive their lease
  MaxEdits      \* bound: changes of the policy, the case and who has access

AiRunsAssumption ==
  {MaxClaims, MaxTries} \subseteq Nat \ {0} /\ {MaxFaults, MaxEdits} \subseteq Nat

VARIABLES
  caseStatus,   \* cases.status
  policy,       \* cases.ai_mode and cases.ai_policy_version
  access,       \* the requester is an analyst of the case
  kind,         \* ai_runs.run_type
  airun,        \* the row of ai_runs
  answers,      \* the messages it stored
  loaded,       \* what the requests at work have loaded: to create, to cancel, to set the policy
  worker,       \* what each worker does
  changed,      \* history: the mode was changed after the run was created
  overtaken,    \* history: a cancellation wrote on a status it did not see
  faults, edits

caseVars == <<caseStatus, policy, access>>
historyVars == <<changed, overtaken>>
vars == <<outboxVars, caseVars, kind, airun, answers, loaded, worker, historyVars, faults, edits>>

Modes == {"disabled", "local_only", "cloud_allowed"}
Stages == {"planning", "running_tools", "retrieving", "generating", "validating"}
Live == {"queued", "running"}
Ended == {"completed", "failed", "canceled"}
Policies == [mode : Modes, version : 0 .. MaxEdits]
Sessions == [seen : Policies, by : 1 .. MaxEdits]  \* what an analyst has loaded, and the number of the change

NoRun == [status |-> "none", version |-> 0, location |-> "local", claims |-> 0, token |-> 0, lapsed |-> FALSE, cancel |-> FALSE]
Nothing == [create |-> {}, cancel |-> {}, set |-> {}]
Idle == [step |-> "idle", token |-> 0, stage |-> "planning", tries |-> 0, outcome |-> "none"]

TypeOK ==
  /\ OutboxTypeOK
  /\ caseStatus \in {"active", "archived", "deleting"} /\ policy \in Policies /\ access \in BOOLEAN
  /\ kind \in {"answer", "summary", "relationship_suggestions"}
  /\ airun \in [status : {"none"} \cup Live \cup Ended, version : 0 .. MaxEdits, location : {"local", "cloud"},
                claims : 0 .. MaxClaims, token : 0 .. MaxClaims, lapsed : BOOLEAN, cancel : BOOLEAN]
  /\ answers \in 0 .. 2
  /\ loaded \in [create : SUBSET Policies, cancel : SUBSET Live, set : SUBSET Sessions]
  /\ worker \in [Workers -> [step : {"idle", "check", "retrieve", "grant", "call", "persist", "finish"},
                             token : 0 .. MaxClaims, stage : Stages, tries : 0 .. MaxTries, outcome : {"none"} \cup Ended]]
  /\ {changed, overtaken} \subseteq BOOLEAN /\ faults \in 0 .. MaxFaults

Init ==
  /\ OutboxInit
  /\ caseStatus = "active" /\ policy \in [mode : Modes, version : {0}] /\ access = TRUE
  /\ kind \in {"answer", "summary", "relationship_suggestions"}
  /\ airun = NoRun /\ answers = 0 /\ loaded = Nothing
  /\ worker = [w \in Workers |-> Idle]
  /\ changed = FALSE /\ overtaken = FALSE
  /\ faults = 0 /\ edits = 0

-----------------------------------------------------------------------------
(* Requests of analysts.  Each locks a row that its session has loaded     *)
(* before, and decides on what it loaded.                                  *)

LoadCreate ==
  /\ airun.status = "none" /\ loaded.create = {}
  /\ caseStatus = "active" /\ access
  /\ loaded' = [loaded EXCEPT !.create = {policy}]
  /\ UNCHANGED <<outboxVars, caseVars, kind, airun, answers, worker, historyVars, faults, edits>>

Permits(mode, location) == mode = "cloud_allowed" \/ (mode = "local_only" /\ location = "local")

\* create_run, under the lock of the case.
Create ==
  /\ airun.status = "none"
  /\ \E seen \in loaded.create, location \in {"local", "cloud"} :
       /\ Permits(seen.mode, location)
       /\ airun' = [NoRun EXCEPT !.status = "queued", !.version = seen.version, !.location = location]
  /\ loaded' = [loaded EXCEPT !.create = {}]
  /\ Enqueue
  /\ UNCHANGED <<inbox, caseVars, kind, answers, worker, historyVars, faults, edits>>

LoadCancel ==
  /\ airun.status \in Live /\ loaded.cancel = {}
  /\ loaded' = [loaded EXCEPT !.cancel = {airun.status}]
  /\ UNCHANGED <<outboxVars, caseVars, kind, airun, answers, worker, historyVars, faults, edits>>

\* request_cancel.
RequestCancel ==
  /\ loaded.cancel # {}
  /\ loaded' = [loaded EXCEPT !.cancel = {}]
  /\ overtaken' = (overtaken \/ airun.status \notin loaded.cancel)
  /\ IF "queued" \in loaded.cancel
     THEN airun' = [airun EXCEPT !.status = "canceled", !.cancel = TRUE] /\ MarkDone
     ELSE airun' = [airun EXCEPT !.cancel = TRUE] /\ UNCHANGED outbox
  /\ UNCHANGED <<inbox, caseVars, kind, answers, worker, changed, faults, edits>>

Edit == edits < MaxEdits /\ edits' = edits + 1

\* Several analysts may do so at once.
LoadSettings ==
  /\ Edit
  /\ caseStatus = "active" /\ access
  /\ loaded' = [loaded EXCEPT !.set = @ \cup {[seen |-> policy, by |-> edits']}]
  /\ UNCHANGED <<outboxVars, caseVars, kind, airun, answers, worker, historyVars, faults>>

\* Queued runs are canceled, running ones are asked to stop.
Stopped(run) ==
  CASE run.status = "queued" -> [run EXCEPT !.status = "canceled"]
    [] run.status = "running" -> [run EXCEPT !.cancel = TRUE]
    [] OTHER -> run

\* update_case_settings.
SetPolicy ==
  /\ \E l \in loaded.set, mode \in Modes :
       /\ mode # l.seen.mode
       /\ policy' = [mode |-> mode, version |-> l.seen.version + 1]
       /\ loaded' = [loaded EXCEPT !.set = @ \ {l}]
       /\ changed' = (changed \/ (airun.status # "none" /\ mode # policy.mode))
  /\ airun' = Stopped(airun)
  /\ UNCHANGED <<outboxVars, caseStatus, access, kind, answers, worker, overtaken, faults, edits>>

\* archive_case does not look at AI runs; _stop_ai_work of the deletion does.
SetCase(status) ==
  /\ caseStatus # "deleting" /\ status # caseStatus /\ Edit
  /\ caseStatus' = status
  /\ airun' = IF status = "deleting" THEN Stopped(airun) ELSE airun
  /\ UNCHANGED <<outboxVars, policy, access, kind, answers, loaded, worker, historyVars, faults>>

LoseAccess ==
  /\ access /\ access' = FALSE /\ Edit
  /\ UNCHANGED <<outboxVars, caseStatus, policy, kind, airun, answers, loaded, worker, historyVars, faults>>

-----------------------------------------------------------------------------
(* The worker.                                                             *)

Goes(w, step) == worker' = [worker EXCEPT ![w].step = step]
Stops(w, outcome) ==
  worker' = [worker EXCEPT ![w] = [Idle EXCEPT !.step = "finish", !.token = worker[w].token, !.outcome = outcome]]
Leaves(w) == worker' = [worker EXCEPT ![w] = Idle]

FirstStage ==
  CASE kind = "answer" -> "planning" [] kind = "summary" -> "running_tools" [] OTHER -> "retrieving"

\* execute_ai_run: claim_ai_run and _abandon_exhausted.
Claim(w) ==
  /\ worker[w].step = "idle"
  /\ TakeMessage
  /\ IF airun.status = "queued" \/ (airun.status = "running" /\ airun.lapsed /\ airun.claims < MaxClaims)
     THEN /\ airun' = [airun EXCEPT !.status = "running", !.claims = @ + 1, !.token = airun.claims + 1, !.lapsed = FALSE]
          /\ worker' = [worker EXCEPT ![w] = [Idle EXCEPT !.step = "check", !.token = airun.claims + 1, !.stage = FirstStage]]
          /\ UNCHANGED outbox
     ELSE /\ UNCHANGED worker
          /\ IF airun.status = "running" /\ airun.lapsed
             THEN airun' = [airun EXCEPT !.status = "failed", !.token = 0, !.lapsed = FALSE] /\ MarkDone
             ELSE UNCHANGED <<airun, outbox>>
  /\ UNCHANGED <<caseVars, kind, answers, loaded, historyVars, faults, edits>>

\* _locked_run.
Holds(w) == airun.status = "running" /\ airun.token = worker[w].token

\* Mutant: who may ask is looked at when the run is created, not again.
AuthorizedOnce == TRUE

\* _authorize.
Authorized ==
  caseStatus # "deleting" /\ access /\ policy.mode # "disabled" /\ policy.version = airun.version

Renewed == airun' = [airun EXCEPT !.lapsed = FALSE]
\* The stages that retrieve or ask a model, and the one after each.
After(stage) ==
  CASE stage = "planning" -> "running_tools" [] stage = "running_tools" -> "retrieving"
    [] stage = "retrieving" -> "generating" [] OTHER -> "validating"

\* _checkpoint; the checks of a refused step, and a run that is lost, end the task.
Check(w) ==
  /\ worker[w].step = "check"
  /\ IF ~Holds(w) THEN Leaves(w) /\ UNCHANGED airun
     ELSE IF airun.cancel \/ ~Authorized THEN Stops(w, "canceled") /\ UNCHANGED airun
     ELSE /\ Renewed
          /\ CASE worker[w].stage \in {"planning", "generating"} -> worker' = [worker EXCEPT ![w].step = "grant"]
               [] worker[w].stage = "running_tools" -> worker' = [worker EXCEPT ![w].stage = "retrieving"]
               [] worker[w].stage = "retrieving" -> Goes(w, "retrieve")
               [] OTHER -> Goes(w, "persist")
  /\ UNCHANGED <<outboxVars, caseVars, kind, answers, loaded, historyVars, faults, edits>>

\* _retrieve.  Suggestions for too few entities, or without evidence, ask no model.
Retrieve(w) ==
  /\ worker[w].step = "retrieve"
  /\ IF ~Holds(w) THEN Leaves(w)
     ELSE IF ~Authorized THEN Stops(w, "canceled")
     ELSE \/ worker' = [worker EXCEPT ![w].step = "check", ![w].stage = "generating"]
          \/ kind = "relationship_suggestions" /\ worker' = [worker EXCEPT ![w].step = "check", ![w].stage = "validating"]
  /\ UNCHANGED <<outboxVars, caseVars, kind, airun, answers, loaded, historyVars, faults, edits>>

\* The transaction of _generate before each call: authorize_generation grants it.
Grant(w) ==
  /\ worker[w].step = "grant"
  /\ IF ~Holds(w) THEN Leaves(w) /\ UNCHANGED airun
     ELSE IF airun.cancel \/ ~Authorized THEN Stops(w, "canceled") /\ UNCHANGED airun
     ELSE IF ~Permits(policy.mode, airun.location) THEN Stops(w, "failed") /\ UNCHANGED airun
     ELSE worker' = [worker EXCEPT ![w].step = "call", ![w].tries = @ + 1] /\ Renewed
  /\ UNCHANGED <<outboxVars, caseVars, kind, answers, loaded, historyVars, faults, edits>>

\* The model is asked again, fails for good, or answers; then comes the second transaction of
\* _generate, and an answer that is not usable ends the run.
Call(w) ==
  /\ worker[w].step = "call"
  /\ \/ worker[w].tries < MaxTries /\ Goes(w, "grant")
     \/ Stops(w, "failed")
     \/ ~Holds(w) /\ Leaves(w)
     \/ Holds(w) /\ airun.cancel /\ Stops(w, "canceled")
     \/ Holds(w) /\ ~airun.cancel /\ worker' = [worker EXCEPT ![w].step = "check", ![w].stage = After(worker[w].stage), ![w].tries = 0]
  /\ UNCHANGED <<outboxVars, caseVars, kind, airun, answers, loaded, historyVars, faults, edits>>

\* Mutant: the answer is stored before the run is completed, in a transaction of its own.
CompletesLater(w) == Goes(w, "persist") /\ UNCHANGED <<airun, outbox>>

Completes(w) ==
  /\ Leaves(w)
  /\ airun' = [airun EXCEPT !.status = "completed", !.token = 0, !.lapsed = FALSE]
  /\ MarkDone

\* _persist_answer, and the last transaction of _suggestions.
Persist(w) ==
  /\ worker[w].step = "persist"
  /\ IF ~Holds(w) THEN Leaves(w) /\ UNCHANGED <<airun, outbox, answers>>
     ELSE IF airun.cancel \/ ~Authorized \/ (kind = "relationship_suggestions" /\ caseStatus # "active")
     THEN Stops(w, "canceled") /\ UNCHANGED <<airun, outbox, answers>>
     ELSE answers' = answers + 1 /\ Completes(w)
  /\ UNCHANGED <<inbox, caseVars, kind, loaded, historyVars, faults, edits>>

\* _finish.
Finish(w) ==
  /\ worker[w].step = "finish"
  /\ Leaves(w)
  /\ IF Holds(w) THEN airun' = [airun EXCEPT !.status = worker[w].outcome, !.token = 0, !.lapsed = FALSE] /\ MarkDone
     ELSE UNCHANGED <<airun, outbox>>
  /\ UNCHANGED <<inbox, caseVars, kind, answers, loaded, historyVars, faults, edits>>

LeaseExpires ==
  /\ airun.status = "running" /\ ~airun.lapsed
  /\ airun' = [airun EXCEPT !.lapsed = TRUE]
  /\ IF \E w \in Workers : worker[w].step # "idle" /\ worker[w].token = airun.token
     THEN faults < MaxFaults /\ faults' = faults + 1 ELSE UNCHANGED faults
  /\ UNCHANGED <<outboxVars, caseVars, kind, answers, loaded, worker, historyVars, edits>>

\* A worker dies, or the database cannot be reached.
Crash(w) ==
  /\ worker[w].step # "idle" /\ faults < MaxFaults
  /\ faults' = faults + 1
  /\ Leaves(w)
  /\ UNCHANGED <<outboxVars, caseVars, kind, airun, answers, loaded, historyVars, edits>>

-----------------------------------------------------------------------------
Stale == airun.status = "queued" \/ (airun.status = "running" /\ airun.lapsed)

Dispatch ==
  /\ Publish \/ Requeue(Stale) \/ LoseMessage
  /\ UNCHANGED <<caseVars, kind, airun, answers, loaded, worker, historyVars, faults, edits>>

WorkerStep(w) ==
  \/ Check(w) \/ Retrieve(w) \/ Grant(w) \/ Call(w) \/ Persist(w) \/ Finish(w)

Next ==
  \/ \E w \in Workers : Claim(w) \/ WorkerStep(w) \/ Crash(w)
  \/ Dispatch \/ LeaseExpires
  \/ LoadCreate \/ Create \/ LoadCancel \/ RequestCancel \/ LoadSettings \/ SetPolicy \/ LoseAccess
  \/ \E status \in {"active", "archived", "deleting"} : SetCase(status)

Spec == Init /\ [][Next]_vars

\* The dispatcher goes on, and sends a message that the broker does not lose (of the fairness).
DispatchAgain ==
  /\ Requeue(Stale) \/ (Publish /\ outbox' = "dispatched")
  /\ UNCHANGED <<caseVars, kind, airun, answers, loaded, worker, historyVars, faults, edits>>

-----------------------------------------------------------------------------
(* Properties.                                                             *)

\* operations/ai-models.md:121: a change of the policy stops runs "before their next model call; nothing
\* further is sent", and no answer is stored: also when two analysts change it on what they loaded
\* before, when the run is taken over, and when the mode is changed back.
PolicyIsObeyed ==
  \A w \in Workers :
    /\ (worker[w].step = "grant" /\ worker'[w].step = "call") => ~changed /\ Permits(policy.mode, airun.location)
    /\ answers' # answers => ~changed /\ access

\* A request gets one answer, and is completed exactly if it got it: whatever takes it over, loses its
\* lease or dies.  Only a cancellation that decides on a status it loaded earlier hides an answer.
OneAnswer ==
  /\ answers <= 1
  /\ airun.status = "completed" => answers = 1
  /\ answers = 1 /\ ~overtaken => airun.status = "completed"
================================================================================
