# Verification of Tracehollow

TLA+ models of Tracehollow: the rows that several workers and requests change (runs, budgets, slots,
monitors, deliveries, processing jobs, files, indexes, answers, retention), and the rules by which it
decides what its sources, imports, answers and views say. They are checked with TLC on small instances;
most of the properties of the state machines are proved with TLAPS for every value of the constants.

Paths below are relative to `services/api/app/` unless they start with `docs/`.

## 1. The system

Tracehollow is a workspace for investigations. Analysts define queries in a case; an execution (*query
run*) asks a fixed list of source connectors, page by page, and stores what they answer as immutable
evidence with observations, entities and relationships. Monitors execute queries on a schedule,
change detection compares executions, notifications report the differences. Files are imported and
processed, evidence is indexed, and an AI assistant answers questions over it.

It runs as several processes that share one PostgreSQL database and one file store: the API, Celery
workers (`worker`, `collector`, import and AI workers), the dispatcher (`dispatch/relay.py`), the
scheduler, an egress gateway. Redis carries the messages. **All coordination goes through the
database**: conditional updates, row locks, leases with tokens, unique indexes. Messages only say
"look at this row", may be lost, repeated or late, and the dispatcher sends them again from the outbox.

| Component | State | Operations | Hard behaviour | What makes it correct |
|---|---|---|---|---|
| Query runs (`queries/`) | `query_runs`, `connector_runs`, committed pages | create, cancel, claim, page loop, finish, finalize, abandon | takeover of an expired lease by a second worker, crash anywhere, cancellation and loss of role while a page is in flight | one holder; pages in order, none skipped; a finished run never changes; every run ends |
| Dispatch outbox (`dispatch/`) | `dispatch_outbox`, broker queues | enqueue, publish, requeue, mark done | message sent before its transaction commits; lost, repeated messages; requeue of a row that just finished | no unfinished work is forgotten |
| Request budgets (`budgets/`) | ledgers, reservations | acquire, refuse, settle, expire, change a limit | concurrent requests on several ledgers, crash between send and settle, late settlement | limit respected, nothing counted twice, nothing sent goes uncounted (but for a refused redirect) |
| Collection slots, pacing (`connectors/limits.py`) | `source_slots`, `source_pacing` | claim, (renew), release, reserve | slot leases outlived by their runs; a taken-over worker's release | at most `max_concurrent_runs` at once |
| Monitors (`monitoring/`) | `monitors`, occurrences | schedule, run now, pause, resume, edit, finish | scheduler races, downtime, edits between a request's check and its lock | one active execution, every slot accounted for, only the reviewed query is executed |
| Change detection (`changes/`) | change sets | compare | executions out of order, incomplete, or of another scope | what is called new, changed or gone is |
| Notifications (`notifications/`) | events, deliveries | emit, claim, check, send, finish, retry | delivery succeeded but its lease expired; settings change meanwhile | an outcome is final; every delivery ends |
| Cases and deletion (`cases/`) | `cases.status`, `case_deletions`, all rows and files of a case | archive, restore, request, claim, remove, verify, fail, retry | check and write in different transactions, workers still writing, failure handler without a token | a completed deletion left nothing |
| Accounts and members (`admin/`, `auth/`, `cases/members.py`) | accounts, memberships | set up, create, change, add, remove | administrators change each other at once | an active administrator remains |
| Imports (`imports/`) | `processing_jobs`, derived evidence | start, claim, stage, guarded write, requeue, cancel, answer | takeover, cancel, deletion while writing | the records are those of one attempt, each with its file |
| Documents, archives, chats (`imports/`) | none | extract, recognise, screen, parse, date | pages that fail, hang or kill; entries that lie about their size; ambiguous dates | a complete import left nothing out; what is cited is where it says |
| Evidence files (`evidence/`) | rows and files | store, remove, reconcile | file and row are written apart | no row without its file; files in flight are not taken for orphans |
| Indexing (`ai/indexing.py`, `ai/chunking.py`) | index state, chunks | mark, claim, embed, write, retry, reindex, cancel | evidence, mode or model changes during embedding | what was decided meanwhile is obeyed; nothing of the text is lost |
| AI runs (`ai/`) | `ai_runs`, answers | claim, authorize, retrieve, call, validate, persist | policy, role and lease change during minutes of a call | one answer, under the policy of its request, of supported claims only |
| Retention (`retention/`) | rules, jobs | plan, claim, remove | plan older than the removal; files before rows | baselines and imports in use are kept, what is half removed is due |
| Connectors, engines (`connectors/`) | cursors | fetch a page, read it, check a site | blocks, login walls, truncation, redirects, changing addresses | silence is not reported as absence; only permitted addresses are dialled |
| Egress gateway (`egress/`) | tunnels, slots | request, connect, handshakes, relay | two pumps per tunnel, limits of time, idleness and bytes; a side that takes nothing | tunnels are few and bounded |
| Entities and views (`entities/`, `reports/`) | entities, observations, relationships | graph, timeline, compare, report | limits, ties, missing instants, missing coverage | what is cut is told (with two exceptions, section 3); nothing is said that the records do not hold |
| STIX exchange (`exchange/`) | links of STIX ids | import, export | repeated and conflicting objects, edits and deletions in between | imports change nothing that was there; a round trip keeps what it promises |
| Saved queries, exports, audit, web, scripts | rows, documents | CRUD, conversion | mostly sequential | see section 5 |

Interactions modelled: the API, the dispatcher, the broker and the workers on a run
(`QueryRuns`), and with the same outbox on deliveries, processing jobs, indexing and AI runs (`Outbox`, used by
each of them); the scheduler, run now, the analysts and the executions on a monitor (`Monitors`); connector
runs, the dispatcher's housekeeping and the analyst on the ledgers (`Budgets`); the workers of one
connector's runs on its slots (`SourceSlots`); uploads, executions, reconciliation, archive, restore and the
deletion workers on the files and records of a case (`CaseFiles`); executions, change detection, imports and
retention on what was collected (`Collections`).

`PROJECT.json` lists every component with its status, and every hazard with its line and the
properties that cover it, if any does.

## 2. Modules

| Module | Contents |
|---|---|
| `QueryRuns`, `RunLifecycle` | the runs of one case, and the abstract specification they implement |
| `Outbox` | the outbox row of one piece of work, and its messages |
| `Budgets` | the request budgets of one case |
| `SourceSlots` | the slots that bound one connector's concurrent runs |
| `Monitors`, `Schedule` | one monitor; the arithmetic of its times |
| `Deliveries` | the delivery of an event to one destination |
| `ProcessingJobs` | the jobs that process one original |
| `CaseFiles` | files and records of one case: import, execution, reconciliation, archive, deletion |
| `Accounts` | accounts and the members of one case |
| `StixExchange` | import and export of bundles |
| `EvidenceIndexing` | the index of the evidence of one case |
| `AiRuns` | one request to the AI |
| `Collections`, `Comparison` | executions of one query, their change sets, and retention |
| `Documents`, `ChatExports` | extraction of documents; archives and chats |
| `Chunking`, `CaseSearch`, `AnswerValidation` | what is indexed, found and counted; what an answer may say |
| `CaseViews`, `EntityComparison`, `Reports` | graph and timeline; comparison; reports |
| `Fetching`, `SourcePages`, `EngineResults`, `PreviewParsing` | the network policy; pages of a source; the engines; the parser of a channel's preview |
| `EgressGateway` | the tunnels of the gateway |
| `QueryRuns_proofs`, `Budgets_proofs`, `Monitors_proofs` | theorems about the module of that name |
| `Slots_proofs` | theorems about `SourceSlots` |
| `Sources_proofs` | theorems about `EgressGateway`, `Fetching`, `SourcePages` and `EngineResults` |
| `Work_proofs` | theorems about `Deliveries`, `ProcessingJobs`, `CaseFiles` and `Accounts` |
| `Ai_proofs`, `Collections_proofs` | theorems about `AiRuns`, `EvidenceIndexing`, `CaseSearch` and `AnswerValidation`; about `Collections` |
| `MC…` | instances for TLC, one `.cfg` per run |

Operators marked *mutant* stand before the definition they are variants of. They are plausible bugs of
that definition, used to show that the properties notice them; no specification refers to them.

### QueryRuns

One action is one transaction of the program. Between its transactions a worker remembers what the
Python code holds in local variables (`work[w]`): the step it is at, its run and token, the connector,
its copy of the page count (`idx`), the page in hand, the outcome it decided but has not written.

| Code | Model |
|---|---|
| `query_runs` columns | `status`, `cancel`, `err`, `token`, `expired`, `claims` |
| `connector_runs` columns, coverage | `cstat`, `stop`, `tries` |
| evidence committed by `_persist_page` | `stored[r][c]`: the source page that each committed page holds |
| `dispatch_outbox` row of a run | `outbox`; `staleView` is a row the requeue query has found and not yet locked |
| messages | `inbox`: at least one copy waits |
| `create_run` | `AdmitRun` (the role and case checks of the request) then `CreateRun` (its commit) |
| `request_cancel`, membership changes | `RequestCancel`, `SetAccess` |
| `claim_run` | `ClaimRun`, one conditional update; on failure the worker goes to `AbandonIfExhausted` |
| `execute_run`, `_execute_connector`, `_run_pages` | `NextConnector`, `StartConnector`, `MarkRunning`, `CheckStop`, `CountAttempt`, `FetchPage`, `CountRetry`, `PersistPage` |
| `_finish_connector` (two transactions) | `WriteErrorCode`, `FinishConnector` |
| `_finalize`, `_fail_internal`, `_abandon_if_exhausted` | `Finalize`, `FailInternal`, `AbandonIfExhausted`, all through `ApplyFinalStatus` |
| `LeaseLostError` | `LeaseLost` |
| `publish`, `requeue_stale` | `Publish` / `PublishUncommitted`, `FindStale` then `RequeueStale` |
| crash, clock, broker | `Crash`, `LeaseExpires`, `LoseMessage`, `Receive` (a copy may stay) |

A lease token is a fresh uuid per claim. Each claim increments `claim_count`, so the model uses the value
of the counter as the token. `expired` abstracts `lease_expires_at < now`: a running lease may expire at
any time, any guarded write renews it.

Data is abstracted to what the properties distinguish: a page is its number at the source; evidence,
observations, entities and coverage notes are not there. A source has a fixed number of pages and its
connector follows cursors as `connectors/rss.py` does.

`request_cancel` locks a row that the same session has loaded before, and the ORM does not refresh it: the
status it decides on may be any the run had since the request came (`SeenStatus`). So it can end a run that a worker
executes as if that run still waited (`Interrupted`: the run keeps its lease and is not handed on), or rewrite one
that finished as canceled. With `PromptCancels` a configuration assumes that nothing changes the row between the two
reads. `runs_takeover` does, because the refinement needs it; `runs_connectors` and `runs_liveness`
do not, and `FinishedRunIsClosed` and `FinishedIsFinal` name what such a cancellation may do (TLC
checks the second where cancellations are prompt, and it is proved for both cases).

`RunLifecycle` is what an analyst is promised: each run is executed as if by one worker, once. It waits,
works, keeps pages in the order of the source, ends once, ends canceled if it was asked to stop, and
complete only if every page is kept. `QueryRuns!ImplementsLifecycle` maps the tables to it; claims,
leases, messages, retries and takeovers are stuttering steps.

### Budgets

A ledger row has reserved, consumed and estimated units; a request holds a reservation on every
ledger that applies. `acquire`, `settle`, `expire_stale` and `set_budgets` are one transaction each
and lock the rows they change, so each is one action; a refusal is rolled back and then recorded by a second
transaction (`Refuse`, `RecordRefusal`). `required[c]` is the copy of the limits a connector run reads
when it starts. Budgets are numbered in the order in which `acquire` sorts them. `Send` has three outcomes: the
request leaves; its destination is refused before; or it leaves and is redirected to a destination that is refused,
which the code settles like the second. `BeginPeriod` is
midnight; `since` is the period in which a request was granted, to whose rows its settlement goes.
`Restart` is a crash, or the end of a connector run, whose place is then taken by another one.
`Expire` may take any held reservation: the dispatcher's batch skips locked rows and has a limit, and the
model does not assume that a hold outlasts its request.

### SourceSlots

The rows of `source_slots` of one connector, and the workers that execute its connector runs, each of
another query run. `try_claim_slot` goes through the rows in order and keeps those it could not take locked
until it returns, so it is one step. The holder in a row is the connector run, not the worker: that is
how a takeover shares the row of its predecessor, and how a late predecessor's release frees it.
`owner` and `lapsed` are the lease of the query run (`QueryRuns` has it in full, with its limit of claims, in
place of which `MaxExecutions` bounds all executions together); `done` is the end of the connector run, which
for the slots is the end of the query run. `overdue` is a history variable: the kinds of leases that ended
while a living worker relied on one. Slot leases last with the defaults, in which no connector's timeout
exceeds the 300 s of a slot lease. Run leases do not: a run that waits for a slot renews its lease of 60 s only
once. `WithinTheSlots` holds until a lease is overdue; section 3 says what an overdue run lease does to the limit. A takeover takes the first row that it may have, which need not be its predecessor's
(`tests/test_collection.py:348` says it gets that one back): it then holds two until it releases both, and
`RowsAreReleased` covers that.

### The other lease holders

`Deliveries`, `ProcessingJobs`, `EvidenceIndexing` and `AiRuns` share a form: `worker[w].step` is where worker
`w` is between two transactions, with what it remembers; the row has its status, its counter of attempts or claims and
`lapsed`, the abstraction of a lease in the past. A worker whose lease lapsed goes on, and each guarded
write repeats the guard of the code: the token (`Owns`, `Holds`), the status alone where the code checks no more, or
nothing. The outbox row is the one of `Outbox`. `MaxFaults` bounds the deaths of workers and the leases that
end under a living one; `MaxEdits` what analysts and administrators change.

- `Deliveries`: one event, one destination. `Check` is the transaction before the request, `Send` the request and its
  pacing, `Finish` the transaction after it. The settings may change between any two.
- `ProcessingJobs`: `rows` and `files` hold one member per attempt that stored its records; `left` is what workers
  that died have left, which reconciliation may take. A start by the analyst while another job ends is the
  unique index of the code.
- `EvidenceIndexing`: a batch is one record at a time. `chunks` has the model each record was embedded with; a
  worker that embeds holds no transaction, so `Write` meets any mode, state and model.
- `AiRuns`: the stages of `_answer`, `_summary` and `_suggestions` are `Stages`; each begins with
  `_checkpoint`, and a call of the model is `Grant`, then `Call`. `changed` and `overtaken` are history variables. Requests
  that decide on a policy they loaded (`LoadSettings`, `LoadCreate`, `LoadCancel`) are there because the ORM does
  not refresh it. One analyst at a time changes the policy: two at once can write the same version, and a call in
  between would not notice.

### CaseFiles, Accounts, Monitors

Requests pass their check on what they loaded and commit later: `Load` then `SetStatus` or `RequestDeletion`,
`Pass` then `CheckMember`/`CheckAccount` then the commit, `LoadRunNow`, `LoadArchive` and `LoadResume`. Where the code
locks, the second step waits (`Locked`, `Serialized`, `RowIsFree`). In `CaseFiles` an import, an execution and
a scan are at most one each, and two deletions may follow one another or overlap. `Monitors` counts slots in ticks; `accounted` is what
its occurrences say of the slots since the last restart.

### Collections, Comparison

`world` is what the source has; an execution sees some of it (`Returns`), completely or not, and remembers the
truth for the property. `Comparison` is the code's comparison of two executions. Retention plans in one
transaction and removes in later ones, files first; two workers may work on a job, because its claim has no token. Executions become too
old (`Age`) in the order in which they were queued, as a monitor's do; section 4 says what depends on it. `MCAi` takes three instances, whose
bounds are its constants: one that compares and removes nothing, and two that remove executions, or an import.

### The rules

`Documents`, `ChatExports`, `Chunking`, `CaseSearch`, `AnswerValidation`, `CaseViews`, `EntityComparison`, `Reports`,
`Fetching`, `SourcePages`, `EngineResults` and `PreviewParsing` are functions of their inputs: no state outlives
a call. `MCRules`, `MCSources` and one part of `MCAi` put one question in each behaviour, from sets of small inputs: all
sequences of up to a few lines, pages, entries, chunks, claims, hops or answers. The properties compare what the code's
rules give with an independent definition. Texts are sequences of a few characters that behave differently, dates are months and
days around the ambiguous ones, addresses are the classes the network policy distinguishes, a claim is the set
of things the validation looks for in it.

`EgressGateway` is a machine of its own, with slots, handshakes and two pumps per tunnel, in ticks. A pump reads, for
which it has a limit of time, or waits until what it wrote is taken (`draining`), for which it has none. `Schedule` is
also asked, in `MCRules`, about plans by local time across a change of the zone's offset. The comparison of entities
reads no more than the oldest observations and relationships, as the code's limits say. `StixExchange` is a
machine whose steps are requests; the identifier of a record is derived as in the code, from the
platform's id, the value, or the record.

## 3. Runs

Bounds are constants in the `.cfg` files.

| Run | Instance | Shows |
|---|---|---|
| `runs_takeover` | 1 run, 2 workers, 1 connector, 2 source pages, 2 claims | no interleaving of a slow holder, a takeover, messages, cancellation, loss of role and deletion breaks mutual exclusion, the order of pages, promptness of a stop or finality; `RunLifecycle` is implemented |
| `runs_connectors` | 1 run, 1 worker, 2 connectors (2 and 1 pages), 3 claims, 2 attempts, page limit 2 | with cancellations that decide on an old status: what a run claims at its end is true, fetches are bounded across takeovers |
| `runs_liveness` | 1 run, 1 worker, 2 claims, 2 attempts | every run finishes; a stop asked for while it was unfinished is the outcome, although a cancellation may decide on an old status |
| `budgets` | 2 budgets (per period; per execution), 2 connector runs, 2 requests, 1 refusal, 2 periods; a limit of 2 that is lowered to 1, removed and set again | counters add up, limits hold, sent requests stay counted, through crashes, expiry, period change, edited limits and requests that hold different ledgers |
| `slots_takeover` | 3 connector runs, 3 workers, 2 slots, 4 executions, 1 crash; leases end at any time | whoever shares or takes whose row, none is left behind by a living worker; and while no lease has ended early, no more runs at work than slots |
| `monitors` | 1 monitor, 2 schedulers, 1 edit, 1 manual run, 5 ticks, skipped occurrences kept for 1 tick, both policies for missed slots | one active execution; each slot since the last restart has one occurrence or is counted as missed; only the query that was reviewed is executed |
| `work` | 2 workers, 1 fault. Deliveries: 2 emissions, 2 attempts, 2 edits. Jobs: 2 jobs of 2 attempts. Files: 1 import, 1 execution, 1 older original, 2 deletions. Accounts: 3 users, 2 requests at a time. Exchange: 5 bundles, 2 imports, 2 edits | outcomes of deliveries are final; records are whole; a completed deletion left nothing and nothing else takes a record's file; an administrator remains; imports and exports are honest |
| `ai` | 2 workers, 1 fault. Indexing: 1 record, 2 models, 2 edits. Answers: 2 claims, 2 edits. Changes: 3 executions of 1 item. Retention: 2 executions, or an import, and 1 job. Questions: 4 tool calls, 3 records, answers of 3 claims | workers obey what is decided while they embed or wait for a model; one answer; change sets are true; retention keeps what it must; answers are grounded |
| `progress` | 2 workers, 1 fault, at most 1 edit | deliveries, jobs, indexing and AI requests end |
| `sources` | 2 tunnels on 1 slot; fetches of up to 3 hops; runs of up to 3 pages; 2 sites; 2 providers; previews of 2 messages | egress is bounded; what a run reports, its source said; the text kept of a message is its own |
| `rules` | documents of up to 4 pages; archives of 4 entries; chats of 4 lines; texts of 7 characters; 5 chunks; graphs of 4 entities and 3 relationships; comparisons of 4 observations, of which 3 are read; reports of 3 pieces of evidence; daily and weekly slots around a change of the clock, with schedulers up to 10 ticks late | evidence is whole and found, views are true, each slot by local time is run, counted or awaited once |
| `runs_duplicates` | 1 run, 1 worker, 1 page | a disagreement, below |

`work`, `ai` and `progress` choose one part at the start: the parts share no row, so that a run of all of them
at once would show nothing more.

Why the bounds are enough. A takeover needs two workers and two claims; the second worker can itself be
late, because the first may receive the run again. Two pages are the least with a cursor and a
boundary; a page limit above the number of pages and one equal to it are both used. Two connectors
distinguish finished, current and unreached ones. In `Budgets` the hazards are pairwise: two
requests on a ledger, one request on two ledgers, a settlement that crosses a period. Two
runs with two workers, and liveness with two workers, are beyond what TLC finishes in minutes; runs
of a case share nothing but the workers and the state of the case. For the slots one more run than slots is what
can break the limit, and a third worker lets a late worker and its successor meet another run's; the fourth
execution is a takeover while all three runs have begun. A lease that ends too early and a death are one fault
each, and every hazard of a takeover needs one of them; two attempts are the least with a retry and a last one. One edit races one
worker; two let a setting be changed and changed back. A third administrator is the one who could remain.
Two executions after a baseline are the least in which a comparison can have the wrong one. In the rules
the bounds of the code (pages, members, chunks, nodes) are set to 1 to 6, below the length of the inputs, so that each is met and exceeded.

**Fairness** (`runs_liveness`, `progress`). The dispatcher and living workers take steps (weak fairness); a
worker that is waiting for a source ends at the connector's timeout. A lease that no living worker
holds expires. Messages may be lost and workers may die any number of times, but not every message
forever, nor every worker between receiving a message and its claim: strong fairness of `Receive`,
`ClaimRun` and `AbandonIfExhausted`. After a claim a worker may die every time; `run_max_claims` ends that.
In `progress` the same holds of each part: strong fairness of publishing a row whose message is not lost and of taking a
message, weak fairness of the scheduler that looks for records to index, of leases and delays that end, and of living
workers, whose requests have timeouts.

CHECK_DEADLOCK is off where nothing may be left to do: in `budgets` and `slots_takeover` with all requests used or all connector
runs done; in `monitors` at the last tick; in `work` and `ai` when a case is deleted and the bounds are
used; in `sources` and `rules` after the question, and with all tunnels closed.

### Where the code and its documents disagree

`runs_duplicates` shows one: `docs/adr/0004-…:70` says that "a reclaimed run resumes after the last committed page
without duplicates"; after a crash between the last page's commit and `_finish_after_last_page` the next claim does not look
at `has_more`, asks with no cursor, and stores the first page again. With the page limit reached, the same crash
makes it say "more results exist" (`queries/execution.py:792`) where there are none.

The others were met while modelling. The models follow the code, and the properties are stated as far as it goes.

| Statement | What the code does |
|---|---|
| `queries/execution.py:94` "… stop without writing." | `_stop_reason` and the first transaction of `_finish_connector` write without the token |
| `docs/adr/0004-…:74` "The run status is `canceled` if cancellation was requested" | a cancellation decides on the status it loaded before its lock, and is recorded on (or rewrites) a run that finished meanwhile |
| `queries/service.py:260` "running runs stop at the next bounded unit of work" | by the same, a run that a worker claimed meanwhile is ended like a waiting one: in the middle of a unit, with its lease, and change detection and its monitor are not told (`Interrupted`) |
| `connectors/http.py:45` "released (nothing left the installation)" | also when a redirect's destination is refused after the first request was sent (`Departure`); `SentIsCounted` leaves such requests out |
| `docs/monitoring/budgets.md:63` "Lowering it below current use refuses new requests until the next period" | limits are read once per connector run, and each request writes that copy back into the ledger |
| `docs/monitoring/budgets.md:48` "the transaction rolls back, the refusal is counted" | for the first request of a period the rollback removes the row that the count goes to |
| `docs/connectors/README.md:108` "at most `max_concurrent_runs` runs of one connector execute at once" | a run that waits for a slot is taken over; the late worker then deletes the row its successor works under |
| `docs/interoperability/stix.md:95` "a later bundle that repeats an object reuses the record" | after the record was deleted its link remains; the new link violates the unique index and the import fails |
| `docs/security/permissions.md:107` "last active analyst cannot be removed or demoted by case members" | the count is not serialized with the deactivation of the other analyst's account |
| `evidence/service.py:80` "later writers see the new status" | the case was loaded before the lock and is not refreshed: a late import commits into a case that is being deleted; the removal of the records finds it, the removal of the files may have passed |
| `docs/adr/0005-…:86` "not crowded out" | only the first chunks of the merged ranking are loaded; if those of few records fill it, a record gives no passage although there is room |
| `ai/validation.py:888` "A difference is always shown" | claims of one attribute that the grouping separates are not compared |
| `egress/gateway.py:18`, `docs/adr/0007-…:53` idle time | a pump that waits for one silent direction ends a tunnel whose other direction is active; and only reading has the limit: while a side takes nothing of what is written to it (`gateway.py:206`) and no other pump reads, the tunnel stays until its time limit |
| `tests/test_entities.py:199` the graph "reports truncation" | a graph around a focus that is full at the end of a step is not looked into further, and `truncated` stays false: of a chain of three with depth 2 and two nodes, the third is left out untold (`GraphIsTrue` exempts such graphs) |
| `entities/comparison.py:383` "latest value per source" | the oldest 2000 observations of an entity are read (`comparison.py:94`): what a source said after them is not shown, and nothing tells it (`SourcesAreFair` is about what is read) |
| `docs/operations/document-processing.md:19` `image_only` is partial | with recognition that found no text the job is completed |
| `docs/connectors/username-sherlock.md:45` inconclusive platforms are listed | selected sites that a custom manifest lacks are not counted |
| `docs/monitoring/README.md:73` "records how many earlier times were missed" | with the greatest grace that can be set, a day, and a weekly schedule on successive days, a slot that the scheduler finds within the grace of the one before is neither run nor counted (`SlotsAreTrue` is checked for graces below the distance of two slots) |
| `docs/monitoring/README.md:107` "New: returned now, not by a complete baseline" | a comparison that is delayed until its baseline was removed uses an older one |

## 4. Proofs

Everything here is checked by `tlapm` down to the leaves, with the named assumptions on the constants
(`RunsAssumption`, `BudgetsAssumption`, `SlotsAssumption`, `MonitorsAssumption`, `WorkAssumption`, `IndexAssumption`,
`AnswersAssumption`, `SearchAssumption`, `ValidationAssumption`, `ExecutionsAssumption`, `TunnelsAssumption`,
`FetchingAssumption`, `PagesAssumption`, `EnginesAssumption`), which say that bounds are natural numbers, that limits
the code requires are positive, and that markers like `NoRun` are none of the values they stand beside. TLC evaluates
them in the runs. Each theorem holds for every value of its constants, of which the run of section 3 shows one. The parts of `MCWork`
and `MCAi` take their bounds from their constants, and their theorems state the very properties of the runs:
`Work_proofs` extends `MCWork`, `Ai_proofs` extends `MCAi`, `Sources_proofs` extends `MCSources`.

**`QueryRuns_proofs`**, for any number of runs, workers, connectors, pages and any limits. `TypeCorrect`,
`OneHolderAlways`, `NeverForgottenAlways`, `FinishedRunIsClosedAlways` and `FinishedIsFinalAlways` follow from
`Invariance` (`Spec => []IInv`). None of them has a premise on cancellations: the statements of the last two say what
a cancellation decided on an old status may leave or rewrite. Only the refinement assumes `PromptCancels`, because
`RunLifecycle` knows no such cancellation.

`OneHolder` is not inductive: it speaks of tokens that match a row now and says nothing of the stale token of a late
worker. `IInv` adds why a stale token can never match again: a token is the number of its claim, no two workers have
the same claim (`TokensAreUnique`), a worker's token is between 1 and `claims` (`WorkersAreConsistent`), and a running
run has the token of its last claim (`RowsAreConsistent`). A claim makes a number that nobody has. Every guarded write
needs a running run and its token, so after a takeover only the newest claim writes, and after the end nobody does.
Finality follows: the steps that could change a finished run need it to be active or running. `RowsAreConsistent` also
ties the outbox row to the status; `RowsAreClosed` the follow-up and the absence of a token, or the interruption.

`PagesInOrderAlways`, `StopIsPromptAlways`, `FetchBoundAlways` and `CompletedIsCompleteAlways` follow from a second
invariant, `PInv`, that is inductive relative to the first. It relates what a worker remembers to what is stored: its
page count is at most the number of stored pages (`Remembers`) and, as long as it holds the lease, exactly that
(`HoldsAll`); so the page in its hand is the next one, or the first again. The attempts at a page are paid by the
claims: whoever holds the lease has one left at every connector it has not reached. A page that was stored late leaves
its worker at no step that leads to another.

`ImplementsLifecycleAlways` is the refinement: `Init` implies the initial predicate of `RunLifecycle` under the
mapping, and each action is one of its steps or leaves its variables alone. The steps of workers need `PInv`: that the
stored page is the next one, and that a run that completes has every page.

**`Budgets_proofs`**, for any number of budgets, connector runs, requests and periods. `WithinTheLimitAlways` and
`EndsOnceAlways` need only the types (`Shape`), because they speak of single steps: only `acquire` adds to a ledger's
total, and it does so under the limit that it leaves in the row; `settle` and `expire_stale` move units or give them
back; both touch held reservations only. `LedgersAddUpAlways`, `TypeCorrect` and `SentIsCountedAlways` need the sums.
A sum over a set of requests is stated as the cardinality of the set of their units, pairs of a request and a number
up to what it needs, so that to add or to remove one request adds or removes as many elements (`SizeAdds`,
`SizeRemoves`): no induction. `AddsUp` says that the reserved units of a ledger are those of the reservations held on
it, the others those of the ended ones; that no counter is ever negative follows. `SentIsCounted` is about requests that left and were
not redirected to a refused destination. `SentFollows` says that a request in
flight belongs to one connector run, which alone could give it back, and does not once it was sent.

**`Slots_proofs`**, for any number of runs, workers and slots: `TypeCorrect`; `RowsAreReleasedAlways`, inductive
as it stands, because a row is taken, kept or removed together with the worker that executes its run; and
`WithinTheSlotsAlways`. Until a lease is overdue (`LastingIInv`), a connector run has one worker, which owns it, and a
worker at work has a row of its own with a lease; so choosing a row for each executing run is an injection into the
slots, and there are `MaxConcurrentRuns` of those (`SlotsSuffice`).

**`Sources_proofs`** states `EgressIsBounded` and `AnswersAreTrue`.

`TunnelsAreAlwaysBounded` and `ProviderAlwaysEndsTheTunnel` hold for any number of connections, any allowlist and any
limits. A step of the gateway concerns one tunnel, so one lemma (`TunnelMoves`) says that the invariant survives it if
that tunnel is `Sound` afterwards and takes a slot only while one is free. `Sound` adds what the properties leave out:
while a tunnel is relayed the pump of the provider's side reads or waits to be drained, and no pump that reads has
waited for less time than the whole tunnel was idle; therefore the idle limit of one pump that reads bounds the
idleness of the tunnel. Where none reads, the theorem promises the time limit only.

`EgressIsAlwaysBounded` adds the fetches. For any chain of hops, a fetch dials no address but those the policy permits
(`FetchesStayPermitted`): each hop is resolved and checked before it is dialled, and nothing is dialled after the hop at
which the code stops. That there is such a hop, the first that is no followed redirect or the last one allowed, is
`ChainsEnd`; the response is that hop's (`ResponsesAreTrue`).

`AnswersAreAlwaysTrue` is about the loops over pages, sites and providers, for everything that a source can say (`Told`):
any sequence of pages, any site's answers, any provider's, and a stop at any point.

- Pages. `PagesAreAnswered` says of one page of each connector that absence, presence and failure are reported
  only for an answer that says so, and `PagesAreWhole` that a page without a warning keeps everything the answer
  had. `RunIInv` is the invariant of the loop: a run that goes on has failed at nothing, and what it kept is what the
  pages up to now had. `RunStep` proves that one page keeps it, `RunKeeps` that the whole loop has it, from which
  `AbsenceStaysAnswered` and `CompletedStaysEverything` follow.
- Sites. A profile's verdict is the foremost thing that happened to it (`ForemostHappened`), and the counts are those of the
  listed sites (`Counts`), so that a clean result has checked each (`ChecksStayTrue`).
- Providers. `SilenceStaysNoAbsence`: a run that reports that nothing was found was not stopped, and every provider it
  asked answered.

Two lemmas stand for the library's induction theorems, whose parameter is an operator: a set of natural numbers has
a least (`Least`), and one that has 0 and is closed under the successor has all (`Induces`). With them the functions
by which the model recurses are proved to exist (`RunsAreDefined`, `LinksAreDefined`), so that they can be
unfolded, and an induction is about the set of the numbers for which the statement holds. The invariant of the
specification (`AnswersIInv`, `FetchIsAsked`) says no more than that what was asked is something a source can say.

**`Monitors_proofs`**, for every interval, grace, retention and number of schedulers: `TypeCorrect`,
`OneActiveRunAlways`, `SlotsAreAccountedAlways` and `ReviewedDefinitionAlways`. `SlotsAreAccounted` counts slots with
the functions of `Schedule`; the invariant `SlotsFollow` says it in numbers: the next slot of an enabled monitor is as
many intervals after the first as are accounted for, and no occurrence lies behind it. A late scheduler moves both
sides by the slots that it skips and the one that it runs; `SlotsOfARange` counts those.

**`Work_proofs`**, for any number of workers, attempts, jobs, faults, edits, importers, deletions, users and requests.
`OutcomesAreFinal` and `AttemptsAreAlwaysBounded`: only a pending delivery has a token, the number of its last attempt,
so no late worker finishes an ended one; a further attempt is paid by an answer or by a fault. `RecordsAreAlwaysWhole`: an attempt is a
claim of a job, issued once (`AttemptsAreIssued`, `AttemptsAreDistinct`); whoever stages works for an attempt without
records (`OpenAttemptsAreNew`), stores only while its job runs, and ends the job with it. So there are records of one
attempt at most (`RecordsStand`), and each file is a record's, of a worker who will record or remove it, or of one who
died (`StagedFiles`).

`RecordsAlwaysHaveFiles`: an import or an execution without a record has its file and is not among the old files of
a reconciliation (`ImportsHold`, `RunHolds`), and the old files that it did not find a record for have none (`ScanHolds`); so it
removes none of a record. This holds until somebody asks to delete the case, as the property does.
`CompletedAlwaysMeansGone`: whoever verifies has deleted the records (`DeletersKnow`), after which nobody at work adds
one (`GoneIsEmpty`), and whoever completes saw no file but those in somebody's hands and those left behind.
`AdministratorRemainsAlways`: at most one request has checked a change of an account and not committed it
(`ChangesAreSerialized`, the locks of the code), and what it checked still holds (`ChecksHold`): another administrator
is active.

**`Ai_proofs`**, for any number of workers, claims, tries, records, models and edits. `OneAnswerAlways`: an unfinished
run has no answer (`AnswerIsLast`), and the answer is stored in the step that ends it. `PolicyIsAlwaysObeyed`: whoever
changes the policy ends the run if it waits and marks it if it works, and neither is undone (`ChangeStops`); what was
loaded before the change has an older version (`VersionsFollow`), and each call and each answer compares them under
the lock. `IndexingAlwaysObeys` rests on the types and the guards of each transaction. `ChangesAreAlwaysTrue` and
`RetentionIsAlwaysSafe` take the theorems of `Collections_proofs` for the three instances of `MCAi`.
`AnswersAreAlwaysGrounded` is about what a model is given and may answer, for any limits, passages and results; it
rests on `EveryAnswerIsGrounded` and `CallsAreAlwaysBounded`, which take any statements and any calls, not those of the
run only. What is shown passed the checks, and these imply that it is in what is cited (`PassedIsGrounded`); the merged
sides of a difference are groups that share no statement (`GroupsApart`), so each that passed is shown once; the status
counts statements that are about the question (`AnsweringIsRelevant`). Groups and calls are folds: that they are
defined for every length, and what each step leaves, is proved by way of a least counterexample (`Induces`).

**`Collections_proofs`**, for any number of executions, items, values, scopes, jobs, workers and rules:
`BaselinesAreAlwaysKept`, `HalfRemovedIsAlwaysDue`, `ChangesAreAlwaysTrue`, `ImportsInUseAlwaysStay`. What a worker
planned is removed in later transactions: `PlansHold` says that it did not become a baseline meanwhile and is still
due, unless a rule was lifted. It is so because baselines move to newer executions only, the newest are never removed
(`NewestAreKept`), and executions become old in the order in which they were queued (`OldInOrder`). The last is no
matter of taste: were a newer execution old first, a job could remove it, an older one, half removed, would then have
fewer than `keep_last_runs` newer ones, and would stay without its files. A monitor's executions cannot become old in
another order, because one is queued only after the last ended (`Monitors_proofs!OneActiveRunAlways`). Change sets are
true because a collection returns what the source had (`SeenIsTrue`), and a baseline is an execution that ended
(`BaselineEnded`).

**Model-checked only.** Liveness (`EveryRunFinishes`, `CancelSticks`, `WorkEnds`) is out of the prover's reach. So are
three sets of rules: `EvidenceIsWhole` and `ViewsAreTrue`, which recurse or fold over documents, texts and graphs, and
`PreviewsAreTrue`, a fold over the tokens of a page whose statement compares it with a nested scope. They would need
induction over data, for functions with many accumulators; the loops of `Sources_proofs` and `Ai_proofs` show what that
takes for one with few. One conjunct of `EvidenceIsWhole`, that a quote which is found is shown, depends on how the
characters of the instance are folded. `ExchangeIsHonest` is about an import, a fold over the objects of a bundle; what the
plan names of it can be proved.

## 5. Not modelled

The components listed as `not_modelled` in `PROJECT.json`, with reasons: exports (a dump of tables, read one after
the other without a snapshot), the audit log, start-up and settings, the web workspace, the evaluation harness and the operator's
scripts. Within the modelled ones:

- the content of pages, payloads, prompts and reports; the patterns by which texts are recognised; bytes of
  file formats; timestamps shown to users; `exhausted_at`; `overage_units`, which stays 0 because a request is
  settled with the units it acquired;
- row locks within a transaction, and with them deadlocks: `acquire` against `settle` on the ledgers, the
  scheduler (monitor, then case) against archive (case, then monitors), an edit of a saved query against its monitor. PostgreSQL
  ends one of the two by a rollback;
- pacing; sessions, passwords and lockout; credentials; the batches of the dispatcher's queries, in
  which `_requeue_lease_free` takes the first 200 rows without an order, so that rows of deleted destinations that are
  armed again forever can keep others waiting;
- the time that DNS takes while a tunnel holds its slot;
- previews whose elements are left open or end together: the pages of `sources` nest.

A statement that takes its value from one passage and its subject or date from another passes, in the model as in the
code, which checks each part against all that is cited.

Two statements that an analyst might expect are not made because the code does not mean them: a record of
an import may outlive a deletion's first attempt (the verification then fails it, and a retry
finds it), and an archived case may still gain records from work that began before.

## 6. Plan

1. Proofs: for `StixExchange`, that what an import is refused for leaves the case as it was.
2. A module `Lease`, the protocol the lease holders share, as their abstract specification, and the proof that each implements it.
3. `BudgetLocks`: the row locks of `acquire`, `settle` and `expire_stale`.
4. Pacing in `SourceSlots`, sessions in `Accounts`.
