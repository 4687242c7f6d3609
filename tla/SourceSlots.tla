------------------------------ MODULE SourceSlots ------------------------------
(***************************************************************************)
(* The slots of one connector: rows of source_slots that bound how many of *)
(* its connector runs execute at once, in all collector processes.         *)
(*                                                                         *)
(* A row is held by a connector run, not by the worker that executes it: a *)
(* worker that takes a run over uses the row of its predecessor, and a     *)
(* predecessor that is only late releases the row of its successor.        *)
(***************************************************************************)
EXTENDS Naturals, FiniteSets

CONSTANTS
  Runs,         \* connector runs of this connector, each of another query run
  Workers,
  MaxConcurrentRuns, \* descriptor.max_concurrent_runs
  NoRun,
  NoWorker,
  MaxExecutions, \* bound: executions of the connector runs, first ones and takeovers
  MaxCrashes    \* bound: workers that die

Slots == 0 .. MaxConcurrentRuns - 1

ASSUME SlotsAssumption ==
  /\ MaxConcurrentRuns \in Nat \ {0}
  /\ NoRun \notin Runs
  /\ NoWorker \notin Workers
  /\ IsFiniteSet(Runs)
  /\ MaxExecutions \in Nat
  /\ MaxCrashes \in Nat

VARIABLES
  holder,   \* source_slots.holder; NoRun: there is no such row
  expired,  \* source_slots.expires_at < now
  owner,    \* the worker whose token is in the row of the query run
  lapsed,   \* query_runs.lease_expires_at < now
  done,     \* the connector run is finished
  executions, \* how many times a worker began to execute one
  at,       \* where a worker stands
  run,      \* the connector run it executes
  waited,   \* the waited of _wait_for_slot
  crashes,  \* how many workers died
  overdue   \* history: the kinds of leases that ended while a living worker relied on one

slotVars == <<holder, expired>>
runVars == <<owner, lapsed, done, executions>>
workerVars == <<at, run, waited>>
vars == <<slotVars, runVars, workerVars, crashes, overdue>>

-----------------------------------------------------------------------------
TypeOK ==
  /\ holder \in [Slots -> Runs \cup {NoRun}]
  /\ expired \in [Slots -> BOOLEAN]
  /\ owner \in [Runs -> Workers \cup {NoWorker}]
  /\ lapsed \in [Runs -> BOOLEAN]
  /\ executions \in 0 .. MaxExecutions
  /\ done \in [Runs -> BOOLEAN]
  /\ at \in [Workers -> {"idle", "trying", "refused", "working", "leaving", "failing"}]
  /\ run \in [Workers -> Runs \cup {NoRun}]
  /\ waited \in [Workers -> BOOLEAN]
  /\ crashes \in 0 .. MaxCrashes
  /\ overdue \subseteq {"run", "slot"}
  /\ \A w \in Workers : at[w] = "idle" <=> run[w] = NoRun

Init ==
  /\ holder = [s \in Slots |-> NoRun]
  /\ expired = [s \in Slots |-> FALSE]
  /\ owner = [r \in Runs |-> NoWorker]
  /\ lapsed = [r \in Runs |-> FALSE]
  /\ executions = 0
  /\ done = [r \in Runs |-> FALSE]
  /\ at = [w \in Workers |-> "idle"]
  /\ run = [w \in Workers |-> NoRun]
  /\ waited = [w \in Workers |-> FALSE]
  /\ crashes = 0
  /\ overdue = {}

Owns(w) == run[w] \in Runs /\ owner[run[w]] = w

Stop(w) ==
  /\ at' = [at EXCEPT ![w] = "idle"]
  /\ run' = [run EXCEPT ![w] = NoRun]
  /\ waited' = [waited EXCEPT ![w] = FALSE]

-----------------------------------------------------------------------------
\* claim_run, then _execute_connector up to the first try of a slot.
Execute(w, r) ==
  /\ at[w] = "idle"
  /\ ~done[r]
  /\ owner[r] = NoWorker \/ lapsed[r]
  /\ executions < MaxExecutions
  /\ owner' = [owner EXCEPT ![r] = w]
  /\ lapsed' = [lapsed EXCEPT ![r] = FALSE]
  /\ executions' = executions + 1
  /\ at' = [at EXCEPT ![w] = "trying"]
  /\ run' = [run EXCEPT ![w] = r]
  /\ waited' = [waited EXCEPT ![w] = FALSE]
  /\ UNCHANGED <<slotVars, done, crashes, overdue>>

\* Mutant: the row of another run is taken over as soon as it is seen.
ClaimableByAnyone(s, r) == TRUE

\* The condition of the upsert.
Claimable(s, r) == holder[s] = NoRun \/ expired[s] \/ holder[s] = r

\* try_claim_slot.  It goes through the rows in their order and keeps those it could not take
\* locked until it returns, so it is one step.
ClaimSlot(w) ==
  /\ at[w] = "trying"
  /\ \E s \in Slots :
       /\ Claimable(s, run[w])
       /\ \A t \in Slots : t < s => ~Claimable(t, run[w])
       /\ holder' = [holder EXCEPT ![s] = run[w]]
       /\ expired' = [expired EXCEPT ![s] = FALSE]
  /\ at' = [at EXCEPT ![w] = "working"]
  /\ UNCHANGED <<runVars, run, waited, crashes, overdue>>

NoSlot(w) ==
  /\ at[w] = "trying"
  /\ \A s \in Slots : ~Claimable(s, run[w])
  /\ at' = [at EXCEPT ![w] = "refused"]
  /\ UNCHANGED <<slotVars, runVars, run, waited, crashes, overdue>>

\* _wait_for_slot goes on.  The first time round it writes, under the token, that the run
\* waits; later it only sleeps, and neither renews the lease nor notices that it is lost.
Wait(w) ==
  /\ at[w] = "refused"
  /\ waited[w] \/ Owns(w)
  /\ at' = [at EXCEPT ![w] = "trying"]
  /\ waited' = [waited EXCEPT ![w] = TRUE]
  /\ lapsed' = [lapsed EXCEPT ![run[w]] = waited[w] /\ @]
  /\ UNCHANGED <<slotVars, owner, executions, done, run, crashes, overdue>>

\* Canceled, or the deadline is over: the connector run is finished, if the token still is in
\* the row.
GiveUp(w) ==
  /\ at[w] = "refused"
  /\ Owns(w)
  /\ done' = [done EXCEPT ![run[w]] = TRUE]
  /\ owner' = [owner EXCEPT ![run[w]] = NoWorker]
  /\ Stop(w)
  /\ UNCHANGED <<slotVars, lapsed, executions, crashes, overdue>>

\* LeaseLostError outside the try block of _execute_connector: nothing to release.
LeaseLostWaiting(w) ==
  /\ at[w] = "refused"
  /\ ~Owns(w)
  /\ Stop(w)
  /\ UNCHANGED <<slotVars, runVars, crashes, overdue>>

\* _run_pages: a page, or progress, is written under the token.
Progress(w) ==
  /\ at[w] = "working"
  /\ Owns(w)
  /\ lapsed[run[w]]
  /\ lapsed' = [lapsed EXCEPT ![run[w]] = FALSE]
  /\ UNCHANGED <<slotVars, owner, executions, done, workerVars, crashes, overdue>>

\* _run_pages returns: the connector run is finished.
Finish(w) ==
  /\ at[w] = "working"
  /\ Owns(w)
  /\ done' = [done EXCEPT ![run[w]] = TRUE]
  /\ owner' = [owner EXCEPT ![run[w]] = NoWorker]
  /\ at' = [at EXCEPT ![w] = "leaving"]
  /\ UNCHANGED <<slotVars, lapsed, executions, run, waited, crashes, overdue>>

\* _run_pages raises LeaseLostError, or an error that nobody expects.
Raise(w) ==
  /\ at[w] = "working"
  /\ at' = [at EXCEPT ![w] = "leaving"]
  /\ UNCHANGED <<slotVars, runVars, run, waited, crashes, overdue>>

\* Mutant: a worker whose run was taken over leaves the rows to its successor.
ReleasedByOwner(w) ==
  IF owner[run[w]] \in {w, NoWorker} THEN {s \in Slots : holder[s] = run[w]} ELSE {}

\* The rows that release_slot deletes.
Released(w) == {s \in Slots : holder[s] = run[w]}

\* The finally block of _execute_connector.
Release(w) ==
  /\ at[w] = "leaving"
  /\ holder' = [s \in Slots |-> IF s \in Released(w) THEN NoRun ELSE holder[s]]
  /\ expired' = [s \in Slots |-> expired[s] /\ s \notin Released(w)]
  /\ \/ ~Owns(w) /\ Stop(w)
     \/ /\ Owns(w)
        /\ at' = [at EXCEPT ![w] = "failing"]
        /\ UNCHANGED <<run, waited>>
  /\ UNCHANGED <<runVars, crashes, overdue>>

\* _fail_internal, under the token.
FailInternal(w) ==
  /\ at[w] = "failing"
  /\ IF Owns(w)
     THEN /\ done' = [done EXCEPT ![run[w]] = TRUE]
          /\ owner' = [owner EXCEPT ![run[w]] = NoWorker]
     ELSE UNCHANGED <<done, owner>>
  /\ Stop(w)
  /\ UNCHANGED <<slotVars, lapsed, executions, crashes, overdue>>

-----------------------------------------------------------------------------
(* Crashes, clocks, the dispatcher.                                        *)

Crash(w) ==
  /\ at[w] # "idle"
  /\ crashes < MaxCrashes
  /\ crashes' = crashes + 1
  /\ Stop(w)
  /\ UNCHANGED <<slotVars, runVars, overdue>>

\* The lease of the query run ends.
RunLeaseEnds(r) ==
  /\ owner[r] # NoWorker
  /\ ~lapsed[r]
  /\ lapsed' = [lapsed EXCEPT ![r] = TRUE]
  /\ overdue' = IF run[owner[r]] = r THEN overdue \cup {"run"} ELSE overdue
  /\ UNCHANGED <<slotVars, owner, executions, done, workerVars, crashes>>

\* The lease of a slot ends.  No code renews it: renew_slot has no caller.
SlotLeaseEnds(s) ==
  /\ holder[s] # NoRun
  /\ ~expired[s]
  /\ expired' = [expired EXCEPT ![s] = TRUE]
  /\ overdue' = IF \E w \in Workers : run[w] = holder[s] THEN overdue \cup {"slot"} ELSE overdue
  /\ UNCHANGED <<holder, runVars, workerVars, crashes>>

\* limits.prune: rows whose lease ended long ago.
Prune(s) ==
  /\ expired[s]
  /\ holder' = [holder EXCEPT ![s] = NoRun]
  /\ expired' = [expired EXCEPT ![s] = FALSE]
  /\ UNCHANGED <<runVars, workerVars, crashes, overdue>>

Next ==
  \/ \E w \in Workers, r \in Runs : Execute(w, r)
  \/ \E w \in Workers :
       \/ ClaimSlot(w) \/ NoSlot(w) \/ Wait(w) \/ GiveUp(w) \/ LeaseLostWaiting(w)
       \/ Progress(w) \/ Finish(w) \/ Raise(w) \/ Release(w) \/ FailInternal(w) \/ Crash(w)
  \/ \E r \in Runs : RunLeaseEnds(r)
  \/ \E s \in Slots : SlotLeaseEnds(s) \/ Prune(s)

Spec == Init /\ [][Next]_vars

-----------------------------------------------------------------------------
(* Properties.                                                             *)

Executing == {r \in Runs : \E w \in Workers : at[w] = "working" /\ run[w] = r /\ owner[r] = w}

\* At most max_concurrent_runs connector runs execute at once, in all collector processes, as
\* long as leases outlast the workers that rely on them; a worker that has lost its run and has
\* not noticed is not counted.  It is what source_slots are for.
WithinTheSlots == overdue = {} => Cardinality(Executing) <= MaxConcurrentRuns

\* A slot is lost to nobody but a worker that died: every other row is of a connector run that
\* some worker still executes, and will release.  try_claim_slot may be called by two workers
\* for one run, and _wait_for_slot may return without a slot, on whatever path.
RowsAreReleased ==
  crashes = 0 =>
    \A s \in Slots : holder[s] # NoRun =>
      \E w \in Workers : run[w] = holder[s] /\ at[w] \in {"working", "leaving"}

\* What makes WithinTheSlots inductive: while leases last, a connector run has one worker,
\* which owns it, and a worker that executes has a row of its own, with a lease.
OneWorkerPerRun ==
  \A v, w \in Workers : run[v] # NoRun /\ run[v] = run[w] => v = w

WorkersOwnTheirRuns ==
  \A w \in Workers :
    /\ at[w] \in {"trying", "refused", "working", "failing"} => owner[run[w]] = w
    /\ at[w] = "leaving" =>
         owner[run[w]] = w \/ (owner[run[w]] = NoWorker /\ done[run[w]])

WorkersHaveRows ==
  \A w \in Workers : at[w] = "working" =>
    \E s \in Slots : holder[s] = run[w] /\ ~expired[s]

LapsedRunsHaveNoWorker == \A r \in Runs, w \in Workers : lapsed[r] => run[w] # r

LastingIInv ==
  overdue = {} =>
    OneWorkerPerRun /\ WorkersOwnTheirRuns /\ WorkersHaveRows /\ LapsedRunsHaveNoWorker
=============================================================================
