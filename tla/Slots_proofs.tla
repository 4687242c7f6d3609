------------------------------ MODULE Slots_proofs ------------------------------
(***************************************************************************)
(* The slots of a connector, for any number of runs, workers and slots: no *)
(* row is left behind, and until a lease is overdue no more runs are at    *)
(* work than there are slots.                                              *)
(***************************************************************************)
EXTENDS SourceSlots, FiniteSetTheorems, FunctionTheorems, TLAPS

-----------------------------------------------------------------------------
(* The slots of a connector.                                               *)

\* Every step keeps the types.
LEMMA TypesStep == ASSUME TypeOK, [Next]_vars PROVE TypeOK'
<1> USE SlotsAssumption DEF TypeOK
<1>1. ASSUME NEW w \in Workers, NEW r \in Runs, Execute(w, r) PROVE TypeOK'
  <2>1. executions + 1 \in 0 .. MaxExecutions
    BY <1>1 DEF Execute
  <2> QED BY <1>1, <2>1 DEF Execute, slotVars
<1>2. ASSUME NEW w \in Workers, ClaimSlot(w) \/ NoSlot(w) \/ Wait(w) PROVE TypeOK'
  <2>1. run[w] \in Runs
    BY <1>2 DEF ClaimSlot, NoSlot, Wait
  <2>2. CASE ClaimSlot(w)
    BY <2>1, <2>2 DEF ClaimSlot, runVars
  <2>3. CASE NoSlot(w)
    BY <2>1, <2>3 DEF NoSlot, slotVars, runVars
  <2>4. CASE Wait(w)
    BY <2>1, <2>4 DEF Wait, slotVars
  <2> QED BY <1>2, <2>2, <2>3, <2>4
<1>3. ASSUME NEW w \in Workers, GiveUp(w) \/ LeaseLostWaiting(w) \/ Crash(w) PROVE TypeOK'
  <2>1. CASE GiveUp(w)
    BY <2>1 DEF GiveUp, Stop, slotVars, Owns
  <2>2. CASE LeaseLostWaiting(w)
    BY <2>2 DEF LeaseLostWaiting, Stop, slotVars, runVars
  <2>3. CASE Crash(w)
    <3>1. crashes + 1 \in 0 .. MaxCrashes
      BY <2>3 DEF Crash
    <3> QED BY <2>3, <3>1 DEF Crash, Stop, slotVars, runVars
  <2> QED BY <1>3, <2>1, <2>2, <2>3
<1>4. ASSUME NEW w \in Workers, Progress(w) \/ Finish(w) \/ Raise(w) PROVE TypeOK'
  BY <1>4 DEF Progress, Finish, Raise, Owns, slotVars, runVars, workerVars
<1>5. ASSUME NEW w \in Workers, Release(w) PROVE TypeOK'
  <2>1. holder' \in [Slots -> Runs \cup {NoRun}] /\ expired' \in [Slots -> BOOLEAN]
    BY <1>5 DEF Release
  <2>2. CASE Stop(w)
    BY <1>5, <2>1, <2>2 DEF Release, Stop, runVars
  <2>3. CASE at' = [at EXCEPT ![w] = "failing"] /\ UNCHANGED <<run, waited>>
    BY <1>5, <2>1, <2>3 DEF Release, runVars
  <2> QED BY <1>5, <2>2, <2>3 DEF Release
<1>9. ASSUME NEW w \in Workers, FailInternal(w) PROVE TypeOK'
  BY <1>9 DEF FailInternal, Stop, Owns, slotVars
<1>6. ASSUME NEW r \in Runs, RunLeaseEnds(r) PROVE TypeOK'
  BY <1>6 DEF RunLeaseEnds, slotVars, workerVars
<1>7. ASSUME NEW s \in Slots, SlotLeaseEnds(s) \/ Prune(s) PROVE TypeOK'
  BY <1>7 DEF SlotLeaseEnds, Prune, runVars, workerVars
<1>8. CASE UNCHANGED vars
  BY <1>8 DEF vars, slotVars, runVars, workerVars
<1> QED BY <1>1, <1>2, <1>3, <1>4, <1>5, <1>6, <1>7, <1>8, <1>9 DEF Next

\* The types of the rows and of the workers' variables.
THEOREM TypeCorrect == Spec => []TypeOK
<1>1. Init => TypeOK
  BY SlotsAssumption DEF Init, TypeOK, Slots
<1>2. TypeOK /\ [Next]_vars => TypeOK'
  BY TypesStep
<1> QED BY <1>1, <1>2, PTL DEF Spec

-----------------------------------------------------------------------------
\* A row is taken, kept or removed together with the worker that executes its connector run.
LEMMA RowsStep == ASSUME TypeOK, RowsAreReleased, [Next]_vars PROVE RowsAreReleased'
<1> USE DEF RowsAreReleased
<1>1. ASSUME NEW w \in Workers, NEW r \in Runs, Execute(w, r) PROVE RowsAreReleased'
  BY <1>1 DEF Execute, slotVars, TypeOK
<1>2. ASSUME NEW w \in Workers, ClaimSlot(w) PROVE RowsAreReleased'
  BY <1>2 DEF ClaimSlot, TypeOK
<1>3. ASSUME NEW w \in Workers, NoSlot(w) \/ Wait(w) PROVE RowsAreReleased'
  BY <1>3 DEF NoSlot, Wait, slotVars, runVars, TypeOK
<1>4. ASSUME NEW w \in Workers, GiveUp(w) \/ LeaseLostWaiting(w) \/ FailInternal(w)
      PROVE  RowsAreReleased'
  BY <1>4 DEF GiveUp, FailInternal, LeaseLostWaiting, Stop, slotVars, runVars, TypeOK
<1>5. ASSUME NEW w \in Workers, Crash(w) PROVE RowsAreReleased'
  BY <1>5 DEF Crash, TypeOK
<1>6. ASSUME NEW w \in Workers, Progress(w) \/ Finish(w) \/ Raise(w) PROVE RowsAreReleased'
  BY <1>6 DEF Progress, Finish, Raise, slotVars, runVars, workerVars, TypeOK
<1>7. ASSUME NEW w \in Workers, Release(w) PROVE RowsAreReleased'
  BY <1>7, SlotsAssumption DEF Release, Released, Stop, runVars, TypeOK
<1>8. ASSUME NEW r \in Runs, RunLeaseEnds(r) PROVE RowsAreReleased'
  BY <1>8 DEF RunLeaseEnds, slotVars, workerVars
<1>9. ASSUME NEW s \in Slots, SlotLeaseEnds(s) \/ Prune(s) PROVE RowsAreReleased'
  BY <1>9 DEF SlotLeaseEnds, Prune, runVars, workerVars, TypeOK
<1>10. CASE UNCHANGED vars
  BY <1>10 DEF vars, slotVars, runVars, workerVars
<1> QED BY <1>1, <1>2, <1>3, <1>4, <1>5, <1>6, <1>7, <1>8, <1>9, <1>10 DEF Next

\* No slot is lost but to a worker that died, whatever leases end and whoever takes over.
THEOREM RowsAreReleasedAlways == Spec => []RowsAreReleased
<1>1. Init => RowsAreReleased
  BY DEF Init, RowsAreReleased
<1>2. TypeOK /\ RowsAreReleased /\ [Next]_vars => RowsAreReleased'
  BY RowsStep
<1> QED BY <1>1, <1>2, TypeCorrect, PTL DEF Spec

-----------------------------------------------------------------------------
\* While leases last, a connector run has one worker, and one that executes has a row.
LEMMA LastingStep ==
  ASSUME TypeOK, LastingIInv, [Next]_vars
  PROVE  LastingIInv'
<1> USE SlotsAssumption DEF LastingIInv, OneWorkerPerRun, WorkersOwnTheirRuns, WorkersHaveRows,
        LapsedRunsHaveNoWorker
<1>1. ASSUME NEW w \in Workers, NEW r \in Runs, Execute(w, r) PROVE LastingIInv'
  <2>1. overdue = {} => \A v \in Workers : run[v] # r
    BY <1>1 DEF Execute, TypeOK
  <2> QED BY <1>1, <2>1 DEF Execute, slotVars, TypeOK
<1>2. ASSUME NEW w \in Workers, ClaimSlot(w) PROVE LastingIInv'
  BY <1>2 DEF ClaimSlot, Claimable, runVars, TypeOK
<1>3. ASSUME NEW w \in Workers, NoSlot(w) \/ Wait(w) PROVE LastingIInv'
  BY <1>3 DEF NoSlot, Wait, slotVars, runVars, TypeOK
<1>4. ASSUME NEW w \in Workers, GiveUp(w) \/ LeaseLostWaiting(w) \/ FailInternal(w) \/ Crash(w)
      PROVE  LastingIInv'
  BY <1>4 DEF GiveUp, FailInternal, LeaseLostWaiting, Crash, Stop, Owns, slotVars, runVars, TypeOK
<1>5. ASSUME NEW w \in Workers, Progress(w) \/ Finish(w) \/ Raise(w) PROVE LastingIInv'
  BY <1>5 DEF Progress, Finish, Raise, Owns, slotVars, runVars, workerVars, TypeOK
<1>6. ASSUME NEW w \in Workers, Release(w) PROVE LastingIInv'
  <2>1. /\ \A v \in Workers : v # w => at'[v] = at[v] /\ run'[v] = run[v]
        /\ \/ at'[w] = "idle" /\ run'[w] = NoRun
           \/ at'[w] = "failing" /\ run'[w] = run[w] /\ Owns(w)
        /\ UNCHANGED <<runVars, overdue>>
    BY <1>6 DEF Release, Stop, TypeOK
  <2>2. overdue = {} => WorkersHaveRows'
    <3> SUFFICES ASSUME overdue = {}, NEW v \in Workers, at'[v] = "working"
                 PROVE  \E s \in Slots : holder'[s] = run'[v] /\ ~expired'[s]
      OBVIOUS
    <3>1. v # w /\ at[v] = "working" /\ run'[v] = run[v] /\ run[v] # run[w]
      BY <1>6, <2>1 DEF Release, TypeOK
    <3>2. PICK s \in Slots : holder[s] = run[v] /\ ~expired[s]
      BY <3>1
    <3> QED BY <1>6, <3>1, <3>2 DEF Release, Released
  <2>3. overdue = {} => OneWorkerPerRun' /\ WorkersOwnTheirRuns' /\ LapsedRunsHaveNoWorker'
    BY <1>6, <2>1 DEF Owns, Release, runVars, TypeOK
  <2> QED BY <2>1, <2>2, <2>3
<1>7. ASSUME NEW r \in Runs, RunLeaseEnds(r) PROVE LastingIInv'
  <2>1. overdue' = {} => overdue = {} /\ \A v \in Workers : run[v] # r
    BY <1>7 DEF RunLeaseEnds, TypeOK
  <2> QED BY <1>7, <2>1 DEF RunLeaseEnds, slotVars, workerVars, TypeOK
<1>8. ASSUME NEW s \in Slots, SlotLeaseEnds(s) \/ Prune(s) PROVE LastingIInv'
  BY <1>8 DEF SlotLeaseEnds, Prune, runVars, workerVars, TypeOK
<1>9. CASE UNCHANGED vars
  BY <1>9 DEF vars, slotVars, runVars, workerVars
<1> QED BY <1>1, <1>2, <1>3, <1>4, <1>5, <1>6, <1>7, <1>8, <1>9 DEF Next

\* Each run that executes has a slot, and no two have the same.
LEMMA SlotsSuffice == ASSUME TypeOK, LastingIInv PROVE WithinTheSlots
<1> SUFFICES ASSUME overdue = {} PROVE Cardinality(Executing) <= MaxConcurrentRuns
  BY DEF WithinTheSlots
<1> DEFINE Row(r) == CHOOSE s \in Slots : holder[s] = r
           row == [r \in Executing |-> Row(r)]
<1>1. \A r \in Executing : Row(r) \in Slots /\ holder[Row(r)] = r
  BY DEF LastingIInv, WorkersHaveRows, Executing
<1>2. row \in Injection(Executing, Slots)
  BY <1>1, Fun_IsInj
<1>3. IsFiniteSet(Slots) /\ Cardinality(Slots) = MaxConcurrentRuns
  BY SlotsAssumption, FS_Interval DEF Slots
<1> QED BY <1>2, <1>3, FS_Injection

\* As long as no lease ends early, at most max_concurrent_runs connector runs execute at once, whatever
\* workers die and whoever takes their runs over.
THEOREM WithinTheSlotsAlways == Spec => []WithinTheSlots
<1>1. Init => LastingIInv
  BY SlotsAssumption DEF Init, LastingIInv, OneWorkerPerRun, WorkersOwnTheirRuns,
     WorkersHaveRows, LapsedRunsHaveNoWorker
<1>2. TypeOK /\ LastingIInv /\ [Next]_vars => LastingIInv'
  BY LastingStep
<1>3. TypeOK /\ LastingIInv => WithinTheSlots
  BY SlotsSuffice
<1> QED BY <1>1, <1>2, <1>3, TypeCorrect, PTL DEF Spec
=================================================================================
