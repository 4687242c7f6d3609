------------------------------ MODULE Work_proofs ------------------------------
(***************************************************************************)
(* Of the parts of MCWork, for any workers, attempts, jobs, imports, users,*)
(* requests, edits and faults.  Deliveries: an outcome is final and the    *)
(* attempts are bounded.  Jobs: the records of an original are those of    *)
(* one attempt, and no attempt leaves files behind.  Files: the            *)
(* reconciliation never takes the file of a record, and a deletion that is *)
(* reported as completed left nothing.  Accounts: an installation that was *)
(* set up keeps an administrator.                                          *)
(***************************************************************************)
EXTENDS MCWork, TLAPS

-----------------------------------------------------------------------------
(* Deliveries.                                                             *)

Attempting == {"check", "send", "finish"}

\* A worker at an attempt carries the token of its claim, and its answer when it finishes; the others
\* carry no token as long as there is a delivery.
WorkersAreConsistent ==
  \A w \in Workers :
    /\ worker[w].step \in Attempting => worker[w].token # 0
    /\ worker[w].step = "finish" => worker[w].answer # "none"
    /\ worker[w].step \notin Attempting /\ delivery.status # "removed" => worker[w].token = 0

\* The attempts that are made beyond the limit are paid by faults.
AttemptsAreBounded == delivery.attempts <= MaxAttempts + faults

\* Only a pending delivery has a token, which is the number of its last attempt; the next attempt is
\* paid by an answer or by a fault.
RowIsConsistent ==
  /\ delivery.status # "pending" => delivery.token = 0
  /\ delivery.status = "pending" /\ delivery.token = 0 => delivery.attempts < MaxAttempts
  /\ AttemptsAreBounded
  /\ delivery.token # 0 => /\ delivery.token = delivery.attempts
                           /\ delivery.lapsed \/ ~Deliveries!Held => delivery.attempts < MaxAttempts + faults

DeliveriesIInv == Deliveries!TypeOK /\ faults \in 0 .. MaxFaults /\ WorkersAreConsistent /\ RowIsConsistent

DeliveryRows ==
  [status : Deliveries!Ended \cup {"none", "pending", "removed"},
   attempts : Deliveries!Attempts, token : Deliveries!Attempts,
   lapsed : BOOLEAN, due : BOOLEAN, bound : BOOLEAN]

DeliverySessions ==
  [Workers -> [step : {"idle", "claim", "check", "send", "finish"}, token : Deliveries!Attempts,
               answer : {"none", "accepted", "refused", "retryable", "blocked"}]]

-----------------------------------------------------------------------------
\* Before a delivery is due the invariant holds.
LEMMA DeliveriesInit == ASSUME Deliveries!DeliveriesAssumption, Deliveries!Init PROVE DeliveriesIInv
<1>1. 0 \in Deliveries!Attempts /\ 0 \in 0 .. MaxFaults /\ 0 <= MaxAttempts + 0
  BY DEF Deliveries!DeliveriesAssumption, Deliveries!Attempts
<1>2. Deliveries!TypeOK
  BY <1>1 DEF Deliveries!Init, Deliveries!OutboxInit, Deliveries!TypeOK, Deliveries!OutboxTypeOK,
     Deliveries!NoDelivery, Deliveries!Idle
<1>3. WorkersAreConsistent /\ RowIsConsistent
  BY <1>1 DEF Deliveries!Init, WorkersAreConsistent, RowIsConsistent, AttemptsAreBounded,
     Deliveries!NoDelivery, Deliveries!Idle, Attempting
<1> QED
  BY <1>1, <1>2, <1>3 DEF Deliveries!Init, DeliveriesIInv

\* The facts about the types that every step uses.
LEMMA DeliveryFacts ==
  ASSUME Deliveries!DeliveriesAssumption, DeliveriesIInv
  PROVE  /\ MaxAttempts \in Nat \ {0} /\ MaxFaults \in Nat /\ faults \in Nat /\ faults <= MaxFaults
         /\ delivery \in DeliveryRows /\ 0 \in Deliveries!Attempts
         /\ delivery.attempts \in Nat /\ delivery.token \in Nat
         /\ delivery.lapsed \in BOOLEAN /\ delivery.due \in BOOLEAN /\ delivery.bound \in BOOLEAN
<1>1. delivery \in DeliveryRows
  BY DEF DeliveriesIInv, Deliveries!TypeOK, DeliveryRows
<1> QED
  BY <1>1 DEF Deliveries!DeliveriesAssumption, DeliveriesIInv, DeliveryRows, Deliveries!Attempts

\* The program and the dispatcher leave the delivery and the workers alone, or the edit of a setting
\* changes only whether the delivery is bound to a subscription.
LEMMA QuietStep ==
  ASSUME Deliveries!DeliveriesAssumption, DeliveriesIInv, Deliveries!TypeOK', UNCHANGED <<worker, faults>>,
         UNCHANGED <<delivery.status, delivery.attempts, delivery.token, delivery.lapsed>>
  PROVE  DeliveriesIInv'
  BY DeliveryFacts DEF DeliveriesIInv, WorkersAreConsistent, RowIsConsistent, AttemptsAreBounded,
     Deliveries!Held

\* Types are kept when the delivery and the worker that change keep theirs.
LEMMA DeliveryTypesKept ==
  ASSUME Deliveries!TypeOK, delivery' \in DeliveryRows, worker' \in DeliverySessions, UNCHANGED <<inbox, Deliveries!settingsVars>>,
         outbox' = outbox \/ Deliveries!Enqueue \/ Deliveries!MarkDone
  PROVE  Deliveries!TypeOK'
  BY DEF Deliveries!TypeOK, Deliveries!OutboxTypeOK, DeliveryRows, DeliverySessions,
     Deliveries!settingsVars, Deliveries!Enqueue, Deliveries!MarkDone

\* Emitting writes a pending row and its outbox row.
LEMMA EmitStep ==
  ASSUME Deliveries!DeliveriesAssumption, DeliveriesIInv, Deliveries!Emit
  PROVE  DeliveriesIInv'
<1>1. CASE subscribed # "no" /\ destination = "on" /\ delivery.status = "none"
  <2>1. delivery' = [Deliveries!NoDelivery EXCEPT !.status = "pending", !.due = TRUE, !.bound = TRUE]
    BY <1>1 DEF Deliveries!Emit
  <2>2. Deliveries!TypeOK'
    <3>1. delivery' \in DeliveryRows
      BY <2>1, DeliveryFacts DEF Deliveries!NoDelivery, DeliveryRows, Deliveries!Ended
    <3>2. worker' \in DeliverySessions
      BY DEF Deliveries!Emit, DeliveriesIInv, Deliveries!TypeOK, DeliverySessions
    <3> QED
      BY <1>1, <3>1, <3>2, DeliveryTypesKept DEF Deliveries!Emit, DeliveriesIInv
  <2>3. UNCHANGED <<worker, faults>>
    BY DEF Deliveries!Emit
  <2> QED
    BY <1>1, <2>1, <2>2, <2>3, DeliveryFacts DEF DeliveriesIInv, WorkersAreConsistent, RowIsConsistent,
       AttemptsAreBounded, Deliveries!NoDelivery
<1>2. CASE ~(subscribed # "no" /\ destination = "on" /\ delivery.status = "none")
  <2>1. Deliveries!TypeOK' /\ UNCHANGED <<worker, faults, delivery>>
    BY <1>2 DEF Deliveries!Emit, Deliveries!settingsVars, DeliveriesIInv, Deliveries!TypeOK,
       Deliveries!OutboxTypeOK
  <2> QED
    BY <2>1, QuietStep
<1> QED
  BY <1>1, <1>2

\* A worker that claims takes the number of the attempt; one that may not leaves.
LEMMA ClaimStep ==
  ASSUME Deliveries!DeliveriesAssumption, DeliveriesIInv, NEW w \in Workers, Deliveries!Claim(w)
  PROVE  DeliveriesIInv'
<1> DEFINE n == delivery.attempts + 1
<1>1. CASE Deliveries!Claimable
  <2>1. /\ delivery' = [delivery EXCEPT !.attempts = n, !.token = n, !.lapsed = FALSE]
        /\ worker' = [worker EXCEPT ![w].step = "check", ![w].token = n]
        /\ UNCHANGED <<Deliveries!outboxVars, Deliveries!settingsVars, emits, faults>>
    BY <1>1 DEF Deliveries!Claim
  <2>2. delivery.attempts < MaxAttempts + faults /\ delivery.status = "pending"
    BY <1>1, DeliveryFacts DEF Deliveries!Claimable, DeliveriesIInv, RowIsConsistent, AttemptsAreBounded
  <2>3. n \in Deliveries!Attempts /\ n # 0 /\ n <= MaxAttempts + faults
    BY <2>2, DeliveryFacts DEF Deliveries!Attempts
  <2>4. Deliveries!TypeOK'
    BY ZenonT(60), <2>1, <2>3 DEF Deliveries!outboxVars, Deliveries!settingsVars, DeliveriesIInv, Deliveries!TypeOK,
       Deliveries!OutboxTypeOK
  <2>5. /\ worker'[w].step = "check" /\ worker'[w].token = n
        /\ \A v \in Workers \ {w} : worker'[v] = worker[v]
        /\ delivery'.status = "pending" /\ delivery'.token = n /\ delivery'.attempts = n /\ ~delivery'.lapsed
    BY <2>1, <2>2 DEF DeliveriesIInv, Deliveries!TypeOK
  <2>6. Deliveries!Held'
    BY <2>5 DEF Deliveries!Held
  <2>7. WorkersAreConsistent'
    BY <2>5, <2>2, <2>3 DEF DeliveriesIInv, WorkersAreConsistent, Attempting
  <2>8. RowIsConsistent'
    BY <2>1, <2>3, <2>5, <2>6 DEF RowIsConsistent, AttemptsAreBounded
  <2> QED
    BY <2>1, <2>4, <2>7, <2>8 DEF DeliveriesIInv
<1>2. CASE ~Deliveries!Claimable
  <2>1. worker' = [worker EXCEPT ![w].step = "idle", ![w].answer = "none"] /\ UNCHANGED <<Deliveries!outboxVars, Deliveries!settingsVars, delivery, emits, faults>>
    BY <1>2 DEF Deliveries!Claim, Deliveries!Goes
  <2>2. Deliveries!TypeOK'
    BY ZenonT(60), <2>1 DEF Deliveries!outboxVars, Deliveries!settingsVars, DeliveriesIInv, Deliveries!TypeOK,
       Deliveries!OutboxTypeOK
  <2>3. /\ worker'[w].step = "idle" /\ worker'[w].token = worker[w].token
        /\ \A v \in Workers \ {w} : worker'[v] = worker[v]
        /\ worker[w].step = "claim"
    BY <2>1 DEF DeliveriesIInv, Deliveries!TypeOK, Deliveries!Claim
  <2>4. WorkersAreConsistent'
    BY <2>1, <2>3 DEF DeliveriesIInv, WorkersAreConsistent, Attempting
  <2>5. delivery.token # 0 /\ Deliveries!Held => Deliveries!Held'
    BY <2>1, <2>3, DeliveryFacts DEF Deliveries!Held, DeliveriesIInv, WorkersAreConsistent, RowIsConsistent,
       AttemptsAreBounded, Attempting
  <2> QED
    BY <2>1, <2>2, <2>4, <2>5 DEF DeliveriesIInv, RowIsConsistent, AttemptsAreBounded
<1> QED
  BY <1>1, <1>2

\* A worker goes on with its attempt, or leaves one that was removed.
LEMMA WorkerGoes ==
  ASSUME Deliveries!DeliveriesAssumption, DeliveriesIInv, NEW w \in Workers, NEW step, NEW got,
         Deliveries!Goes(w, step, got), UNCHANGED <<delivery, faults>>, Deliveries!TypeOK', step = "finish" => got # "none",
         \/ step \in Attempting /\ worker[w].step \in Attempting
         \/ step \notin Attempting /\ worker[w].step \notin Attempting
         \/ step \notin Attempting /\ delivery.status = "removed"
  PROVE  DeliveriesIInv'
<1>1. /\ worker'[w].step = step /\ worker'[w].token = worker[w].token /\ worker'[w].answer = got
      /\ \A v \in Workers \ {w} : worker'[v] = worker[v]
  BY DEF Deliveries!Goes, DeliveriesIInv, Deliveries!TypeOK
<1>2. WorkersAreConsistent'
  BY <1>1 DEF DeliveriesIInv, WorkersAreConsistent
<1>3. delivery.token # 0 /\ Deliveries!Held => Deliveries!Held'
  BY <1>1, DeliveryFacts DEF Deliveries!Held, DeliveriesIInv, WorkersAreConsistent, RowIsConsistent,
     AttemptsAreBounded, Attempting
<1> QED
  BY <1>2, <1>3 DEF DeliveriesIInv, RowIsConsistent, AttemptsAreBounded

\* A worker that finishes ends the attempt it holds, or is too late.
LEMMA FinishStep ==
  ASSUME Deliveries!DeliveriesAssumption, DeliveriesIInv, NEW w \in Workers, Deliveries!Finish(w)
  PROVE  DeliveriesIInv'
<1>1. /\ worker' = [worker EXCEPT ![w] = Deliveries!Idle] /\ UNCHANGED <<inbox, Deliveries!settingsVars, emits, faults>>
      /\ worker'[w] = Deliveries!Idle
      /\ \A v \in Workers \ {w} : worker'[v] = worker[v]
      /\ worker[w].step = "finish" /\ worker[w].token # 0
  BY DEF Deliveries!Finish, DeliveriesIInv, Deliveries!TypeOK, WorkersAreConsistent, Attempting
<1>2. delivery'.status # "removed" => delivery.status # "removed"
  BY DEF Deliveries!Finish, Deliveries!Holds, Deliveries!End, Deliveries!Retry
<1>3. WorkersAreConsistent'
  BY <1>1, <1>2 DEF DeliveriesIInv, WorkersAreConsistent, Deliveries!Idle, Attempting
<1>6. worker' \in DeliverySessions
  BY <1>1, DeliveryFacts DEF DeliveriesIInv, Deliveries!TypeOK, DeliverySessions, Deliveries!Idle,
     Deliveries!Attempts
<1>4. CASE ~Deliveries!Holds(w)
  <2>1. UNCHANGED <<delivery, outbox>>
    BY <1>4 DEF Deliveries!Finish
  <2>2. Deliveries!TypeOK'
    BY <1>1, <1>6, <2>1, DeliveryTypesKept DEF DeliveriesIInv, Deliveries!TypeOK, DeliveryRows
  <2>3. delivery.token # 0 /\ Deliveries!Held => Deliveries!Held'
    BY <1>1, <1>4, <2>1 DEF Deliveries!Held, Deliveries!Holds, DeliveriesIInv, RowIsConsistent,
       AttemptsAreBounded
  <2> QED
    BY <1>1, <1>3, <2>1, <2>2, <2>3 DEF DeliveriesIInv, RowIsConsistent, AttemptsAreBounded
<1>5. CASE Deliveries!Holds(w)
  <2>1. delivery.status = "pending" /\ delivery.token = delivery.attempts
    BY <1>1, <1>5 DEF Deliveries!Holds, DeliveriesIInv, RowIsConsistent, AttemptsAreBounded
  <2>2. ASSUME NEW status \in Deliveries!Ended, Deliveries!End(status) PROVE DeliveriesIInv'
    <3>1. delivery' = [delivery EXCEPT !.status = status, !.token = 0, !.lapsed = FALSE]
      BY <2>2 DEF Deliveries!End
    <3>2. Deliveries!TypeOK'
      <4>1. delivery' \in DeliveryRows
        BY <2>2, <3>1, DeliveryFacts DEF DeliveryRows, Deliveries!Ended
      <4> QED
        BY <1>1, <1>6, <2>2, <4>1, DeliveryTypesKept DEF Deliveries!End, DeliveriesIInv
    <3>3. RowIsConsistent'
      BY <1>1, <3>1, <2>2, DeliveryFacts DEF RowIsConsistent, AttemptsAreBounded, DeliveriesIInv,
         Deliveries!TypeOK, Deliveries!Ended
    <3> QED
      BY <1>1, <1>3, <3>2, <3>3 DEF DeliveriesIInv
  <2>3. CASE Deliveries!Retry /\ delivery.attempts < MaxAttempts
    <3>1. delivery' = [delivery EXCEPT !.token = 0, !.lapsed = FALSE, !.due = FALSE]
      BY <2>3 DEF Deliveries!Retry
    <3>2. Deliveries!TypeOK'
      <4>1. delivery' \in DeliveryRows
        BY <3>1, DeliveryFacts DEF DeliveryRows
      <4> QED
        BY <1>1, <1>6, <2>3, <4>1, DeliveryTypesKept DEF Deliveries!Retry, DeliveriesIInv
    <3>3. RowIsConsistent'
      BY <1>1, <3>1, <2>1, <2>3, DeliveryFacts DEF RowIsConsistent, AttemptsAreBounded, DeliveriesIInv,
         Deliveries!TypeOK
    <3> QED
      BY <1>1, <1>3, <3>2, <3>3 DEF DeliveriesIInv
  <2>4. worker[w].answer \in {"accepted", "refused", "retryable", "blocked"}
    BY <1>1 DEF DeliveriesIInv, Deliveries!TypeOK, WorkersAreConsistent
  <2>5. \/ \E status \in Deliveries!Ended : Deliveries!End(status)
        \/ Deliveries!Retry /\ delivery.attempts < MaxAttempts
    <3>1. CASE worker[w].answer = "accepted"
      BY <1>5, <3>1 DEF Deliveries!Finish, Deliveries!Ended
    <3>2. CASE worker[w].answer = "refused"
      BY <1>5, <3>2 DEF Deliveries!Finish, Deliveries!Ended
    <3>3. CASE worker[w].answer = "blocked"
      BY <1>5, <3>3 DEF Deliveries!Finish, Deliveries!Ended
    <3>4. CASE worker[w].answer = "retryable"
      BY <1>5, <3>4 DEF Deliveries!Finish, Deliveries!Ended
    <3> QED
      BY <2>4, <3>1, <3>2, <3>3, <3>4
  <2> QED
    BY <2>2, <2>3, <2>5
<1> QED
  BY <1>4, <1>5

\* Taking a message writes no row.
LEMMA ReceiveStep ==
  ASSUME Deliveries!DeliveriesAssumption, DeliveriesIInv, NEW w \in Workers, Deliveries!Receive(w)
  PROVE  DeliveriesIInv'
<1>1. Deliveries!TypeOK'
  BY ZenonT(60) DEF Deliveries!Receive, Deliveries!TakeMessage, Deliveries!Goes, Deliveries!settingsVars,
     DeliveriesIInv, Deliveries!TypeOK, Deliveries!OutboxTypeOK
<1> QED
  BY <1>1, WorkerGoes DEF Deliveries!Receive, Attempting

\* Reading the settings writes no row.
LEMMA CheckStep ==
  ASSUME Deliveries!DeliveriesAssumption, DeliveriesIInv, NEW w \in Workers, Deliveries!Check(w)
  PROVE  DeliveriesIInv'
<1>1. Deliveries!TypeOK'
  BY DEF Deliveries!Check, Deliveries!Goes, Deliveries!outboxVars, Deliveries!settingsVars, DeliveriesIInv,
     Deliveries!TypeOK, Deliveries!OutboxTypeOK
<1>2. worker[w].step \in Attempting /\ UNCHANGED <<delivery, faults>>
  BY DEF Deliveries!Check, Attempting
<1>3. \/ delivery.status = "removed" /\ Deliveries!Goes(w, "idle", "none")
      \/ Deliveries!Goes(w, "finish", "blocked")
      \/ Deliveries!Goes(w, "send", "none")
  BY DEF Deliveries!Check
<1> QED
  BY <1>1, <1>2, <1>3, WorkerGoes DEF Attempting

\* The answer of the channel is what the worker goes on to record.
LEMMA SendStep ==
  ASSUME Deliveries!DeliveriesAssumption, DeliveriesIInv, NEW w \in Workers, Deliveries!Send(w)
  PROVE  DeliveriesIInv'
<1>1. Deliveries!TypeOK'
  <2>1. worker' \in DeliverySessions
    <3>1. PICK got \in {"accepted", "refused", "retryable", "blocked"} : Deliveries!Goes(w, "finish", got)
      BY DEF Deliveries!Send
    <3> QED
      BY ZenonT(60), <3>1 DEF Deliveries!Goes, DeliveriesIInv, Deliveries!TypeOK, DeliverySessions
  <2> QED
    BY <2>1, DeliveryFacts, DeliveryTypesKept DEF Deliveries!Send, Deliveries!outboxVars, DeliveriesIInv
<1>2. worker[w].step \in Attempting /\ UNCHANGED <<delivery, faults>>
  BY DEF Deliveries!Send, Attempting
<1>3. \E got \in {"accepted", "refused", "retryable", "blocked"} : Deliveries!Goes(w, "finish", got)
  BY DEF Deliveries!Send
<1> QED
  BY <1>1, <1>2, <1>3, WorkerGoes DEF Attempting

\* The death of a worker and the end of the lease of one that lives are paid by a fault.
LEMMA CrashStep ==
  ASSUME Deliveries!DeliveriesAssumption, DeliveriesIInv, NEW w \in Workers, Deliveries!Crash(w)
  PROVE  DeliveriesIInv'
<1>1. /\ worker'[w] = Deliveries!Idle /\ \A v \in Workers \ {w} : worker'[v] = worker[v]
      /\ faults' = faults + 1 /\ faults' <= MaxFaults /\ UNCHANGED <<Deliveries!outboxVars, Deliveries!settingsVars, delivery>>
  BY DeliveryFacts DEF Deliveries!Crash, DeliveriesIInv, Deliveries!TypeOK
<1>2. worker' \in DeliverySessions
  BY DeliveryFacts DEF Deliveries!Crash, DeliveriesIInv, Deliveries!TypeOK, DeliverySessions,
     Deliveries!Idle
<1>3. Deliveries!TypeOK'
  BY <1>1, <1>2, DeliveryFacts, DeliveryTypesKept DEF Deliveries!outboxVars, DeliveriesIInv
<1>4. WorkersAreConsistent'
  BY <1>1 DEF DeliveriesIInv, WorkersAreConsistent, Deliveries!Idle, Attempting
<1>5. RowIsConsistent'
  BY <1>1, DeliveryFacts DEF DeliveriesIInv, RowIsConsistent, AttemptsAreBounded
<1> QED
  BY <1>1, <1>3, <1>4, <1>5, DeliveryFacts DEF DeliveriesIInv

\* A lease that runs out leaves the outcome of its row alone.
LEMMA LeaseExpiresStep ==
  ASSUME Deliveries!DeliveriesAssumption, DeliveriesIInv, Deliveries!LeaseExpires
  PROVE  DeliveriesIInv'
<1>1. /\ delivery' = [delivery EXCEPT !.lapsed = TRUE] /\ delivery.token # 0 /\ ~delivery.lapsed
      /\ IF Deliveries!Held THEN faults < MaxFaults /\ faults' = faults + 1 ELSE UNCHANGED faults
      /\ UNCHANGED <<Deliveries!outboxVars, Deliveries!settingsVars, worker>>
  BY DEF Deliveries!LeaseExpires
<1>2. delivery' \in DeliveryRows /\ worker' \in DeliverySessions
  BY <1>1, DeliveryFacts DEF DeliveriesIInv, Deliveries!TypeOK, DeliveryRows, DeliverySessions
<1>3. Deliveries!TypeOK' /\ faults' \in 0 .. MaxFaults
  BY <1>1, <1>2, DeliveryFacts, DeliveryTypesKept DEF Deliveries!outboxVars, DeliveriesIInv
<1>4. /\ delivery'.status = delivery.status /\ delivery'.attempts = delivery.attempts
      /\ delivery'.token = delivery.token /\ delivery'.lapsed
  BY <1>1, DeliveryFacts DEF DeliveryRows
<1>5. WorkersAreConsistent'
  BY <1>1, <1>4 DEF DeliveriesIInv, WorkersAreConsistent
<1>6. RowIsConsistent'
  <2>1. CASE Deliveries!Held
    BY <1>1, <1>4, <2>1, DeliveryFacts DEF DeliveriesIInv, RowIsConsistent, AttemptsAreBounded
  <2>2. CASE ~Deliveries!Held
    BY <1>1, <1>4, <2>2, DeliveryFacts DEF DeliveriesIInv, RowIsConsistent, AttemptsAreBounded
  <2> QED
    BY <2>1, <2>2
<1> QED
  BY <1>3, <1>5, <1>6 DEF DeliveriesIInv

\* A delivery that is gone has no token, whatever its workers still do.
LEMMA RemovedStep ==
  ASSUME Deliveries!DeliveriesAssumption, DeliveriesIInv, Deliveries!TypeOK', delivery' = Deliveries!Removed, UNCHANGED <<worker, faults>>
  PROVE  DeliveriesIInv'
<1>1. delivery'.status = "removed" /\ delivery'.token = 0 /\ delivery'.attempts = 0
  BY DEF Deliveries!Removed, Deliveries!NoDelivery
<1> QED
  BY <1>1, DeliveryFacts DEF DeliveriesIInv, WorkersAreConsistent, RowIsConsistent, AttemptsAreBounded

\* Administrators, analysts and housekeeping.
LEMMA OtherSteps ==
  ASSUME Deliveries!DeliveriesAssumption, DeliveriesIInv,
         \/ Deliveries!Dispatch \/ Deliveries!BecomesDue \/ Deliveries!EditDestination \/ Deliveries!DeleteDestination \/ Deliveries!Unsubscribe
         \/ Deliveries!Orphan \/ Deliveries!Subscribe \/ Deliveries!CloseCase \/ Deliveries!Prune
  PROVE  DeliveriesIInv'
<1>1. CASE Deliveries!Dispatch
  <2>1. Deliveries!TypeOK'
    BY ZenonT(60), <1>1 DEF Deliveries!Dispatch, Deliveries!Publish, Deliveries!RequeueLeaseFree,
       Deliveries!LoseMessage, Deliveries!settingsVars, DeliveriesIInv, Deliveries!TypeOK,
       Deliveries!OutboxTypeOK
  <2> QED
    BY <1>1, <2>1, QuietStep DEF Deliveries!Dispatch
<1>2. CASE Deliveries!BecomesDue
  <2>1. delivery' \in DeliveryRows /\ UNCHANGED <<delivery.status, delivery.attempts, delivery.token, delivery.lapsed>>
    BY <1>2, DeliveryFacts DEF Deliveries!BecomesDue, DeliveryRows
  <2>2. Deliveries!TypeOK'
    BY <1>2, <2>1 DEF Deliveries!BecomesDue, Deliveries!outboxVars, Deliveries!settingsVars, DeliveriesIInv,
       Deliveries!TypeOK, Deliveries!OutboxTypeOK, DeliveryRows
  <2> QED
    BY <1>2, <2>1, <2>2, QuietStep DEF Deliveries!BecomesDue
<1>3. CASE Deliveries!EditDestination \/ Deliveries!Orphan \/ Deliveries!Subscribe \/ Deliveries!CloseCase
  <2>1. Deliveries!TypeOK' /\ UNCHANGED <<delivery, worker, faults>>
    BY <1>3 DEF Deliveries!EditDestination, Deliveries!Orphan, Deliveries!Subscribe, Deliveries!CloseCase,
       Deliveries!outboxVars, DeliveriesIInv, Deliveries!TypeOK, Deliveries!OutboxTypeOK
  <2> QED
    BY <2>1, QuietStep
<1>4. CASE Deliveries!Unsubscribe
  <2>1. delivery' \in DeliveryRows /\ UNCHANGED <<delivery.status, delivery.attempts, delivery.token, delivery.lapsed>>
    BY <1>4, DeliveryFacts DEF Deliveries!Unsubscribe, DeliveryRows
  <2>2. Deliveries!TypeOK'
    BY <1>4, <2>1 DEF Deliveries!Unsubscribe, Deliveries!outboxVars, DeliveriesIInv, Deliveries!TypeOK,
       Deliveries!OutboxTypeOK, DeliveryRows
  <2> QED
    BY <1>4, <2>1, <2>2, QuietStep DEF Deliveries!Unsubscribe
<1>5. CASE Deliveries!DeleteDestination \/ Deliveries!Prune
  <2>1. delivery' = Deliveries!Removed /\ UNCHANGED <<worker, faults>>
    BY <1>5 DEF Deliveries!DeleteDestination, Deliveries!Prune
  <2>2. Deliveries!Removed \in DeliveryRows
    BY DeliveryFacts DEF Deliveries!Removed, Deliveries!NoDelivery, DeliveryRows
  <2>3. Deliveries!TypeOK'
    BY <1>5, <2>1, <2>2 DEF Deliveries!DeleteDestination, Deliveries!Prune, Deliveries!outboxVars,
       Deliveries!settingsVars, DeliveriesIInv, Deliveries!TypeOK, Deliveries!OutboxTypeOK, DeliveryRows
  <2> QED
    BY <2>1, <2>3, RemovedStep
<1> QED
  BY <1>1, <1>2, <1>3, <1>4, <1>5

\* A step that changes nothing keeps the invariant.
LEMMA StutterStep ==
  ASSUME Deliveries!DeliveriesAssumption, DeliveriesIInv, UNCHANGED Deliveries!vars
  PROVE  DeliveriesIInv'
<1>1. Deliveries!TypeOK' /\ UNCHANGED <<delivery, worker, faults>>
  BY DEF Deliveries!vars, Deliveries!outboxVars, Deliveries!settingsVars, DeliveriesIInv, Deliveries!TypeOK,
     Deliveries!OutboxTypeOK
<1> QED
  BY <1>1, QuietStep

\* IInv is inductive.
LEMMA DeliveriesStep ==
  ASSUME Deliveries!DeliveriesAssumption, DeliveriesIInv, [Deliveries!Next]_(Deliveries!vars)
  PROVE  DeliveriesIInv'
  BY ReceiveStep, ClaimStep, CheckStep, SendStep, FinishStep, CrashStep, LeaseExpiresStep, EmitStep,
     OtherSteps, StutterStep DEF Deliveries!Next, Deliveries!WorkerStep

\* The outcome of a delivery is final: an ended delivery has no token and every worker that still finishes
\* has one, so that what it brings is dropped; nothing else but its removal touches an ended delivery.
LEMMA OutcomesStay ==
  ASSUME Deliveries!DeliveriesAssumption, DeliveriesIInv, Deliveries!Next
  PROVE  Deliveries!EndedDeliveriesStay
<1> SUFFICES ASSUME delivery.status \in Deliveries!Ended
             PROVE  delivery'.status \in {delivery.status, "removed"}
  BY DEF Deliveries!EndedDeliveriesStay
<1>1. delivery.token = 0 /\ delivery.status \notin {"none", "pending", "removed"}
  BY DEF DeliveriesIInv, RowIsConsistent, AttemptsAreBounded, Deliveries!Ended
<1>2. ASSUME NEW w \in Workers, Deliveries!Receive(w) \/ Deliveries!WorkerStep(w) \/ Deliveries!Crash(w)
      PROVE  delivery' = delivery
  <2>1. CASE Deliveries!Finish(w)
    <3>1. ~Deliveries!Holds(w)
      BY <1>1, <2>1 DEF Deliveries!Finish, Deliveries!Holds, DeliveriesIInv, WorkersAreConsistent,
         Attempting
    <3> QED
      BY <2>1, <3>1 DEF Deliveries!Finish
  <2> QED
    BY <1>1, <1>2, <2>1 DEF Deliveries!WorkerStep, Deliveries!Receive, Deliveries!Claim,
       Deliveries!Claimable, Deliveries!Check, Deliveries!Send, Deliveries!Crash
<1>3. CASE Deliveries!DeleteDestination \/ Deliveries!Prune
  BY <1>3 DEF Deliveries!DeleteDestination, Deliveries!Prune, Deliveries!Removed, Deliveries!NoDelivery
<1>4. CASE Deliveries!Unsubscribe
  BY <1>4, DeliveryFacts DEF Deliveries!Unsubscribe, DeliveryRows
<1> QED
  BY <1>1, <1>2, <1>3, <1>4 DEF Deliveries!Next, Deliveries!Dispatch, Deliveries!BecomesDue,
     Deliveries!LeaseExpires, Deliveries!Emit, Deliveries!EditDestination, Deliveries!Orphan,
     Deliveries!Subscribe, Deliveries!CloseCase

-----------------------------------------------------------------------------
(* Jobs: the records of an original.                                       *)

Busy == {w \in Workers : worker[w].step # "idle"}

\* An attempt that was made: of a job before the latest, or of the latest up to its last claim.
Issued(r) == r[1] < job.id \/ (r[1] = job.id /\ (r[2] <= job.claim \/ job.status = "none"))

JobRows ==
  [id : 0 .. MaxJobs, status : {"none"} \cup Jobs!Active \cup Jobs!Terminal, attempts : 0 .. MaxAttempts,
   claim : 0 .. 2 * MaxAttempts, held : BOOLEAN, lapsed : BOOLEAN, cancel : BOOLEAN, answered : BOOLEAN]

Tasks ==
  [step : {"idle", "access", "read", "renew", "stage", "write", "tidy", "stop", "requeue"},
   of : Jobs!Recordings \cup {<<0, 0>>}, kept : BOOLEAN, outcome : {"none", "needs_input"} \cup Jobs!Terminal,
   old : SUBSET Jobs!Recordings]

\* What a worker has follows from where it is.
TaskIsConsistent(t) ==
  /\ t.step = "idle" => t = Jobs!Idle
  /\ t.step # "idle" => t.of \in Jobs!Recordings
  /\ t.step \in {"access", "read", "renew", "stage"} => ~t.kept
  /\ t.step # "tidy" => t.old = {}
  /\ t.step = "stage" => t.outcome \in {"completed", "canceled"}
  /\ t.step = "stop" => t.outcome \in Jobs!Terminal
  /\ t.step = "write" => t.outcome \in (IF t.kept THEN {"completed", "canceled"} ELSE {"needs_input"} \cup Jobs!Terminal)

TasksAreConsistent == \A w \in Workers : TaskIsConsistent(worker[w])

\* A job is claimed once for each attempt, of which an answer gives it MaxAttempts more; it is answered
\* once, and whoever still wants to ask works for an attempt before the answer.
JobIsConsistent ==
  /\ job.id >= 1
  /\ IF job.answered THEN job.claim <= MaxAttempts + job.attempts ELSE job.claim = job.attempts
  /\ job.status = "needs_input" => ~job.answered
  /\ job.status = "none" => ~original
  /\ \A w \in Busy : Jobs!Owns(w) /\ worker[w].outcome = "needs_input" => ~job.answered

AttemptsAreIssued ==
  /\ \A w \in Busy : Issued(worker[w].of)
  /\ \A w \in Workers : \A r \in worker[w].old : Issued(r)
  /\ \A r \in rows \cup files \cup left : Issued(r)

AttemptsAreDistinct == \A v, w \in Busy : worker[v].of = worker[w].of => v = w

\* What is not yet recorded is nobody's old record either.
OpenAttemptsAreNew ==
  \A w \in Busy : worker[w].step # "tidy" =>
    worker[w].of \notin rows /\ \A v \in Workers : worker[w].of \notin worker[v].old

RecordsStand ==
  /\ \A r, s \in rows : r = s
  /\ rows \subseteq files
  /\ \A w \in Workers : \A r \in worker[w].old : r \notin rows
  /\ \A r \in rows : r[1] = job.id => job.status \in {"completed", "canceled"}

\* The files that are not a record's are somebody's who will record or remove them, or a dead worker's.
Staged == {w \in Workers : worker[w].step = "write" /\ worker[w].kept}
StagedFiles ==
  /\ \A w \in Staged : worker[w].of \in files
  /\ \A f \in files : \/ f \in rows \cup left
                      \/ \E w \in Staged : f = worker[w].of
                      \/ \E w \in Workers : f \in worker[w].old

JobsIInv ==
  /\ Jobs!TypeOK /\ worker \in [Workers -> Tasks]
  /\ TasksAreConsistent /\ JobIsConsistent /\ AttemptsAreIssued /\ AttemptsAreDistinct
  /\ OpenAttemptsAreNew /\ RecordsStand /\ StagedFiles

-----------------------------------------------------------------------------
\* The constants, the job and the attempts in the form the arithmetic needs.
LEMMA JobFacts ==
  ASSUME Jobs!ProcessingAssumption, JobsIInv
  PROVE  /\ MaxAttempts \in Nat /\ MaxAttempts >= 1 /\ MaxJobs \in Nat /\ MaxJobs >= 1
         /\ job \in JobRows /\ job.id \in Nat /\ job.claim \in Nat /\ job.attempts \in Nat
         /\ job.attempts <= MaxAttempts /\ job.id <= MaxJobs
         /\ job.status \in {"none"} \cup Jobs!Active \cup Jobs!Terminal
         /\ job.held \in BOOLEAN /\ job.lapsed \in BOOLEAN /\ job.cancel \in BOOLEAN /\ job.answered \in BOOLEAN
         /\ worker \in [Workers -> Tasks] /\ rows \subseteq Jobs!Recordings /\ files \subseteq Jobs!Recordings
         /\ left \subseteq Jobs!Recordings
         /\ \A r \in Jobs!Recordings : r[1] \in Nat /\ r[2] \in Nat
<1>1. job \in JobRows
  BY DEF JobsIInv, Jobs!TypeOK, JobRows
<1>2. MaxAttempts \in Nat /\ MaxAttempts >= 1 /\ MaxJobs \in Nat /\ MaxJobs >= 1
  BY DEF Jobs!ProcessingAssumption
<1>3. job.id \in 0 .. MaxJobs /\ job.claim \in 0 .. 2 * MaxAttempts /\ job.attempts \in 0 .. MaxAttempts
  BY <1>1 DEF JobRows
<1>4. \A r \in Jobs!Recordings : r[1] \in Nat /\ r[2] \in Nat
  BY <1>2 DEF Jobs!Recordings
<1>5. 2 * MaxAttempts \in Nat
  BY <1>2
<1> QED BY <1>1, <1>2, <1>3, <1>4, <1>5 DEF JobsIInv, Jobs!TypeOK, JobRows

\* The types of everything from those of the parts that change.
LEMMA JobTypesKept ==
  ASSUME Jobs!ProcessingAssumption, JobsIInv, Jobs!OutboxTypeOK', UNCHANGED kind,
         original' \in BOOLEAN, caseOpen' \in BOOLEAN, access' \in BOOLEAN,
         job' \in JobRows, worker' \in [Workers -> Tasks], faults' \in 0 .. MaxFaults,
         rows' \subseteq Jobs!Recordings, files' \subseteq Jobs!Recordings, left' \subseteq Jobs!Recordings
  PROVE  Jobs!TypeOK'
<1>1. \A w \in Workers : worker'[w] \in Tasks
  OBVIOUS
<1>2. \A w \in Workers :
        /\ worker'[w].step \in {"idle", "access", "read", "renew", "stage", "write", "tidy", "stop", "requeue"}
        /\ worker'[w].kept \in BOOLEAN /\ worker'[w].old \subseteq Jobs!Recordings
        /\ worker'[w].outcome \in {"none", "needs_input"} \cup Jobs!Terminal
  BY <1>1 DEF Tasks
<1> QED BY <1>2 DEF JobsIInv, Jobs!TypeOK, JobRows

\* What was issued remains issued.
LEMMA IssuedStays ==
  ASSUME Jobs!ProcessingAssumption, JobsIInv, job' \in JobRows, NEW r \in Jobs!Recordings, Issued(r),
         \/ job'.id > job.id
         \/ /\ job'.id = job.id
            /\ job'.status = "none" \/ (job.status # "none" /\ job'.claim >= job.claim)
  PROVE  Issued(r)'
<1>1. job'.id \in Nat /\ job'.claim \in Nat
  <2>1. job'.id \in 0 .. MaxJobs /\ job'.claim \in 0 .. 2 * MaxAttempts
    BY DEF JobRows
  <2> QED BY <2>1, JobFacts
<1> QED BY <1>1, JobFacts DEF Issued

\* The step of an analyst, of the dispatcher or of time: no worker moves, no record changes.
LEMMA JobChanges ==
  ASSUME Jobs!ProcessingAssumption, JobsIInv, UNCHANGED <<worker, rows, left>>,
         Jobs!TypeOK', job' \in JobRows, JobIsConsistent',
         \/ job'.id > job.id
         \/ job'.id = job.id /\ (job'.status = "none" \/ (job.status # "none" /\ job'.claim >= job.claim))
         \/ UNCHANGED job,
         job'.id # job.id \/ job'.status = job.status \/ job.status \notin {"completed", "canceled"},
         files' = files \/ files' = files \cap (rows \cup Jobs!InHands)
  PROVE  JobsIInv'
<1>1. worker' \in [Workers -> Tasks] /\ TasksAreConsistent' /\ AttemptsAreDistinct' /\ OpenAttemptsAreNew'
  BY DEF JobsIInv, TasksAreConsistent, AttemptsAreDistinct, OpenAttemptsAreNew, Busy
<1>2. \A r \in Jobs!Recordings : Issued(r) => Issued(r)'
  <2>1. CASE UNCHANGED job
    BY <2>1 DEF Issued
  <2>2. CASE ~UNCHANGED job
    BY <2>2, IssuedStays
  <2> QED BY <2>1, <2>2
<1>3. files' \subseteq files /\ rows \subseteq Jobs!Recordings /\ files \subseteq Jobs!Recordings /\ left \subseteq Jobs!Recordings
  BY JobFacts
<1>4. AttemptsAreIssued'
  <2>1. \A w \in Busy : worker[w].of \in Jobs!Recordings
    BY DEF JobsIInv, TasksAreConsistent, TaskIsConsistent, Busy
  <2>2. \A w \in Workers : worker[w].old \subseteq Jobs!Recordings
    BY JobFacts DEF Tasks
  <2>3. \A w \in Busy' : Issued(worker[w].of)'
    BY <1>2, <2>1 DEF JobsIInv, AttemptsAreIssued, Busy
  <2>4. \A w \in Workers : \A r \in worker[w].old : Issued(r)'
    BY <1>2, <2>2 DEF JobsIInv, AttemptsAreIssued
  <2>5. \A r \in rows \cup files' \cup left : Issued(r)'
    BY <1>2, <1>3 DEF JobsIInv, AttemptsAreIssued
  <2> QED BY <2>3, <2>4, <2>5 DEF AttemptsAreIssued, Busy, Issued
<1>5. RecordsStand'
  <2>1. rows \subseteq files'
    BY DEF JobsIInv, RecordsStand
  <2>2. ASSUME NEW r \in rows, r[1] = job'.id PROVE job'.status \in {"completed", "canceled"}
    <3>1. Issued(r) /\ r[1] \in Nat
      BY <1>3, JobFacts DEF JobsIInv, AttemptsAreIssued
    <3>2. job'.id \in Nat
      BY JobFacts DEF JobRows
    <3>3. job'.id = job.id
      BY <3>1, <3>2, <2>2, JobFacts DEF Issued
    <3> QED BY <3>3, <2>2 DEF JobsIInv, RecordsStand
  <2> QED BY <2>1, <2>2 DEF JobsIInv, RecordsStand
<1>6. StagedFiles'
  <2>1. \A w \in Staged : worker[w].of \in files'
    BY DEF JobsIInv, StagedFiles, Staged, Jobs!InHands
  <2> QED BY <1>3, <2>1 DEF JobsIInv, StagedFiles, Staged
<1> QED BY <1>1, <1>4, <1>5, <1>6 DEF JobsIInv

\* A worker goes on with its attempt, or leaves it; it records nothing.
LEMMA TaskMoves ==
  ASSUME Jobs!ProcessingAssumption, JobsIInv, Jobs!TypeOK', NEW w \in Workers, worker[w].step # "idle",
         NEW t \in Tasks, worker' = [worker EXCEPT ![w] = t], TaskIsConsistent(t), t.old = {},
         t.step # "idle" => worker[w].step # "tidy" /\ t.step # "tidy" /\ t.of = worker[w].of,
         UNCHANGED <<rows, original>>,
         job' \in JobRows, job'.id = job.id, job'.claim = job.claim,
         IF job'.answered THEN job'.claim <= MaxAttempts + job'.attempts ELSE job'.claim = job'.attempts,
         job'.answered = job.answered, job'.status = "needs_input" => ~job.answered,
         job'.status = "none" <=> job.status = "none",
         job'.status = job.status \/ job.status \notin {"completed", "canceled"},
         job'.status = "running" /\ job'.held => job.status = "running" /\ job.held,
         t.step # "idle" /\ t.outcome = "needs_input" => worker[w].outcome = "needs_input" \/ ~job.answered,
         left' \subseteq left \cup worker[w].old \cup {worker[w].of}, left \subseteq left',
         rows \subseteq files', files' \subseteq files \cup {worker[w].of},
         StagedFiles'
  PROVE  JobsIInv'
<1>1. worker' \in [Workers -> Tasks] /\ worker'[w] = t /\ \A v \in Workers : v # w => worker'[v] = worker[v]
  BY JobFacts
<1>2. TasksAreConsistent'
  <2>1. ASSUME NEW v \in Workers PROVE TaskIsConsistent(worker'[v])
    BY <1>1 DEF JobsIInv, TasksAreConsistent
  <2>2. TaskIsConsistent(worker[w])
    BY DEF JobsIInv, TasksAreConsistent
  <2> QED BY <2>1 DEF TasksAreConsistent, TaskIsConsistent
<1>3. Busy' \subseteq Busy /\ w \in Busy
  BY <1>1 DEF Busy
<1>4. \A v \in Busy' : worker'[v].of = worker[v].of
  BY <1>1 DEF Busy
<1>5. AttemptsAreDistinct'
  BY <1>3, <1>4 DEF JobsIInv, AttemptsAreDistinct
<1>6. \A v \in Workers : worker'[v].old \subseteq worker[v].old
  BY <1>1
<1>7. OpenAttemptsAreNew'
  <2>1. ASSUME NEW v \in Busy', worker'[v].step # "tidy" PROVE v \in Busy /\ worker[v].step # "tidy"
    BY <2>1, <1>1, <1>3 DEF Busy
  <2> QED BY <1>4, <1>6, <2>1 DEF JobsIInv, OpenAttemptsAreNew
<1>8. JobIsConsistent'
  <2>1. ASSUME NEW v \in Busy', Jobs!Owns(v)', worker'[v].outcome = "needs_input" PROVE ~job'.answered
    <3>1. v \in Busy /\ worker'[v].of = worker[v].of
      BY <1>3, <1>4
    <3>2. Jobs!Owns(v)
      BY <2>1, <3>1 DEF Jobs!Owns
    <3>3. worker[v].outcome = "needs_input" \/ ~job.answered
      BY <1>1, <2>1 DEF Busy
    <3> QED BY <3>1, <3>2, <3>3 DEF JobsIInv, JobIsConsistent
  <2> QED BY <2>1 DEF JobsIInv, JobIsConsistent
<1>9. AttemptsAreIssued'
  <2>1. \A r \in Jobs!Recordings : Issued(r) => Issued(r)'
    BY JobFacts DEF Issued
  <2>2. worker[w].of \in Jobs!Recordings /\ worker[w].old \subseteq Jobs!Recordings /\ \A v \in Busy : worker[v].of \in Jobs!Recordings
    BY JobFacts DEF JobsIInv, TasksAreConsistent, TaskIsConsistent, Tasks, Busy
  <2>3. \A v \in Workers : worker[v].old \subseteq Jobs!Recordings
    BY JobFacts DEF Tasks
  <2>4. \A v \in Busy' : Issued(worker[v].of)'
    <3>1. \A v \in Busy : Issued(worker[v].of) /\ worker[v].of \in Jobs!Recordings
      BY <2>2 DEF JobsIInv, AttemptsAreIssued
    <3>2. ASSUME NEW v \in Busy' PROVE Issued(worker[v].of)'
      <4>1. worker'[v].of \in Jobs!Recordings /\ Issued(worker'[v].of)
        BY <1>3, <1>4, <3>1, <3>2
      <4> QED BY <4>1, JobFacts DEF Issued
    <3> QED BY <3>2
  <2>5. \A v \in Workers : \A r \in worker'[v].old : r \in Jobs!Recordings /\ Issued(r)
    BY <1>6, <2>3 DEF JobsIInv, AttemptsAreIssued
  <2>6. \A r \in rows' \cup files' \cup left' : r \in Jobs!Recordings /\ Issued(r)
    BY <1>3, <2>2, JobFacts DEF JobsIInv, AttemptsAreIssued
  <2>7. \A r \in rows' \cup files' \cup left' : Issued(r)'
    BY <2>1, <2>6
  <2>8. (\A v \in Workers : \A r \in worker[v].old : Issued(r))'
    BY <2>1, <2>5
  <2>9. (\A r \in rows \cup files \cup left : Issued(r))'
    BY <2>7
  <2> QED BY <2>4, <2>8, <2>9 DEF AttemptsAreIssued
<1>10. RecordsStand'
  BY <1>6 DEF JobsIInv, RecordsStand
<1> QED BY <1>1, <1>2, <1>5, <1>7, <1>8, <1>9, <1>10 DEF JobsIInv


\* A worker that stops being about to record its file, and whose old records are dealt with, removed the
\* file and those or leaves them to others.
LEMMA FilesFollow ==
  ASSUME Jobs!ProcessingAssumption, JobsIInv, NEW w \in Busy, NEW t \in Tasks, worker' = [worker EXCEPT ![w] = t],
         ~(t.step = "write" /\ t.kept), UNCHANGED rows, left \subseteq left',
         NEW gone, files' = files \ gone, gone \subseteq {worker[w].of} \cup worker[w].old,
         worker[w].old \subseteq gone \cup left',
         w \in Staged => worker[w].of \in gone \cup left' \cup rows
  PROVE  StagedFiles'
<1>0. w \in Workers
  BY DEF Busy
<1>1. worker'[w] = t /\ \A v \in Workers : v # w => worker'[v] = worker[v]
  BY <1>0, JobFacts
<1>2. Staged' = Staged \ {w}
  BY <1>0, <1>1 DEF Staged
<1>3. ASSUME NEW v \in Staged' PROVE worker'[v].of \in files'
  <2>1. v \in Staged /\ v # w /\ v \in Busy /\ v \in Workers /\ worker[v].step # "tidy"
    BY <1>2, <1>3 DEF Staged, Busy
  <2>2. worker[v].of \in files /\ worker[v].of \notin worker[w].old
    BY <1>0, <2>1 DEF JobsIInv, StagedFiles, OpenAttemptsAreNew
  <2>3. worker[v].of # worker[w].of
    BY <2>1 DEF JobsIInv, AttemptsAreDistinct
  <2> QED BY <1>1, <2>1, <2>2, <2>3
<1>4. ASSUME NEW f \in files' PROVE \/ f \in rows' \cup left'
                                    \/ \E v \in Staged' : f = worker'[v].of
                                    \/ \E v \in Workers : f \in worker'[v].old
  <2>0. f \in files /\ f \notin gone
    OBVIOUS
  <2>1. CASE f \in rows \cup left
    BY <2>1
  <2>2. CASE \E v \in Staged : f = worker[v].of
    <3>1. PICK v \in Staged : f = worker[v].of
      BY <2>2
    <3>2. CASE v = w
      BY <2>0, <3>1, <3>2
    <3>3. CASE v # w
      BY <1>1, <1>2, <3>1, <3>3 DEF Staged
    <3> QED BY <3>2, <3>3
  <2>3. CASE \E v \in Workers : f \in worker[v].old
    <3>1. PICK v \in Workers : f \in worker[v].old
      BY <2>3
    <3>2. CASE v = w
      BY <2>0, <3>1, <3>2
    <3>3. CASE v # w
      BY <1>1, <3>1, <3>3
    <3> QED BY <3>2, <3>3
  <2> QED BY <2>0, <2>1, <2>2, <2>3 DEF JobsIInv, StagedFiles
<1>5. (\A f \in files : \/ f \in rows \cup left
                        \/ \E v \in Staged : f = worker[v].of
                        \/ \E v \in Workers : f \in worker[v].old)'
  BY <1>4
<1>6. (\A v \in Staged : worker[v].of \in files)'
  BY <1>3
<1> QED BY <1>5, <1>6 DEF StagedFiles

\* What a worker does to the job it works at, but for recording: it marks it, renews it, ends it or
\* puts it back.
JobMoves ==
  \/ job' = job
  \/ \E b \in BOOLEAN : job' = [job EXCEPT !.cancel = b]
  \/ job' = [job EXCEPT !.lapsed = FALSE]
  \/ \E status \in {"queued", "needs_input"} \cup Jobs!Terminal :
       /\ job.status = "running" /\ (status = "needs_input" => ~job.answered)
       /\ job' = [job EXCEPT !.status = status, !.held = FALSE, !.lapsed = FALSE]

LEMMA JobMovesFacts ==
  ASSUME Jobs!ProcessingAssumption, JobsIInv, JobMoves
  PROVE  /\ job' \in JobRows /\ job'.id = job.id /\ job'.claim = job.claim /\ job'.attempts = job.attempts
         /\ job'.answered = job.answered /\ (job'.status = "needs_input" => ~job.answered)
         /\ (job'.status = "none" <=> job.status = "none")
         /\ (job'.status = job.status \/ job.status \notin {"completed", "canceled"})
         /\ (job'.status = "running" /\ job'.held => job.status = "running" /\ job.held)
         /\ IF job'.answered THEN job'.claim <= MaxAttempts + job'.attempts ELSE job'.claim = job'.attempts
<1>0. /\ job \in JobRows /\ (job.status = "needs_input" => ~job.answered)
      /\ IF job.answered THEN job.claim <= MaxAttempts + job.attempts ELSE job.claim = job.attempts
  BY JobFacts DEF JobsIInv, JobIsConsistent
<1>1. CASE job' = job
  BY <1>0, <1>1
<1>2. CASE \E b \in BOOLEAN : job' = [job EXCEPT !.cancel = b]
  BY <1>0, <1>2 DEF JobRows
<1>3. CASE job' = [job EXCEPT !.lapsed = FALSE]
  BY <1>0, <1>3 DEF JobRows
<1>4. ASSUME NEW status \in {"queued", "needs_input"} \cup Jobs!Terminal, job.status = "running",
             status = "needs_input" => ~job.answered,
             job' = [job EXCEPT !.status = status, !.held = FALSE, !.lapsed = FALSE]
      PROVE  /\ job' \in JobRows /\ job'.id = job.id /\ job'.claim = job.claim /\ job'.attempts = job.attempts
             /\ job'.answered = job.answered /\ (job'.status = "needs_input" => ~job.answered)
             /\ (job'.status = "none" <=> job.status = "none")
             /\ (job'.status = job.status \/ job.status \notin {"completed", "canceled"})
             /\ (job'.status = "running" /\ job'.held => job.status = "running" /\ job.held)
             /\ IF job'.answered THEN job'.claim <= MaxAttempts + job'.attempts ELSE job'.claim = job'.attempts
  BY <1>0, <1>4 DEF JobRows, Jobs!Active, Jobs!Terminal
<1> QED BY <1>1, <1>2, <1>3, <1>4 DEF JobMoves

\* A worker at an attempt goes on without a file, or leaves.
LEMMA WorkerMoves ==
  ASSUME Jobs!ProcessingAssumption, JobsIInv, NEW w \in Busy, NEW t \in Tasks, worker' = [worker EXCEPT ![w] = t],
         TaskIsConsistent(t), t.old = {}, ~(t.step = "write" /\ t.kept),
         t.step # "idle" => worker[w].step # "tidy" /\ t.step # "tidy" /\ t.of = worker[w].of,
         t.step # "idle" /\ t.outcome = "needs_input" => worker[w].outcome = "needs_input" \/ ~job.answered,
         JobMoves, outbox' = outbox \/ Jobs!Enqueue \/ Jobs!MarkDone, UNCHANGED <<inbox, Jobs!settingsVars, rows>>,
         faults' \in 0 .. MaxFaults, left \subseteq left', left' \subseteq left \cup worker[w].old \cup {worker[w].of},
         NEW gone, files' = files \ gone, gone \subseteq {worker[w].of} \cup worker[w].old,
         gone \cap rows = {}, worker[w].old \subseteq gone \cup left',
         w \in Staged => worker[w].of \in gone \cup left' \cup rows
  PROVE  JobsIInv'
<1>0. w \in Workers /\ worker[w].step # "idle"
  BY DEF Busy
<1>1. StagedFiles'
  BY FilesFollow
<1>2. Jobs!TypeOK'
  <2>1. worker[w].of \in Jobs!Recordings /\ worker[w].old \subseteq Jobs!Recordings
    BY <1>0, JobFacts DEF JobsIInv, TasksAreConsistent, TaskIsConsistent, Tasks
  <2>2. Jobs!OutboxTypeOK'
    BY DEF JobsIInv, Jobs!TypeOK, Jobs!OutboxTypeOK, Jobs!Enqueue, Jobs!MarkDone
  <2>3. /\ UNCHANGED kind /\ original' \in BOOLEAN /\ caseOpen' \in BOOLEAN /\ access' \in BOOLEAN
    BY DEF Jobs!settingsVars, JobsIInv, Jobs!TypeOK
  <2>4. worker' \in [Workers -> Tasks] /\ rows' \subseteq Jobs!Recordings /\ files' \subseteq Jobs!Recordings /\ left' \subseteq Jobs!Recordings
    BY <2>1, JobFacts
  <2> QED BY <2>2, <2>3, <2>4, JobMovesFacts, JobTypesKept
<1>3. rows \subseteq files' /\ files' \subseteq files \cup {worker[w].of} /\ UNCHANGED <<rows, original>>
  BY DEF JobsIInv, RecordsStand, Jobs!settingsVars
<1> QED
  BY <1>0, <1>1, <1>2, <1>3, JobMovesFacts, TaskMoves

LEMMA IdleTask == Jobs!Idle \in Tasks /\ TaskIsConsistent(Jobs!Idle) /\ Jobs!Idle.step = "idle" /\ Jobs!Idle.old = {}
  BY DEF Jobs!Idle, Tasks, TaskIsConsistent

\* What a worker at an attempt has.
LEMMA BusyFacts ==
  ASSUME Jobs!ProcessingAssumption, JobsIInv, NEW w \in Workers, worker[w].step # "idle"
  PROVE  /\ w \in Busy /\ worker[w] \in Tasks /\ worker[w].of \in Jobs!Recordings /\ TaskIsConsistent(worker[w])
         /\ worker[w].step # "tidy" => worker[w].old = {}
         /\ worker[w].step \in {"access", "read", "renew", "stage"} => ~worker[w].kept
         /\ faults \in 0 .. MaxFaults
  BY JobFacts DEF JobsIInv, Jobs!TypeOK, TasksAreConsistent, TaskIsConsistent, Busy

\* A worker without a staged file goes on with another step and outcome.
LEMMA JobGoes ==
  ASSUME Jobs!ProcessingAssumption, JobsIInv, NEW w \in Workers, worker[w].step \notin {"idle", "tidy"}, w \notin Staged,
         NEW step \in {"access", "read", "renew", "stage", "write", "stop", "requeue"},
         NEW outcome \in {"none", "needs_input"} \cup Jobs!Terminal,
         worker' = [worker EXCEPT ![w].step = step, ![w].outcome = outcome],
         step \in {"access", "read", "renew", "stage", "write"} => ~worker[w].kept,
         step = "stage" => outcome \in {"completed", "canceled"},
         step = "stop" => outcome \in Jobs!Terminal,
         step = "write" => outcome \in {"needs_input"} \cup Jobs!Terminal,
         outcome = "needs_input" => worker[w].outcome = "needs_input" \/ ~job.answered,
         JobMoves, UNCHANGED <<Jobs!outboxVars, Jobs!settingsVars, rows, files, left, faults>>
  PROVE  JobsIInv'
<1> DEFINE t == [worker[w] EXCEPT !.step = step, !.outcome = outcome]
<1>1. w \in Busy /\ worker[w] \in Tasks /\ worker[w].old = {} /\ worker[w].of \in Jobs!Recordings /\ faults \in 0 .. MaxFaults
  BY BusyFacts
<1>2. worker' = [worker EXCEPT ![w] = t]
  BY <1>1, JobFacts
<1>3. /\ t \in Tasks /\ t.step = step /\ t.outcome = outcome /\ t.of = worker[w].of /\ t.old = {}
      /\ t.kept = worker[w].kept
  BY <1>1 DEF Tasks
<1> HIDE DEF t
<1>4. TaskIsConsistent(t)
  BY <1>1, <1>3 DEF TaskIsConsistent
<1>5. UNCHANGED <<outbox, inbox, Jobs!settingsVars, rows, files, left, faults>> /\ files' = files \ {}
  BY DEF Jobs!outboxVars
<1>6. ~(t.step = "write" /\ t.kept)
  BY <1>3
<1>7. /\ t.step # "idle" => worker[w].step # "tidy" /\ t.step # "tidy" /\ t.of = worker[w].of
      /\ t.step # "idle" /\ t.outcome = "needs_input" => worker[w].outcome = "needs_input" \/ ~job.answered
  BY <1>3
<1> DEFINE gone == {}
<1>8. /\ files' = files \ gone /\ gone \subseteq {worker[w].of} \cup worker[w].old /\ gone \cap rows = {}
      /\ worker[w].old \subseteq gone \cup left'
      /\ w \in Staged => worker[w].of \in gone \cup left' \cup rows
      /\ left \subseteq left' /\ left' \subseteq left \cup worker[w].old \cup {worker[w].of}
      /\ outbox' = outbox \/ Jobs!Enqueue \/ Jobs!MarkDone
      /\ UNCHANGED <<inbox, Jobs!settingsVars, rows>> /\ faults' \in 0 .. MaxFaults
  BY <1>1, <1>5
<1> HIDE DEF gone
<1> QED BY <1>1, <1>2, <1>3, <1>4, <1>6, <1>7, <1>8, WorkerMoves

\* A worker leaves its attempt, removing what `gone` is.
LEMMA WorkerReturns ==
  ASSUME Jobs!ProcessingAssumption, JobsIInv, NEW w \in Workers, worker[w].step # "idle", Jobs!Returns(w), JobMoves,
         outbox' = outbox \/ Jobs!Enqueue \/ Jobs!MarkDone, UNCHANGED <<inbox, Jobs!settingsVars, rows>>,
         faults' \in 0 .. MaxFaults, left \subseteq left', left' \subseteq left \cup worker[w].old \cup {worker[w].of},
         NEW gone, files' = files \ gone, gone \subseteq {worker[w].of} \cup worker[w].old,
         gone \cap rows = {}, worker[w].old \subseteq gone \cup left',
         w \in Staged => worker[w].of \in gone \cup left' \cup rows
  PROVE  JobsIInv'
<1>1. w \in Busy /\ worker' = [worker EXCEPT ![w] = Jobs!Idle]
  BY DEF Busy, Jobs!Returns
<1>2. /\ Jobs!Idle \in Tasks /\ TaskIsConsistent(Jobs!Idle) /\ Jobs!Idle.old = {} /\ ~(Jobs!Idle.step = "write" /\ Jobs!Idle.kept)
      /\ Jobs!Idle.step # "idle" => worker[w].step # "tidy" /\ Jobs!Idle.step # "tidy" /\ Jobs!Idle.of = worker[w].of
      /\ Jobs!Idle.step # "idle" /\ Jobs!Idle.outcome = "needs_input" => worker[w].outcome = "needs_input" \/ ~job.answered
  BY IdleTask DEF Jobs!Idle
<1> QED BY <1>1, <1>2, WorkerMoves

\* The same when it has no files to remove.
LEMMA WorkerLeaves ==
  ASSUME Jobs!ProcessingAssumption, JobsIInv, NEW w \in Workers, worker[w].step \notin {"idle", "tidy"}, w \notin Staged,
         Jobs!Returns(w), JobMoves, outbox' = outbox \/ Jobs!Enqueue \/ Jobs!MarkDone,
         UNCHANGED <<inbox, Jobs!settingsVars, rows, files, left, faults>>
  PROVE  JobsIInv'
<1> DEFINE gone == {}
<1>1. /\ files' = files \ gone /\ gone \subseteq {worker[w].of} \cup worker[w].old /\ gone \cap rows = {}
      /\ worker[w].old \subseteq gone \cup left'
      /\ w \in Staged => worker[w].of \in gone \cup left' \cup rows
      /\ left \subseteq left' /\ left' \subseteq left \cup worker[w].old \cup {worker[w].of}
      /\ UNCHANGED <<inbox, Jobs!settingsVars, rows>> /\ faults' \in 0 .. MaxFaults
      /\ worker[w].step # "idle"
  BY BusyFacts
<1> HIDE DEF gone
<1> QED BY <1>1, WorkerReturns

\* authorization_revoked only marks the job.
LEMMA CheckAccessStep ==
  ASSUME Jobs!ProcessingAssumption, JobsIInv, NEW w \in Workers, Jobs!CheckAccess(w)
  PROVE  JobsIInv'
<1>1. worker[w].step = "access" /\ worker[w] \in Tasks /\ ~worker[w].kept /\ w \notin Staged
  BY BusyFacts DEF Jobs!CheckAccess, Staged
<1>2. UNCHANGED <<Jobs!outboxVars, Jobs!settingsVars, rows, files, left, faults>>
  BY DEF Jobs!CheckAccess
<1>3. worker[w].outcome \in {"none", "needs_input"} \cup Jobs!Terminal
  BY <1>1 DEF Tasks
<1>4. CASE access
  <2>1. worker' = [worker EXCEPT ![w].step = "read", ![w].outcome = worker[w].outcome]
    BY <1>4, <1>1, JobFacts DEF Jobs!CheckAccess, Jobs!Goes, Tasks
  <2>2. JobMoves
    BY <1>4 DEF Jobs!CheckAccess, JobMoves
  <2> QED BY <1>1, <1>2, <1>3, <2>1, <2>2, JobGoes
<1>5. CASE ~access
  <2>1. worker' = [worker EXCEPT ![w].step = "stop", ![w].outcome = "canceled"]
    BY <1>5 DEF Jobs!CheckAccess, Jobs!GoesWith
  <2>2. JobMoves
    BY <1>5 DEF Jobs!CheckAccess, JobMoves
  <2>3. "canceled" \in {"none", "needs_input"} \cup Jobs!Terminal /\ "canceled" \in Jobs!Terminal
    BY DEF Jobs!Terminal
  <2> QED BY <1>1, <1>2, <2>1, <2>2, <2>3, JobGoes
<1> QED BY <1>4, <1>5

\* What is read decides the outcome; it asks only while nobody has answered.
LEMMA ReadStep ==
  ASSUME Jobs!ProcessingAssumption, JobsIInv, NEW w \in Workers, Jobs!Read(w)
  PROVE  JobsIInv'
<1>1. worker[w].step = "read" /\ worker[w] \in Tasks /\ ~worker[w].kept /\ w \notin Staged
  BY BusyFacts DEF Jobs!Read, Staged
<1>2. UNCHANGED <<Jobs!outboxVars, Jobs!settingsVars, rows, files, left, faults>> /\ JobMoves
  BY DEF Jobs!Read, JobMoves
<1>3. worker[w].outcome \in {"none", "needs_input"} \cup Jobs!Terminal /\ {"failed", "canceled"} \subseteq Jobs!Terminal
  BY <1>1 DEF Tasks, Jobs!Terminal
<1>4. CASE Jobs!Returns(w)
  <2>1. outbox' = outbox /\ UNCHANGED <<inbox, Jobs!settingsVars, rows, files, left, faults>>
    BY <1>2 DEF Jobs!outboxVars
  <2> QED BY <1>1, <1>2, <1>4, <2>1, WorkerLeaves
<1>5. CASE Jobs!GoesWith(w, "stop", "failed") \/ Jobs!GoesWith(w, "write", "failed")
  BY <1>1, <1>2, <1>3, <1>5, JobGoes DEF Jobs!GoesWith
<1>6. CASE Jobs!GoesWith(w, "requeue", "none")
  BY <1>1, <1>2, <1>3, <1>6, JobGoes DEF Jobs!GoesWith
<1>7. CASE ~job.answered /\ Jobs!GoesWith(w, "write", "needs_input")
  BY <1>1, <1>2, <1>3, <1>7, JobGoes DEF Jobs!GoesWith
<1>8. CASE Jobs!Goes(w, "renew")
  <2>1. worker' = [worker EXCEPT ![w].step = "renew", ![w].outcome = worker[w].outcome]
    BY <1>8, <1>1, JobFacts DEF Jobs!Goes, Tasks
  <2> QED BY <1>1, <1>2, <1>3, <2>1, JobGoes
<1> QED BY <1>4, <1>5, <1>6, <1>7, <1>8 DEF Jobs!Read

\* The renewal tells what will be recorded.
LEMMA RenewStep ==
  ASSUME Jobs!ProcessingAssumption, JobsIInv, NEW w \in Workers, Jobs!Renew(w)
  PROVE  JobsIInv'
<1>1. worker[w].step = "renew" /\ worker[w] \in Tasks /\ ~worker[w].kept /\ w \notin Staged
  BY BusyFacts DEF Jobs!Renew, Staged
<1>2. UNCHANGED <<Jobs!outboxVars, Jobs!settingsVars, rows, files, left, faults>>
  BY DEF Jobs!Renew
<1>3. {"completed", "canceled"} \subseteq Jobs!Terminal
  BY DEF Jobs!Terminal
<1>4. CASE Jobs!Returns(w) /\ UNCHANGED job
  <2>1. outbox' = outbox /\ UNCHANGED <<inbox, Jobs!settingsVars, rows, files, left, faults>> /\ JobMoves
    BY <1>2, <1>4 DEF Jobs!outboxVars, JobMoves
  <2> QED BY <1>1, <1>4, <2>1, WorkerLeaves
<1>5. ASSUME job' = [job EXCEPT !.cancel = @ \/ ~access] PROVE JobMoves
  <2>1. (job.cancel \/ ~access) \in BOOLEAN /\ job' = [job EXCEPT !.cancel = (job.cancel \/ ~access)]
    BY <1>5, JobFacts DEF JobRows
  <2> QED BY <2>1 DEF JobMoves
<1>6. CASE Jobs!GoesWith(w, "stage", "canceled") /\ JobMoves
  BY <1>1, <1>2, <1>3, <1>6, JobGoes DEF Jobs!GoesWith
<1>7. CASE Jobs!GoesWith(w, "stop", "canceled") /\ JobMoves
  BY <1>1, <1>2, <1>3, <1>7, JobGoes DEF Jobs!GoesWith
<1>8. CASE Jobs!GoesWith(w, "stage", "completed") /\ job' = [job EXCEPT !.lapsed = FALSE]
  <2>1. JobMoves
    BY <1>8 DEF JobMoves
  <2> QED BY <1>1, <1>2, <1>3, <1>8, <2>1, JobGoes DEF Jobs!GoesWith
<1> QED BY <1>4, <1>5, <1>6, <1>7, <1>8 DEF Jobs!Renew

\* Storing a part gives the attempt its file.
LEMMA StageStep ==
  ASSUME Jobs!ProcessingAssumption, JobsIInv, NEW w \in Workers, Jobs!Stage(w)
  PROVE  JobsIInv'
<1>1. /\ worker[w].step = "stage" /\ worker[w] \in Tasks /\ ~worker[w].kept /\ w \notin Staged
      /\ worker[w].outcome \in {"completed", "canceled"} /\ worker[w].of \in Jobs!Recordings /\ worker[w].old = {}
  BY BusyFacts DEF Jobs!Stage, Staged, TaskIsConsistent
<1>2. UNCHANGED <<Jobs!outboxVars, Jobs!settingsVars, job, rows, left, faults>> /\ JobMoves
  BY DEF Jobs!Stage, JobMoves
<1>3. {"completed", "canceled"} \subseteq Jobs!Terminal
  BY DEF Jobs!Terminal
<1>4. ASSUME NEW step \in {"stop", "write", "requeue"}, Jobs!Goes(w, step), UNCHANGED files PROVE JobsIInv'
  <2>1. worker' = [worker EXCEPT ![w].step = step, ![w].outcome = worker[w].outcome]
    BY <1>4, <1>1, JobFacts DEF Jobs!Goes, Tasks
  <2> QED BY <1>1, <1>2, <1>3, <1>4, <2>1, JobGoes
<1>5. CASE /\ worker' = [worker EXCEPT ![w].step = "write", ![w].kept = TRUE]
           /\ files' = files \cup {worker[w].of}
  <2> DEFINE t == [worker[w] EXCEPT !.step = "write", !.kept = TRUE]
  <2>1. worker' = [worker EXCEPT ![w] = t]
    BY <1>1, <1>5, JobFacts
  <2>2. /\ t \in Tasks /\ t.step = "write" /\ t.kept /\ t.of = worker[w].of /\ t.old = {}
        /\ t.outcome = worker[w].outcome
    BY <1>1 DEF Tasks
  <2> HIDE DEF t
  <2>3. TaskIsConsistent(t) /\ worker'[w] = t /\ \A v \in Workers : v # w => worker'[v] = worker[v]
    BY <1>1, <2>1, <2>2, JobFacts DEF TaskIsConsistent
  <2>4. Staged' = Staged \cup {w}
    BY <2>2, <2>3 DEF Staged
  <2>5. StagedFiles'
    <3>1. ASSUME NEW v \in Staged' PROVE worker'[v].of \in files'
      BY <1>5, <2>2, <2>3, <2>4, <3>1 DEF JobsIInv, StagedFiles, Staged
    <3>2. ASSUME NEW f \in files' PROVE \/ f \in rows' \cup left'
                                        \/ \E v \in Staged' : f = worker'[v].of
                                        \/ \E v \in Workers : f \in worker'[v].old
      <4>1. CASE f = worker[w].of
        BY <4>1, <2>2, <2>3, <2>4
      <4>2. CASE f \in rows \cup left
        BY <4>2, <1>2
      <4>3. CASE \E v \in Staged : f = worker[v].of
        BY <4>3, <1>1, <2>3, <2>4 DEF Staged
      <4>4. CASE \E v \in Workers : f \in worker[v].old
        BY <4>4, <1>1, <2>3
      <4> QED BY <1>5, <4>1, <4>2, <4>3, <4>4 DEF JobsIInv, StagedFiles
    <3>3. (\A f \in files : \/ f \in rows \cup left
                            \/ \E v \in Staged : f = worker[v].of
                            \/ \E v \in Workers : f \in worker[v].old)'
      BY <3>2
    <3>4. (\A v \in Staged : worker[v].of \in files)'
      BY <3>1
    <3> QED BY <3>3, <3>4 DEF StagedFiles
  <2>6. Jobs!TypeOK'
    <3>1. Jobs!OutboxTypeOK' /\ UNCHANGED <<kind, original, caseOpen, access>>
      BY <1>2 DEF JobsIInv, Jobs!TypeOK, Jobs!OutboxTypeOK, Jobs!outboxVars, Jobs!settingsVars
    <3>2. /\ original' \in BOOLEAN /\ caseOpen' \in BOOLEAN /\ access' \in BOOLEAN /\ faults' \in 0 .. MaxFaults
          /\ job' \in JobRows /\ rows' \subseteq Jobs!Recordings /\ left' \subseteq Jobs!Recordings
      BY <1>2, <3>1, JobFacts DEF JobsIInv, Jobs!TypeOK
    <3>3. worker' \in [Workers -> Tasks] /\ files' \subseteq Jobs!Recordings
      BY <1>1, <1>5, <2>1, <2>2, JobFacts
    <3> QED BY <3>1, <3>2, <3>3, JobTypesKept
  <2>7. /\ UNCHANGED <<rows, original>> /\ rows \subseteq files' /\ files' \subseteq files \cup {worker[w].of}
        /\ left' \subseteq left \cup worker[w].old \cup {worker[w].of} /\ left \subseteq left'
    BY <1>2, <1>5 DEF Jobs!settingsVars, JobsIInv, RecordsStand
  <2>8. /\ t.step # "idle" => worker[w].step # "tidy" /\ t.step # "tidy" /\ t.of = worker[w].of
        /\ t.step # "idle" /\ t.outcome = "needs_input" => worker[w].outcome = "needs_input" \/ ~job.answered
        /\ worker[w].step # "idle"
    BY <1>1, <2>2
  <2> QED BY <1>2, <2>1, <2>2, <2>3, <2>5, <2>6, <2>7, <2>8, JobMovesFacts, TaskMoves
<1> QED BY <1>1, <1>4, <1>5 DEF Jobs!Stage

\* What a worker discards is no record.
LEMMA DiscardedFacts ==
  ASSUME NEW w \in Workers, Jobs!Discarded(w)
  PROVE  \E gone : files' = files \ gone /\ gone \subseteq {worker[w].of} /\ gone \cap rows = {}
                   /\ worker[w].of \in gone \cup rows
<1> DEFINE gone == {worker[w].of} \ rows
<1>1. files' = files \ gone /\ gone \subseteq {worker[w].of} /\ gone \cap rows = {} /\ worker[w].of \in gone \cup rows
  BY DEF Jobs!Discarded
<1> QED BY <1>1

\* A worker that gives its attempt up before the transaction, or whose transaction fails.
LEMMA GivesUp ==
  ASSUME Jobs!ProcessingAssumption, JobsIInv, NEW w \in Workers, worker[w].step = "write", Jobs!Discarded(w),
         \/ Jobs!Returns(w)
         \/ Jobs!GoesWith(w, "stop", "canceled")
         \/ Jobs!Goes(w, "requeue"),
         UNCHANGED <<Jobs!outboxVars, Jobs!settingsVars, rows, job, left, faults>>
  PROVE  JobsIInv'
<1>1. PICK gone : /\ files' = files \ gone /\ gone \subseteq {worker[w].of} /\ gone \cap rows = {}
                  /\ worker[w].of \in gone \cup rows
  BY DiscardedFacts
<1>2. w \in Busy /\ worker[w] \in Tasks /\ worker[w].old = {} /\ worker[w].of \in Jobs!Recordings /\ faults \in 0 .. MaxFaults
  BY BusyFacts
<1>3. /\ gone \subseteq {worker[w].of} \cup worker[w].old /\ worker[w].old \subseteq gone \cup left'
      /\ w \in Staged => worker[w].of \in gone \cup left' \cup rows
      /\ left \subseteq left' /\ left' \subseteq left \cup worker[w].old \cup {worker[w].of}
      /\ outbox' = outbox /\ UNCHANGED <<inbox, Jobs!settingsVars, rows>> /\ faults' \in 0 .. MaxFaults
      /\ JobMoves /\ worker[w].step # "idle"
  BY <1>1, <1>2 DEF Jobs!outboxVars, JobMoves
<1>4. ASSUME NEW step \in {"stop", "requeue"}, NEW outcome \in {"canceled", worker[w].outcome},
             step = "stop" => outcome = "canceled",
             worker' = [worker EXCEPT ![w].step = step, ![w].outcome = outcome]
      PROVE  JobsIInv'
  <2> DEFINE t == [worker[w] EXCEPT !.step = step, !.outcome = outcome]
  <2>1. worker' = [worker EXCEPT ![w] = t]
    BY <1>2, <1>4, JobFacts
  <2>2. t \in Tasks /\ t.step = step /\ t.outcome = outcome /\ t.of = worker[w].of /\ t.old = {}
    BY <1>2, <1>4 DEF Tasks, Jobs!Terminal
  <2> HIDE DEF t
  <2>3. /\ TaskIsConsistent(t) /\ ~(t.step = "write" /\ t.kept)
        /\ t.step # "idle" => worker[w].step # "tidy" /\ t.step # "tidy" /\ t.of = worker[w].of
        /\ t.step # "idle" /\ t.outcome = "needs_input" => worker[w].outcome = "needs_input" \/ ~job.answered
    BY <1>2, <1>4, <2>2 DEF TaskIsConsistent, Jobs!Terminal
  <2> QED BY <1>1, <1>2, <1>3, <2>1, <2>2, <2>3, WorkerMoves
<1>5. CASE Jobs!Returns(w)
  BY <1>1, <1>3, <1>5, WorkerReturns
<1>6. CASE Jobs!GoesWith(w, "stop", "canceled")
  BY <1>4, <1>6 DEF Jobs!GoesWith
<1>7. CASE Jobs!Goes(w, "requeue")
  <2>1. worker' = [worker EXCEPT ![w].step = "requeue", ![w].outcome = worker[w].outcome]
    BY <1>2, <1>7, JobFacts DEF Jobs!Goes, Tasks
  <2> QED BY <1>4, <2>1
<1> QED BY <1>5, <1>6, <1>7

\* The end of the job at work is one of its moves.
LEMMA EndedMoves ==
  ASSUME Jobs!ProcessingAssumption, JobsIInv, NEW w \in Workers, Jobs!Owns(w),
         NEW status \in {"needs_input"} \cup Jobs!Terminal, Jobs!Ended(status), status = "needs_input" => ~job.answered
  PROVE  JobMoves /\ (outbox' = outbox \/ Jobs!Enqueue \/ Jobs!MarkDone)
<1>1. job.status = "running" /\ job' = [job EXCEPT !.status = status, !.held = FALSE, !.lapsed = FALSE]
  BY DEF Jobs!Owns, Jobs!Ended
<1>2. status \in {"queued", "needs_input"} \cup Jobs!Terminal
  OBVIOUS
<1> QED BY <1>1, <1>2 DEF JobMoves, Jobs!Ended

\* The transaction replaces the records there are by those of the attempt that owns the job, and hands
\* their files to the worker that recorded.
LEMMA RecordStep ==
  ASSUME Jobs!ProcessingAssumption, JobsIInv, NEW w \in Workers, worker[w].step = "write", Jobs!Owns(w),
         worker[w].outcome \in {"completed", "canceled"}, Jobs!Record(w),
         UNCHANGED <<inbox, Jobs!settingsVars, left, faults>>
  PROVE  JobsIInv'
<1> DEFINE t == [worker[w] EXCEPT !.step = "tidy", !.old = rows]
           status == IF kind = "document" /\ job.cancel THEN "canceled" ELSE worker[w].outcome
<1>1. /\ w \in Busy /\ worker[w] \in Tasks /\ worker[w].of \in Jobs!Recordings /\ worker[w].old = {}
      /\ faults \in 0 .. MaxFaults /\ TaskIsConsistent(worker[w])
  BY BusyFacts
<1>2. worker' = [worker EXCEPT ![w] = t]
  BY <1>1, JobFacts DEF Jobs!Record
<1>3. t \in Tasks /\ t.step = "tidy" /\ t.of = worker[w].of /\ t.old = rows /\ t.outcome = worker[w].outcome
  BY <1>1, JobFacts DEF Tasks
<1>4. status \in {"completed", "canceled"} /\ status \in Jobs!Terminal /\ status # "needs_input" /\ Jobs!Ended(status)
  BY DEF Jobs!Record, Jobs!Terminal
<1>5. JobMoves /\ (outbox' = outbox \/ Jobs!Enqueue \/ Jobs!MarkDone) /\ job'.status = status
  <2>1. job'.status = status
    BY <1>4, JobFacts DEF Jobs!Ended, JobRows
  <2> HIDE DEF status
  <2> QED BY <1>4, <2>1, EndedMoves
<1> HIDE DEF t, status
<1>6. UNCHANGED <<files, left>> /\ rows' \subseteq {worker[w].of} /\ (rows' # {} => w \in Staged)
      /\ (w \in Staged => rows' = {worker[w].of})
  BY DEF Jobs!Record, Staged
<1>7. worker'[w] = t /\ \A v \in Workers : v # w => worker'[v] = worker[v]
  BY <1>2, JobFacts
<1>8. Busy' = Busy /\ Staged' = Staged \ {w} /\ \A v \in Busy : worker'[v].of = worker[v].of
  BY <1>1, <1>3, <1>7 DEF Busy, Staged
<1>9. Jobs!TypeOK' /\ worker' \in [Workers -> Tasks]
  <2>1. Jobs!OutboxTypeOK' /\ UNCHANGED <<kind, original, caseOpen, access>>
    BY <1>5 DEF JobsIInv, Jobs!TypeOK, Jobs!OutboxTypeOK, Jobs!Enqueue, Jobs!MarkDone, Jobs!settingsVars
  <2>2. /\ original' \in BOOLEAN /\ caseOpen' \in BOOLEAN /\ access' \in BOOLEAN /\ faults' \in 0 .. MaxFaults
        /\ job' \in JobRows /\ left' \subseteq Jobs!Recordings /\ files' \subseteq Jobs!Recordings
    BY <1>1, <1>5, <1>6, <2>1, JobFacts, JobMovesFacts DEF JobsIInv, Jobs!TypeOK
  <2>3. worker' \in [Workers -> Tasks] /\ rows' \subseteq Jobs!Recordings
    BY <1>1, <1>2, <1>3, <1>6, JobFacts
  <2> QED BY <2>1, <2>2, <2>3, JobTypesKept
<1>10. TasksAreConsistent'
  <2>1. TaskIsConsistent(t)
    BY <1>1, <1>3 DEF TaskIsConsistent
  <2>2. \A v \in Workers : TaskIsConsistent(worker'[v])
    BY <2>1, <1>7 DEF JobsIInv, TasksAreConsistent
  <2> QED BY <2>2 DEF TasksAreConsistent, TaskIsConsistent
<1>11. JobIsConsistent'
  <2>1. \A v \in Busy' : ~Jobs!Owns(v)'
    BY <1>4, <1>5 DEF Jobs!Owns, Jobs!Terminal
  <2>2. original' = original /\ job'.id >= 1
    BY <1>5, JobMovesFacts DEF Jobs!settingsVars, JobsIInv, JobIsConsistent
  <2> QED BY <1>5, <2>1, <2>2, JobMovesFacts DEF JobsIInv, JobIsConsistent
<1>12. AttemptsAreIssued'
  <2>1. \A r \in Jobs!Recordings : Issued(r) => Issued(r)'
    BY <1>5, JobFacts, JobMovesFacts DEF Issued
  <2>2. \A v \in Busy : worker[v].of \in Jobs!Recordings /\ Issued(worker[v].of)
    BY DEF JobsIInv, TasksAreConsistent, TaskIsConsistent, Busy, AttemptsAreIssued
  <2>3. \A v \in Workers : \A r \in worker'[v].old : r \in Jobs!Recordings /\ Issued(r)
    BY <1>3, <1>7, JobFacts DEF JobsIInv, AttemptsAreIssued, Tasks
  <2>4. \A r \in rows' \cup files' \cup left' : r \in Jobs!Recordings /\ Issued(r)
    BY <1>1, <1>6, <2>2, JobFacts DEF JobsIInv, AttemptsAreIssued
  <2>5. (\A v \in Busy : Issued(worker[v].of))'
    <3>1. ASSUME NEW v \in Busy' PROVE Issued(worker[v].of)'
      <4>1. worker'[v].of \in Jobs!Recordings /\ Issued(worker'[v].of)
        BY <1>8, <2>2, <3>1
      <4> QED BY <4>1, <1>5, JobFacts, JobMovesFacts DEF Issued
    <3> QED BY <3>1
  <2>6. (\A v \in Workers : \A r \in worker[v].old : Issued(r))'
    BY <2>1, <2>3
  <2>7. (\A r \in rows \cup files \cup left : Issued(r))'
    BY <2>1, <2>4
  <2> QED BY <2>5, <2>6, <2>7 DEF AttemptsAreIssued
<1>13. AttemptsAreDistinct'
  BY <1>8 DEF JobsIInv, AttemptsAreDistinct
<1>14. OpenAttemptsAreNew'
  <2>1. ASSUME NEW v \in Busy', worker'[v].step # "tidy"
        PROVE  worker'[v].of \notin rows' /\ \A u \in Workers : worker'[v].of \notin worker'[u].old
    <3>1. v # w /\ v \in Busy /\ worker[v].step # "tidy" /\ worker'[v].of = worker[v].of /\ v \in Workers
      BY <1>3, <1>7, <1>8, <2>1 DEF Busy
    <3>2. worker[v].of # worker[w].of
      BY <1>1, <3>1 DEF JobsIInv, AttemptsAreDistinct
    <3>3. worker[v].of \notin rows /\ \A u \in Workers : worker[v].of \notin worker[u].old
      BY <3>1 DEF JobsIInv, OpenAttemptsAreNew
    <3> QED BY <1>3, <1>6, <1>7, <3>1, <3>2, <3>3
  <2> QED BY <2>1 DEF OpenAttemptsAreNew
<1>15. RecordsStand'
  <2>0. worker[w].of \notin rows /\ \A v \in Workers : worker[w].of \notin worker[v].old
    BY <1>1 DEF JobsIInv, OpenAttemptsAreNew
  <2>1. (\A r, s \in rows : r = s)'
    BY <1>6
  <2>2. (rows \subseteq files)'
    BY <1>6 DEF JobsIInv, StagedFiles
  <2>3. (\A v \in Workers : \A r \in worker[v].old : r \notin rows)'
    BY <1>3, <1>6, <1>7, <2>0
  <2>4. (\A r \in rows : r[1] = job.id => job.status \in {"completed", "canceled"})'
    BY <1>4, <1>5
  <2> QED BY <2>1, <2>2, <2>3, <2>4 DEF RecordsStand
<1>16. StagedFiles'
  <2>1. ASSUME NEW v \in Staged' PROVE worker'[v].of \in files'
    BY <1>6, <1>7, <1>8, <2>1 DEF JobsIInv, StagedFiles, Staged
  <2>2. ASSUME NEW f \in files' PROVE \/ f \in rows' \cup left'
                                      \/ \E v \in Staged' : f = worker'[v].of
                                      \/ \E v \in Workers : f \in worker'[v].old
    <3>1. CASE f \in rows
      BY <3>1, <1>3, <1>7
    <3>2. CASE f \in left
      BY <3>2, <1>6
    <3>3. CASE \E v \in Staged : f = worker[v].of
      <4>1. PICK v \in Staged : f = worker[v].of
        BY <3>3
      <4>2. CASE v = w
        BY <4>1, <4>2, <1>6
      <4>3. CASE v # w
        BY <4>1, <4>3, <1>7, <1>8 DEF Staged
      <4> QED BY <4>2, <4>3
    <3>4. CASE \E v \in Workers : f \in worker[v].old
      BY <3>4, <1>1, <1>7
    <3> QED BY <1>6, <3>1, <3>2, <3>3, <3>4 DEF JobsIInv, StagedFiles
  <2>3. (\A f \in files : \/ f \in rows \cup left
                          \/ \E v \in Staged : f = worker[v].of
                          \/ \E v \in Workers : f \in worker[v].old)'
    BY <2>2
  <2>4. (\A v \in Staged : worker[v].of \in files)'
    BY <2>1
  <2> QED BY <2>3, <2>4 DEF StagedFiles
<1> QED BY <1>9, <1>10, <1>11, <1>12, <1>13, <1>14, <1>15, <1>16 DEF JobsIInv

\* The transaction of an attempt.
LEMMA WriteStep ==
  ASSUME Jobs!ProcessingAssumption, JobsIInv, NEW w \in Workers, Jobs!Write(w)
  PROVE  JobsIInv'
<1>1. worker[w].step = "write" /\ UNCHANGED <<inbox, Jobs!settingsVars, left, faults>>
  BY DEF Jobs!Write
<1>2. TaskIsConsistent(worker[w])
  BY <1>1, BusyFacts
<1>3. ASSUME Jobs!Discarded(w), UNCHANGED <<rows, job, outbox>>,
             Jobs!Returns(w) \/ Jobs!GoesWith(w, "stop", "canceled") \/ Jobs!Goes(w, "requeue")
      PROVE  JobsIInv'
  <2>1. UNCHANGED <<Jobs!outboxVars, Jobs!settingsVars, rows, job, left, faults>>
    BY <1>1, <1>3 DEF Jobs!outboxVars
  <2> QED BY <1>1, <1>3, <2>1, GivesUp
<1>4. ASSUME Jobs!Owns(w), worker[w].outcome \in {"failed", "needs_input"}, Jobs!Returns(w), Jobs!Ended(worker[w].outcome),
             UNCHANGED <<rows, files>>
      PROVE  JobsIInv'
  <2>1. worker[w].outcome \in {"needs_input"} \cup Jobs!Terminal /\ w \notin Staged /\ w \in Busy
    BY <1>1, <1>2, <1>4 DEF TaskIsConsistent, Staged, Jobs!Terminal, Busy
  <2>2. worker[w].outcome = "needs_input" => ~job.answered
    BY <1>4, <2>1 DEF JobsIInv, JobIsConsistent
  <2>3. JobMoves /\ (outbox' = outbox \/ Jobs!Enqueue \/ Jobs!MarkDone)
    BY <1>4, <2>1, <2>2, EndedMoves
  <2> QED BY <1>1, <1>4, <2>1, <2>3, WorkerLeaves
<1>5. ASSUME Jobs!Owns(w), worker[w].outcome \notin {"failed", "needs_input"}, Jobs!Record(w) PROVE JobsIInv'
  <2>1. worker[w].outcome \in {"completed", "canceled"}
    BY <1>1, <1>2, <1>5 DEF TaskIsConsistent, Jobs!Terminal
  <2> QED BY <1>1, <1>5, <2>1, RecordStep
<1> QED BY <1>3, <1>4, <1>5 DEF Jobs!Write

\* Cleaning up removes files that are nobody's record.
LEMMA TidyStep ==
  ASSUME Jobs!ProcessingAssumption, JobsIInv, NEW w \in Workers, Jobs!Tidy(w)
  PROVE  JobsIInv'
<1> DEFINE gone == worker[w].old
<1>1. worker[w].step = "tidy" /\ worker[w].step # "idle" /\ faults \in 0 .. MaxFaults /\ w \notin Staged
  BY BusyFacts DEF Jobs!Tidy, Staged
<1>2. /\ Jobs!Returns(w) /\ JobMoves /\ outbox' = outbox /\ UNCHANGED <<inbox, Jobs!settingsVars, rows>>
      /\ faults' \in 0 .. MaxFaults /\ left \subseteq left'
      /\ left' \subseteq left \cup worker[w].old \cup {worker[w].of}
      /\ files' = files \ gone /\ gone \subseteq {worker[w].of} \cup worker[w].old
      /\ worker[w].old \subseteq gone \cup left'
      /\ w \in Staged => worker[w].of \in gone \cup left' \cup rows
  BY <1>1 DEF Jobs!Tidy, JobMoves, Jobs!outboxVars
<1>3. gone \cap rows = {}
  BY DEF JobsIInv, RecordsStand
<1> HIDE DEF gone
<1> QED BY <1>1, <1>2, <1>3, WorkerReturns

\* What ends without results leaves nothing.
LEMMA StopStep ==
  ASSUME Jobs!ProcessingAssumption, JobsIInv, NEW w \in Workers, Jobs!Stop(w) \/ Jobs!RequeueJob(w)
  PROVE  JobsIInv'
<1>1. /\ worker[w].step \in {"stop", "requeue"} /\ w \notin Staged /\ Jobs!Returns(w)
      /\ UNCHANGED <<inbox, Jobs!settingsVars, rows, files, left, faults>>
  BY DEF Jobs!Stop, Jobs!RequeueJob, Staged
<1>2. JobMoves /\ (outbox' = outbox \/ Jobs!Enqueue \/ Jobs!MarkDone)
  <2>1. ASSUME UNCHANGED <<job, outbox>> PROVE JobMoves /\ (outbox' = outbox \/ Jobs!Enqueue \/ Jobs!MarkDone)
    BY <2>1 DEF JobMoves
  <2>2. ASSUME NEW status \in Jobs!Terminal, Jobs!Owns(w), Jobs!Ended(status)
        PROVE  JobMoves /\ (outbox' = outbox \/ Jobs!Enqueue \/ Jobs!MarkDone)
    <3>1. status \in {"needs_input"} \cup Jobs!Terminal /\ status # "needs_input"
      BY <2>2 DEF Jobs!Terminal
    <3> QED BY <2>2, <3>1, EndedMoves
  <2>3. CASE Jobs!Stop(w)
    <3>1. worker[w].outcome \in Jobs!Terminal
      BY <2>3, BusyFacts DEF Jobs!Stop, TaskIsConsistent
    <3> QED BY <2>1, <2>2, <2>3, <3>1 DEF Jobs!Stop
  <2>4. CASE Jobs!RequeueJob(w)
    <3>1. CASE job' = [job EXCEPT !.status = "queued", !.held = FALSE, !.lapsed = FALSE] /\ Jobs!Enqueue /\ Jobs!Owns(w)
      <4>1. "queued" \in {"queued", "needs_input"} \cup Jobs!Terminal /\ job.status = "running"
        BY <3>1 DEF Jobs!Owns
      <4> QED BY <3>1, <4>1 DEF JobMoves
    <3>2. "failed" \in Jobs!Terminal
      BY DEF Jobs!Terminal
    <3> QED BY <2>1, <2>2, <2>4, <3>1, <3>2 DEF Jobs!RequeueJob
  <2> QED BY <2>3, <2>4
<1> QED BY <1>1, <1>2, WorkerLeaves

\* A worker that dies leaves its files to the reconciliation.
LEMMA JobCrashStep ==
  ASSUME Jobs!ProcessingAssumption, JobsIInv, NEW w \in Workers, Jobs!Crash(w)
  PROVE  JobsIInv'
<1> DEFINE gone == {}
<1>1. worker[w].step # "idle" /\ faults \in 0 .. MaxFaults /\ Jobs!Returns(w)
  BY BusyFacts DEF Jobs!Crash
<1>2. faults' \in 0 .. MaxFaults
  BY <1>1 DEF Jobs!Crash, Jobs!ProcessingAssumption
<1>3. left' = left \cup (IF worker[w].kept THEN {worker[w].of} ELSE {}) \cup worker[w].old
  BY DEF Jobs!Crash
<1>4. /\ JobMoves /\ outbox' = outbox /\ UNCHANGED <<inbox, Jobs!settingsVars, rows>>
      /\ left \subseteq left' /\ left' \subseteq left \cup worker[w].old \cup {worker[w].of}
      /\ files' = files \ gone /\ gone \subseteq {worker[w].of} \cup worker[w].old
      /\ worker[w].old \subseteq gone \cup left' /\ gone \cap rows = {}
      /\ w \in Staged => worker[w].of \in gone \cup left' \cup rows
  BY <1>3 DEF Jobs!Crash, JobMoves, Jobs!outboxVars, Staged
<1> HIDE DEF gone
<1> QED BY <1>1, <1>2, <1>4, WorkerReturns

\* A claim makes an attempt that never was.
LEMMA JobClaimStep ==
  ASSUME Jobs!ProcessingAssumption, JobsIInv, NEW w \in Workers, Jobs!Claim(w)
  PROVE  JobsIInv'
<1>1. worker[w] = Jobs!Idle /\ worker[w].step = "idle" /\ worker[w].old = {} /\ faults \in 0 .. MaxFaults
  BY DEF Jobs!Claim, JobsIInv, TasksAreConsistent, TaskIsConsistent, Jobs!Idle, Jobs!TypeOK
<1>2. UNCHANGED <<Jobs!settingsVars, rows, files, left, faults>> /\ inbox' \in BOOLEAN
  BY DEF Jobs!Claim, Jobs!TakeMessage
<1>3. CASE Jobs!Claimable
  <2> DEFINE r == <<job.id, job.claim + 1>>
             t == [Jobs!Idle EXCEPT !.step = "access", !.of = r]
  <2>1. /\ job' = [job EXCEPT !.status = "running", !.attempts = @ + 1, !.claim = @ + 1, !.held = TRUE, !.lapsed = FALSE]
        /\ worker' = [worker EXCEPT ![w] = t] /\ UNCHANGED outbox
    BY <1>3 DEF Jobs!Claim
  <2>2. job.attempts < MaxAttempts /\ job.status \in {"queued", "running"}
    BY <1>3 DEF Jobs!Claimable
  <2>3. job.claim + 1 \in 0 .. 2 * MaxAttempts /\ job.attempts + 1 \in 0 .. MaxAttempts
        /\ (IF job.answered THEN job.claim <= MaxAttempts + job.attempts ELSE job.claim = job.attempts) /\ job.id >= 1
    BY <2>2, JobFacts DEF JobsIInv, JobIsConsistent
  <2>4. job' \in JobRows
    BY <2>1, <2>3, JobFacts DEF JobRows, Jobs!Active
  <2>5. job'.id = job.id /\ job'.claim = job.claim + 1 /\ job'.status = "running" /\ job'.answered = job.answered
        /\ job'.attempts = job.attempts + 1
    BY <2>1, JobFacts DEF JobRows
  <2>6. r \in Jobs!Recordings /\ r[1] = job.id /\ r[2] = job.claim + 1
    BY <2>3, JobFacts DEF Jobs!Recordings
  <2> HIDE DEF r
  <2>7. t \in Tasks /\ t.step = "access" /\ t.of = r /\ t.old = {} /\ ~t.kept /\ t.outcome = "none"
    BY <2>6 DEF Tasks, Jobs!Idle
  <2> HIDE DEF t
  <2>8. worker'[w] = t /\ (\A v \in Workers : v # w => worker'[v] = worker[v]) /\ worker' \in [Workers -> Tasks]
    BY <2>1, <2>7, JobFacts
  <2>9. Busy' = Busy \cup {w} /\ w \notin Busy /\ Staged' = Staged
    BY <1>1, <2>7, <2>8 DEF Busy, Staged
  <2>10. ~Issued(r)
    BY <2>2, <2>6, JobFacts DEF Issued
  <2>11. Jobs!TypeOK'
    <3>1. Jobs!OutboxTypeOK' /\ UNCHANGED <<kind, original, caseOpen, access>>
      BY <1>2, <2>1 DEF JobsIInv, Jobs!TypeOK, Jobs!OutboxTypeOK, Jobs!settingsVars
    <3>2. /\ original' \in BOOLEAN /\ caseOpen' \in BOOLEAN /\ access' \in BOOLEAN /\ faults' \in 0 .. MaxFaults
          /\ rows' \subseteq Jobs!Recordings /\ left' \subseteq Jobs!Recordings /\ files' \subseteq Jobs!Recordings
      BY <1>1, <1>2, <3>1, JobFacts DEF JobsIInv, Jobs!TypeOK
    <3> QED BY <2>4, <2>8, <3>1, <3>2, JobTypesKept
  <2>12. TasksAreConsistent'
    <3>1. TaskIsConsistent(t)
      BY <2>6, <2>7 DEF TaskIsConsistent
    <3>2. \A v \in Workers : TaskIsConsistent(worker'[v])
      BY <3>1, <2>8 DEF JobsIInv, TasksAreConsistent
    <3> QED BY <3>2 DEF TasksAreConsistent, TaskIsConsistent
  <2>13. JobIsConsistent'
    <3>1. ASSUME NEW v \in Busy', Jobs!Owns(v)', worker'[v].outcome = "needs_input" PROVE FALSE
      <4>1. v \in Busy /\ worker'[v] = worker[v] /\ worker[v].of = <<job.id, job.claim + 1>>
        BY <2>5, <2>7, <2>8, <2>9, <3>1 DEF Jobs!Owns, Busy
      <4>2. Issued(worker[v].of)
        BY <4>1 DEF JobsIInv, AttemptsAreIssued
      <4> QED BY <4>1, <4>2, <2>10 DEF r
    <3>2. IF job'.answered THEN job'.claim <= MaxAttempts + job'.attempts ELSE job'.claim = job'.attempts
      BY <2>3, <2>5, JobFacts
    <3> QED BY <2>3, <2>5, <3>1, <3>2 DEF JobIsConsistent
  <2>14. AttemptsAreIssued'
    <3>1. \A q \in Jobs!Recordings : Issued(q) => Issued(q)'
      BY <2>2, <2>5, JobFacts DEF Issued
    <3>2. \A v \in Busy : worker[v].of \in Jobs!Recordings /\ Issued(worker[v].of)
      BY DEF JobsIInv, TasksAreConsistent, TaskIsConsistent, Busy, AttemptsAreIssued
    <3>3. (\A v \in Busy : Issued(worker[v].of))'
      <4>1. ASSUME NEW v \in Busy' PROVE Issued(worker[v].of)'
        <5>1. CASE v = w
          BY <5>1, <2>5, <2>6, <2>7, <2>8, JobFacts DEF Issued
        <5>2. CASE v # w
          <6>1. worker'[v].of \in Jobs!Recordings /\ Issued(worker'[v].of)
            BY <2>8, <2>9, <3>2, <4>1, <5>2 DEF Busy
          <6> QED BY <6>1, <2>2, <2>5, JobFacts DEF Issued
        <5> QED BY <5>1, <5>2
      <4> QED BY <4>1
    <3>4. \A v \in Workers : \A q \in worker'[v].old : q \in Jobs!Recordings /\ Issued(q)
      BY <2>7, <2>8, JobFacts DEF JobsIInv, AttemptsAreIssued, Tasks
    <3>5. (\A v \in Workers : \A q \in worker[v].old : Issued(q))'
      BY <3>1, <3>4
    <3>6. (\A q \in rows \cup files \cup left : Issued(q))'
      BY <1>2, <3>1, JobFacts DEF JobsIInv, AttemptsAreIssued
    <3> QED BY <3>3, <3>5, <3>6 DEF AttemptsAreIssued
  <2>15. AttemptsAreDistinct'
    <3>1. \A v \in Busy : worker[v].of # r
      BY <2>10 DEF JobsIInv, AttemptsAreIssued
    <3> QED BY <3>1, <2>7, <2>8, <2>9 DEF JobsIInv, AttemptsAreDistinct, Busy
  <2>16. OpenAttemptsAreNew'
    <3>1. r \notin rows /\ \A v \in Workers : r \notin worker[v].old
      BY <2>10 DEF JobsIInv, AttemptsAreIssued
    <3>2. \A v \in Workers : worker'[v].old = worker[v].old
      BY <1>1, <2>7, <2>8
    <3>3. ASSUME NEW v \in Busy', worker'[v].step # "tidy"
          PROVE  worker'[v].of \notin rows' /\ \A u \in Workers : worker'[v].of \notin worker'[u].old
      BY <1>2, <2>7, <2>8, <2>9, <3>1, <3>2, <3>3 DEF JobsIInv, OpenAttemptsAreNew, Busy
    <3> QED BY <3>3 DEF OpenAttemptsAreNew
  <2>17. RecordsStand'
    <3>1. \A v \in Workers : worker'[v].old = worker[v].old
      BY <1>1, <2>7, <2>8
    <3>2. \A q \in rows : q[1] # job.id
      BY <2>2 DEF JobsIInv, RecordsStand
    <3> QED BY <1>2, <2>5, <3>1, <3>2 DEF JobsIInv, RecordsStand
  <2>18. StagedFiles'
    <3>1. \A v \in Workers : worker'[v].old = worker[v].old
      BY <1>1, <2>7, <2>8
    <3>2. \A v \in Staged : worker'[v].of = worker[v].of
      BY <1>1, <2>8 DEF Staged
    <3> QED BY <1>2, <2>9, <3>1, <3>2 DEF JobsIInv, StagedFiles
  <2> QED BY <2>8, <2>11, <2>12, <2>13, <2>14, <2>15, <2>16, <2>17, <2>18 DEF JobsIInv
<1>4. CASE ~Jobs!Claimable
  <2>1. UNCHANGED worker /\ (UNCHANGED <<job, outbox>> \/ (job.status = "running" /\ Jobs!Ended("failed")))
    BY <1>4 DEF Jobs!Claim
  <2>2. "failed" \in {"queued", "needs_input"} \cup Jobs!Terminal /\ "failed" # "needs_input"
    BY DEF Jobs!Terminal
  <2>3. JobMoves /\ (outbox' = outbox \/ Jobs!Enqueue \/ Jobs!MarkDone)
    BY <2>1, <2>2 DEF JobMoves, Jobs!Ended
  <2>4. Jobs!TypeOK'
    <3>1. Jobs!OutboxTypeOK' /\ UNCHANGED <<kind, original, caseOpen, access>>
      BY <1>2, <2>3 DEF JobsIInv, Jobs!TypeOK, Jobs!OutboxTypeOK, Jobs!settingsVars, Jobs!Enqueue,
         Jobs!MarkDone
    <3>2. /\ original' \in BOOLEAN /\ caseOpen' \in BOOLEAN /\ access' \in BOOLEAN /\ faults' \in 0 .. MaxFaults
          /\ rows' \subseteq Jobs!Recordings /\ left' \subseteq Jobs!Recordings /\ files' \subseteq Jobs!Recordings
          /\ worker' \in [Workers -> Tasks]
      BY <1>1, <1>2, <2>1, <3>1, JobFacts DEF JobsIInv, Jobs!TypeOK
    <3> QED BY <2>3, <3>1, <3>2, JobMovesFacts, JobTypesKept
  <2>5. JobIsConsistent'
    <3>1. \A v \in Busy' : Jobs!Owns(v)' => Jobs!Owns(v)
      BY <2>1, <2>3, JobMovesFacts DEF Jobs!Owns
    <3> QED BY <1>2, <2>1, <2>3, <3>1, JobMovesFacts DEF JobsIInv, JobIsConsistent, Busy, Jobs!settingsVars
  <2>6. /\ job'.id = job.id
        /\ job'.status = "none" \/ (job.status # "none" /\ job'.claim >= job.claim)
        /\ job'.status = job.status \/ job.status \notin {"completed", "canceled"}
    BY <2>3, JobFacts, JobMovesFacts
  <2> QED BY <1>2, <2>1, <2>3, <2>4, <2>5, <2>6, JobMovesFacts, JobChanges
<1> QED BY <1>3, <1>4

\* Deleting the original takes its job and its records with their files.
LEMMA DeleteOriginalStep ==
  ASSUME Jobs!ProcessingAssumption, JobsIInv, Jobs!DeleteOriginal
  PROVE  JobsIInv'
<1>1. /\ original' = FALSE /\ job' = [Jobs!NoJob EXCEPT !.id = job.id] /\ rows' = {} /\ files' = files \ rows
      /\ UNCHANGED <<outbox, inbox, kind, caseOpen, access, worker, left, faults>>
  BY DEF Jobs!DeleteOriginal, Jobs!outboxVars
<1>2. /\ job' \in JobRows /\ job'.id = job.id /\ job'.status = "none" /\ ~job'.answered /\ job'.claim = 0
      /\ job'.attempts = 0
  <2>1. 0 \in 0 .. MaxAttempts /\ 0 \in 0 .. 2 * MaxAttempts /\ job.id \in 0 .. MaxJobs
    BY JobFacts
  <2> QED BY <1>1, <2>1 DEF Jobs!NoJob, JobRows
<1>3. Jobs!TypeOK'
  <2>1. /\ Jobs!OutboxTypeOK' /\ original' \in BOOLEAN /\ caseOpen' \in BOOLEAN /\ access' \in BOOLEAN
        /\ faults' \in 0 .. MaxFaults /\ rows' \subseteq Jobs!Recordings /\ left' \subseteq Jobs!Recordings
        /\ files' \subseteq Jobs!Recordings /\ worker' \in [Workers -> Tasks] /\ UNCHANGED kind
    BY <1>1, JobFacts DEF JobsIInv, Jobs!TypeOK, Jobs!OutboxTypeOK
  <2> QED BY <1>2, <2>1, JobTypesKept
<1>4. worker' \in [Workers -> Tasks] /\ TasksAreConsistent' /\ AttemptsAreDistinct'
  BY <1>1 DEF JobsIInv, TasksAreConsistent, AttemptsAreDistinct, Busy
<1>5. OpenAttemptsAreNew'
  BY <1>1 DEF JobsIInv, OpenAttemptsAreNew, Busy
<1>6. JobIsConsistent'
  BY <1>1, <1>2, JobFacts DEF JobsIInv, JobIsConsistent, Busy, Jobs!Owns
<1>7. AttemptsAreIssued'
  <2>1. \A r \in Jobs!Recordings : Issued(r) => Issued(r)'
    BY <1>2, JobFacts DEF Issued
  <2>2. \A v \in Busy : worker[v].of \in Jobs!Recordings /\ Issued(worker[v].of)
    BY DEF JobsIInv, TasksAreConsistent, TaskIsConsistent, Busy, AttemptsAreIssued
  <2>3. \A v \in Workers : \A r \in worker[v].old : r \in Jobs!Recordings /\ Issued(r)
    BY JobFacts DEF JobsIInv, AttemptsAreIssued, Tasks
  <2>4. (\A v \in Busy : Issued(worker[v].of))'
    BY <1>1, <2>1, <2>2 DEF Busy
  <2>5. (\A v \in Workers : \A r \in worker[v].old : Issued(r))'
    BY <1>1, <2>1, <2>3
  <2>6. (\A r \in rows \cup files \cup left : Issued(r))'
    BY <1>1, <2>1, JobFacts DEF JobsIInv, AttemptsAreIssued
  <2> QED BY <2>4, <2>5, <2>6 DEF AttemptsAreIssued
<1>8. RecordsStand'
  BY <1>1 DEF JobsIInv, RecordsStand
<1>9. StagedFiles'
  <2>1. \A v \in Staged : worker[v].of \notin rows
    BY DEF JobsIInv, OpenAttemptsAreNew, Staged, Busy
  <2> QED BY <1>1, <2>1 DEF JobsIInv, StagedFiles, Staged
<1> QED BY <1>3, <1>4, <1>5, <1>6, <1>7, <1>8, <1>9 DEF JobsIInv

\* The job, its messages and its settings change, and no worker.
LEMMA JobOnlyChanges ==
  ASSUME Jobs!ProcessingAssumption, JobsIInv, UNCHANGED <<worker, rows, left, kind>>, Jobs!OutboxTypeOK',
         original' = original, caseOpen' \in BOOLEAN, access' \in BOOLEAN, faults' \in 0 .. MaxFaults,
         files' = files \/ files' = files \cap (rows \cup Jobs!InHands),
         job' \in JobRows,
         IF job'.answered THEN job'.claim <= MaxAttempts + job'.attempts ELSE job'.claim = job'.attempts,
         job'.status = "needs_input" => ~job'.answered,
         job'.status = "none" => job.status = "none",
         job'.status = "running" /\ job'.held =>
           /\ job.status = "running" /\ job.held
           /\ job'.id = job.id /\ job'.claim = job.claim /\ job'.answered = job.answered,
         \/ job'.id > job.id
         \/ UNCHANGED job
         \/ /\ job'.id = job.id /\ job.status # "none" /\ job'.claim = job.claim
            /\ job'.status = job.status \/ job.status \notin {"completed", "canceled"}
  PROVE  JobsIInv'
<1>1. Jobs!TypeOK'
  <2>1. rows' \subseteq Jobs!Recordings /\ left' \subseteq Jobs!Recordings /\ files' \subseteq Jobs!Recordings
        /\ worker' \in [Workers -> Tasks] /\ original' \in BOOLEAN
    BY JobFacts DEF JobsIInv, Jobs!TypeOK
  <2> QED BY <2>1, JobTypesKept
<1>2. JobIsConsistent'
  <2>1. job'.id >= 1
    BY JobFacts DEF JobsIInv, JobIsConsistent, JobRows
  <2>2. ASSUME NEW v \in Busy', Jobs!Owns(v)', worker'[v].outcome = "needs_input" PROVE ~job'.answered
    <3>1. v \in Busy /\ Jobs!Owns(v) /\ worker[v].outcome = "needs_input" /\ job'.answered = job.answered
      BY <2>2 DEF Jobs!Owns, Busy
    <3> QED BY <3>1 DEF JobsIInv, JobIsConsistent
  <2>3. job'.status = "none" => ~original'
    BY DEF JobsIInv, JobIsConsistent
  <2> QED BY <2>1, <2>2, <2>3 DEF JobIsConsistent
<1>3. \/ job'.id > job.id
      \/ job'.id = job.id /\ (job'.status = "none" \/ (job.status # "none" /\ job'.claim >= job.claim))
      \/ UNCHANGED job
  BY JobFacts
<1>4. job'.id # job.id \/ job'.status = job.status \/ job.status \notin {"completed", "canceled"}
  BY JobFacts
<1> QED BY <1>1, <1>2, <1>3, <1>4, JobChanges

\* The facts JobOnlyChanges needs of the job as it is.
LEMMA JobAsItIs ==
  ASSUME Jobs!ProcessingAssumption, JobsIInv
  PROVE  /\ job \in JobRows /\ Jobs!OutboxTypeOK /\ faults \in 0 .. MaxFaults /\ caseOpen \in BOOLEAN /\ access \in BOOLEAN
         /\ IF job.answered THEN job.claim <= MaxAttempts + job.attempts ELSE job.claim = job.attempts
         /\ job.status = "needs_input" => ~job.answered
         /\ job.status = "none" => ~original
  BY JobFacts DEF JobsIInv, Jobs!TypeOK, JobIsConsistent

\* Analysts start again, answer and cancel.
LEMMA AnalystSteps ==
  ASSUME Jobs!ProcessingAssumption, JobsIInv, Jobs!Start \/ Jobs!ProvideInput \/ Jobs!RequestCancel \/ Jobs!StopProcessing
  PROVE  JobsIInv'
<1>1. /\ UNCHANGED <<worker, rows, left, kind>> /\ original' = original /\ caseOpen' \in BOOLEAN /\ access' \in BOOLEAN
      /\ faults' \in 0 .. MaxFaults /\ files' = files /\ Jobs!OutboxTypeOK'
  BY JobAsItIs DEF Jobs!Start, Jobs!ProvideInput, Jobs!RequestCancel, Jobs!StopProcessing,
     Jobs!settingsVars, Jobs!outboxVars, Jobs!OutboxTypeOK, Jobs!Enqueue, Jobs!MarkDone
<1>2. CASE Jobs!Start
  <2>1. job' = [Jobs!NoJob EXCEPT !.id = job.id + 1, !.status = "queued"] /\ job.id < MaxJobs
    BY <1>2 DEF Jobs!Start
  <2>2. 0 \in 0 .. MaxAttempts /\ 0 \in 0 .. 2 * MaxAttempts /\ job.id + 1 \in 0 .. MaxJobs /\ job.id + 1 > job.id
    BY <2>1, JobFacts
  <2>3. /\ job' \in JobRows /\ job'.id > job.id /\ job'.status = "queued" /\ ~job'.answered /\ job'.claim = 0
        /\ job'.attempts = 0
    BY <2>1, <2>2 DEF Jobs!NoJob, JobRows, Jobs!Active
  <2> QED BY <1>1, <2>3, JobOnlyChanges
<1>3. CASE Jobs!ProvideInput
  <2>1. job' = [job EXCEPT !.status = "queued", !.attempts = 0, !.answered = TRUE] /\ job.status = "needs_input"
    BY <1>3 DEF Jobs!ProvideInput
  <2>2. 0 \in 0 .. MaxAttempts /\ job.claim <= MaxAttempts + 0
    BY <2>1, JobFacts, JobAsItIs
  <2>3. /\ job' \in JobRows /\ job'.id = job.id /\ job'.status = "queued" /\ job'.answered /\ job'.claim = job.claim
        /\ job'.attempts = 0
    BY <2>1, <2>2, JobFacts DEF JobRows, Jobs!Active
  <2> QED BY <1>1, <2>1, <2>2, <2>3, JobOnlyChanges
<1>4. CASE Jobs!RequestCancel \/ Jobs!StopProcessing
  <2>1. /\ job.status \in Jobs!Active
        /\ \/ job.status = "running" /\ job' = [job EXCEPT !.cancel = TRUE]
           \/ job.status # "running" /\ job' = [job EXCEPT !.status = "canceled", !.cancel = TRUE]
           \/ job.status # "running" /\ job' = [job EXCEPT !.status = "canceled"]
    BY <1>4 DEF Jobs!RequestCancel, Jobs!StopProcessing
  <2>2. /\ job' \in JobRows /\ job'.id = job.id /\ job'.claim = job.claim /\ job'.attempts = job.attempts
        /\ job'.answered = job.answered /\ job'.held = job.held
        /\ \/ job.status = "running" /\ job'.status = "running"
           \/ job.status # "running" /\ job'.status = "canceled"
    BY <2>1, JobFacts DEF JobRows, Jobs!Terminal
  <2>3. job.status \in {"queued", "running", "needs_input"}
    BY <2>1 DEF Jobs!Active
  <2> QED BY <1>1, <2>2, <2>3, JobAsItIs, JobOnlyChanges
<1> QED BY <1>2, <1>3, <1>4

\* Time, the dispatcher, the reconciliation and the settings.
LEMMA OtherJobSteps ==
  ASSUME Jobs!ProcessingAssumption, JobsIInv,
         Jobs!Dispatch \/ Jobs!LeaseExpires \/ Jobs!Reconcile \/ Jobs!CloseCase \/ Jobs!LoseAccess \/ UNCHANGED Jobs!vars
  PROVE  JobsIInv'
<1>1. CASE Jobs!LeaseExpires
  <2>1. job.status = "running" /\ job' = [job EXCEPT !.lapsed = TRUE]
    BY <1>1 DEF Jobs!LeaseExpires
  <2>2. /\ job' \in JobRows /\ job'.id = job.id /\ job'.claim = job.claim /\ job'.attempts = job.attempts
        /\ job'.answered = job.answered /\ job'.held = job.held /\ job'.status = "running"
    BY <2>1, JobFacts DEF JobRows
  <2>3. faults' \in 0 .. MaxFaults
    <3>1. faults' = faults \/ (faults < MaxFaults /\ faults' = faults + 1)
      BY <1>1 DEF Jobs!LeaseExpires
    <3> QED BY <3>1, JobAsItIs DEF Jobs!ProcessingAssumption
  <2>4. /\ UNCHANGED <<worker, rows, left, kind>> /\ original' = original /\ caseOpen' \in BOOLEAN
        /\ access' \in BOOLEAN /\ files' = files /\ Jobs!OutboxTypeOK'
    BY <1>1, JobAsItIs DEF Jobs!LeaseExpires, Jobs!settingsVars, Jobs!outboxVars, Jobs!OutboxTypeOK
  <2> QED BY <2>1, <2>2, <2>3, <2>4, JobAsItIs, JobOnlyChanges
<1>2. CASE Jobs!Dispatch \/ Jobs!Reconcile \/ Jobs!CloseCase \/ Jobs!LoseAccess \/ UNCHANGED Jobs!vars
  <2>1. /\ UNCHANGED <<worker, rows, left, kind, job>> /\ original' = original /\ faults' \in 0 .. MaxFaults
        /\ caseOpen' \in BOOLEAN /\ access' \in BOOLEAN
    BY <1>2, JobAsItIs DEF Jobs!Dispatch, Jobs!Reconcile, Jobs!CloseCase, Jobs!LoseAccess, Jobs!vars,
       Jobs!settingsVars
  <2>2. Jobs!OutboxTypeOK'
    BY <1>2, JobAsItIs DEF Jobs!Dispatch, Jobs!Reconcile, Jobs!CloseCase, Jobs!LoseAccess, Jobs!vars,
       Jobs!outboxVars, Jobs!OutboxTypeOK, Jobs!Publish, Jobs!Requeue, Jobs!LoseMessage
  <2>3. files' = files \/ files' = files \cap (rows \cup Jobs!InHands)
    BY <1>2 DEF Jobs!Dispatch, Jobs!Reconcile, Jobs!CloseCase, Jobs!LoseAccess, Jobs!vars
  <2>4. /\ job' \in JobRows /\ job'.claim = job.claim /\ job'.id = job.id /\ job'.answered = job.answered
        /\ IF job'.answered THEN job'.claim <= MaxAttempts + job'.attempts ELSE job'.claim = job'.attempts
        /\ job'.status = "needs_input" => ~job'.answered
        /\ job'.status = "none" => job.status = "none"
        /\ job'.status = job.status /\ job'.held = job.held
    BY <2>1, JobAsItIs
  <2> QED BY <2>1, <2>2, <2>3, <2>4, JobOnlyChanges
<1> QED BY <1>1, <1>2

\* The original comes with its first job, and nothing is recorded.
LEMMA JobsInit == ASSUME Jobs!ProcessingAssumption, Jobs!Init PROVE JobsIInv
<1>1. job = [Jobs!NoJob EXCEPT !.id = 1, !.status = "queued"] /\ rows = {} /\ files = {} /\ left = {}
      /\ worker = [w \in Workers |-> Jobs!Idle] /\ faults = 0 /\ original = TRUE
  BY DEF Jobs!Init
<1>2. 0 \in 0 .. MaxAttempts /\ 0 \in 0 .. 2 * MaxAttempts /\ 1 \in 0 .. MaxJobs /\ 0 \in 0 .. MaxFaults
  BY DEF Jobs!ProcessingAssumption
<1>3. job \in JobRows /\ job.id = 1 /\ job.status = "queued" /\ ~job.answered /\ job.claim = 0 /\ job.attempts = 0
  BY <1>1, <1>2 DEF Jobs!NoJob, JobRows, Jobs!Active
<1>4. worker \in [Workers -> Tasks] /\ \A w \in Workers : worker[w] = Jobs!Idle
  BY <1>1, IdleTask
<1>5. Jobs!TypeOK
  BY <1>1, <1>2, <1>3, <1>4, IdleTask DEF Jobs!Init, Jobs!TypeOK, Jobs!OutboxTypeOK, JobRows, Tasks
<1>6. Busy = {} /\ Staged = {} /\ \A w \in Workers : worker[w].old = {}
  BY <1>4 DEF Busy, Staged, Jobs!Idle
<1>7. TasksAreConsistent
  BY <1>4, IdleTask DEF TasksAreConsistent
<1> QED
  BY <1>1, <1>3, <1>4, <1>5, <1>6, <1>7 DEF JobsIInv, JobIsConsistent, AttemptsAreIssued,
     AttemptsAreDistinct, OpenAttemptsAreNew, RecordsStand, StagedFiles

\* IInv is inductive.
LEMMA JobsStep == ASSUME Jobs!ProcessingAssumption, JobsIInv, [Jobs!Next]_(Jobs!vars) PROVE JobsIInv'
  BY JobClaimStep, CheckAccessStep, ReadStep, RenewStep, StageStep, WriteStep, TidyStep, StopStep,
     JobCrashStep, DeleteOriginalStep, AnalystSteps, OtherJobSteps DEF Jobs!Next, Jobs!WorkerStep

\* What the records of an original are, and what becomes of files.
LEMMA WholeRecords ==
  ASSUME Jobs!ProcessingAssumption, JobsIInv
  PROVE  Jobs!RecordsAreWhole /\ Jobs!NothingIsLeftBehind
<1>1. Jobs!NothingIsLeftBehind
  <2>1. ASSUME NEW f \in files PROVE f \in rows \cup Jobs!InHands \cup left
    <3>1. CASE \E w \in Staged : f = worker[w].of
      BY <3>1 DEF Jobs!InHands, Staged
    <3>2. CASE \E w \in Workers : f \in worker[w].old
      <4>1. PICK w \in Workers : f \in worker[w].old
        BY <3>2
      <4>2. worker[w].step # "idle"
        BY <4>1 DEF JobsIInv, TasksAreConsistent, TaskIsConsistent, Jobs!Idle
      <4> QED BY <4>1, <4>2 DEF Jobs!InHands
    <3> QED BY <3>1, <3>2 DEF JobsIInv, StagedFiles
  <2> QED BY <2>1 DEF Jobs!NothingIsLeftBehind
<1> QED BY <1>1 DEF JobsIInv, RecordsStand, Jobs!RecordsAreWhole

-----------------------------------------------------------------------------
(* The parts of MCWork.                                                    *)

PartIInv ==
  /\ part = "deliveries" => DeliveriesIInv
  /\ part = "jobs" => JobsIInv

\* The chosen part starts in its initial states, and only its own steps change it.
LEMMA PartInvariance == Spec => []PartIInv
<1>1. Init => PartIInv
  BY WorkAssumption, DeliveriesInit, JobsInit DEF Init, PartIInv
<1>2. ASSUME PartIInv, [Next]_vars, part' = "deliveries" PROVE DeliveriesIInv'
  <2>1. CASE Next
    <3>1. part = "deliveries" /\ Deliveries!Next
      BY <1>2, <2>1 DEF Next, Is, NextDeliveries, NextJobs, NextFiles, NextAccounts, NextExchange
    <3> QED BY <3>1, <1>2, WorkAssumption, DeliveriesStep DEF PartIInv
  <2>2. CASE UNCHANGED vars
    <3>1. part = "deliveries" /\ UNCHANGED Deliveries!vars
      BY <1>2, <2>2 DEF vars, deliveryVars, outboxVars, Deliveries!vars, Deliveries!outboxVars,
         Deliveries!settingsVars
    <3> QED BY <3>1, <1>2, WorkAssumption, DeliveriesStep DEF PartIInv
  <2> QED BY <1>2, <2>1, <2>2
<1>3. ASSUME PartIInv, [Next]_vars, part' = "jobs" PROVE JobsIInv'
  <2>1. CASE Next
    <3>1. part = "jobs" /\ Jobs!Next
      BY <1>3, <2>1 DEF Next, Is, NextDeliveries, NextJobs, NextFiles, NextAccounts, NextExchange
    <3> QED BY <3>1, <1>3, WorkAssumption, JobsStep DEF PartIInv
  <2>2. CASE UNCHANGED vars
    <3>1. part = "jobs" /\ UNCHANGED Jobs!vars
      BY <1>3, <2>2 DEF vars, jobVars, outboxVars, Jobs!vars, Jobs!outboxVars, Jobs!settingsVars
    <3> QED BY <3>1, <1>3, WorkAssumption, JobsStep DEF PartIInv
  <2> QED BY <1>3, <2>1, <2>2
<1>4. PartIInv /\ [Next]_vars => PartIInv'
  BY <1>2, <1>3 DEF PartIInv
<1> QED BY <1>1, <1>4, PTL DEF Spec

\* The records of an original are those of one attempt, each with its file, and no attempt leaves files
\* behind: however workers die, outlive their lease and are retried, and whatever is canceled, answered,
\* started again or deleted meanwhile.
THEOREM RecordsAreAlwaysWhole == Spec => []RecordsAreWhole
<1>1. PartIInv => RecordsAreWhole
  BY WorkAssumption, WholeRecords DEF PartIInv, RecordsAreWhole
<1> QED BY <1>1, PartInvariance, PTL

\* The outcome of a delivery is final, whatever a worker does whose lease ended while it waited for its
\* pace or for the receiver.
THEOREM OutcomesAreFinal == Spec => EndedDeliveriesStay
<1>1. ASSUME PartIInv, [Next]_vars PROVE [part = "deliveries" => Deliveries!EndedDeliveriesStay]_vars
  <2> SUFFICES ASSUME Next, part = "deliveries" PROVE Deliveries!EndedDeliveriesStay
    BY <1>1
  <2>1. Deliveries!Next
    BY DEF Next, Is, NextDeliveries, NextJobs, NextFiles, NextAccounts, NextExchange
  <2> QED BY <1>1, <2>1, WorkAssumption, OutcomesStay DEF PartIInv
<1> QED BY <1>1, PartInvariance, PTL DEF Spec, EndedDeliveriesStay

\* No attempt is made beyond notification_delivery_max_attempts but for a worker that died or was slower
\* than its lease: _claim itself never looks at the limit, a retry does.
THEOREM AttemptsAreAlwaysBounded == Spec => [](part = "deliveries" => AttemptsAreBounded)
<1>1. PartIInv => (part = "deliveries" => AttemptsAreBounded)
  BY DEF PartIInv, DeliveriesIInv, RowIsConsistent, AttemptsAreBounded
<1> QED BY <1>1, PartInvariance, PTL


-----------------------------------------------------------------------------
(* The files of a case.                                                    *)

\* A worker at work has a deletion that was requested.
WorkersHaveDeletions ==
  \A w \in Workers : worker[w].step # "idle" =>
    worker[w].of \in Deletions /\ deletion[worker[w].of].status # "none"

Undeleted == \A d \in Deletions : deletion[d].status = "none"

\* An import has no record before it commits, has its file since it stored it, and is not among the old
\* files of a reconciliation that is under way.
ImportsHold ==
  \A i \in Importers :
    /\ importer[i] # "ended" => i \notin rows /\ i \notin scan.old
    /\ importer[i] = "idle" => i \notin files
    /\ importer[i] \in {"stored", "failing"} => i \in files /\ i \in young

\* The same of the run.
RunHolds ==
  /\ run.step \in {"working", "staged"} => "run" \notin rows /\ "run" \notin scan.old
  /\ run.step = "working" => "run" \notin files
  /\ run.step = "staged" => "run" \in files /\ "run" \in young

\* The old files whose record a reconciliation did not see have none.
ScanHolds == scan.step = "known" => scan.old \cap rows \subseteq scan.known

\* A deleted case has no record, and nobody at work who will add one.
GoneIsEmpty == caseStatus = "gone" => rows = {} /\ ~Files!Locked

\* Who has deleted the records knows, and whoever has completed a deletion saw its files gone.
DeletersKnow ==
  /\ \A w \in Workers : worker[w].step \in {"verify", "complete"} => caseStatus = "gone"
  /\ \A w \in Workers : worker[w].step = "complete" => files \subseteq Files!InHands \cup left

FilesIInv ==
  /\ Files!TypeOK
  /\ WorkersHaveDeletions
  /\ Undeleted => ImportsHold /\ RunHolds /\ ScanHolds
  /\ Files!RecordsHaveFiles
  /\ GoneIsEmpty /\ DeletersKnow /\ Files!CompletedMeansGone

-----------------------------------------------------------------------------
(* Types.                                                                  *)

Steps == {"idle", "cancel_runs", "waiting", "remove_files", "delete_records", "verify", "complete", "failed"}
Statuses == {"none", "queued", "running", "completed", "failed"}

\* The types of the deletions and their workers.
DeletionTypes ==
  /\ deletion \in [Deletions -> [status : Statuses, lapsed : BOOLEAN]]
  /\ worker \in [Workers -> [step : Steps, of : Deletions \cup {Files!None}]]

\* The types of the evidence, and of those who work with it.
EvidenceTypes ==
  /\ \A s \in {rows, files, young, broken, left} : s \subseteq Files!Evidence
  /\ importer \in [Importers -> {"idle", "stored", "failing", "ended"}]
  /\ run \in [step : {"working", "staged", "ended"}, live : BOOLEAN, cancel : BOOLEAN]
  /\ removal \in Files!Evidence \cup {Files!None}
  /\ scan \in [old : SUBSET Files!Evidence, known : SUBSET Files!Evidence, step : {"idle", "old", "known"}]

\* The types of the case and the counters.
CaseTypes ==
  /\ caseStatus \in {"active", "archived", "deleting", "deletion_failed", "gone"}
  /\ pending \subseteq Files!Kinds
  /\ faults \in 0 .. MaxFaults

\* The steps that a worker at work takes, and the ones of a deletion that no worker has.
WorkerSteps(w) == Files!WorkerStep(w) \/ Files!Fails(w) \/ Files!WorkerDies(w)
DeletionSteps ==
  \E d \in Deletions :
    \/ Files!RequestDeletion(d) \/ Files!Retry(d) \/ Files!LeaseExpires(d)
    \/ \E w \in Workers : Files!Claim(w, d)

\* The steps of everybody else.
EvidenceSteps ==
  \/ \E i \in Importers : Files!Import(i)
  \/ Files!RunStep \/ Files!RunLeaseExpires
  \/ \E e \in Files!Evidence : Files!RemoveFile(e) \/ Files!Ages(e)
  \/ Files!RemoveRow \/ Files!ScanStarts \/ Files!ScanRows \/ Files!Quarantine
  \/ \E k \in Files!Kinds : Files!Load(k)
  \/ Files!Archive \/ Files!Restore

\* Everybody's steps.
LEMMA StepKinds ==
  ASSUME [Files!Next]_(Files!vars)
  PROVE  EvidenceSteps \/ DeletionSteps \/ (\E w \in Workers : WorkerSteps(w)) \/ UNCHANGED Files!vars
BY DEF Files!Next, EvidenceSteps, DeletionSteps, WorkerSteps

\* Whoever only works with the evidence leaves the deletions alone.
LEMMA EvidenceRests == ASSUME EvidenceSteps PROVE UNCHANGED Files!deletionVars
<1>1. ASSUME NEW i \in Importers, Files!Import(i) PROVE UNCHANGED Files!deletionVars
  BY <1>1 DEF Files!Import, Files!ImportStore, Files!ImportCommit, Files!ImportFails,
     Files!ImportCleansUp, Files!ImportDies
<1>2. CASE Files!RunStep \/ Files!RunLeaseExpires
  BY <1>2 DEF Files!RunStep, Files!RunStages, Files!RunRecords, Files!RunStops, Files!RunLeaseExpires
<1>3. ASSUME NEW e \in Files!Evidence, Files!RemoveFile(e) \/ Files!Ages(e) PROVE UNCHANGED Files!deletionVars
  BY <1>3 DEF Files!RemoveFile, Files!Ages
<1>4. CASE Files!RemoveRow \/ Files!ScanStarts \/ Files!ScanRows \/ Files!Quarantine
  BY <1>4 DEF Files!RemoveRow, Files!ScanStarts, Files!ScanRows, Files!Quarantine
<1>5. ASSUME NEW k \in Files!Kinds, Files!Load(k) PROVE UNCHANGED Files!deletionVars
  BY <1>5 DEF Files!Load
<1>6. CASE Files!Archive \/ Files!Restore
  BY <1>6 DEF Files!Archive, Files!Restore, Files!SetStatus, Files!deletionVars
<1> QED BY <1>1, <1>2, <1>3, <1>4, <1>5, <1>6 DEF EvidenceSteps

\* Deletions are requested for good, and a worker at work has one that was.
LEMMA DeletionsStep ==
  ASSUME DeletionTypes, WorkersHaveDeletions, [Files!Next]_(Files!vars)
  PROVE  /\ DeletionTypes' /\ WorkersHaveDeletions'
         /\ \A d \in Deletions : deletion[d].status # "none" => deletion'[d].status # "none"
<1> USE DEF DeletionTypes, WorkersHaveDeletions, Steps, Statuses
<1>1. CASE UNCHANGED Files!deletionVars
  BY <1>1 DEF Files!deletionVars
<1>2. ASSUME NEW d \in Deletions, Files!RequestDeletion(d) \/ Files!Retry(d)
      PROVE  /\ DeletionTypes' /\ WorkersHaveDeletions'
             /\ \A b \in Deletions : deletion[b].status # "none" => deletion'[b].status # "none"
  <2>1. UNCHANGED worker
    BY <1>2 DEF Files!RequestDeletion, Files!SetStatus, Files!Retry
  <2>2. \/ deletion' = [deletion EXCEPT ![d].status = "queued"]
        \/ deletion' = [deletion EXCEPT ![d] = [status |-> "queued", lapsed |-> FALSE]]
    BY <1>2 DEF Files!RequestDeletion, Files!Retry
  <2>3. deletion' \in [Deletions -> [status : Statuses, lapsed : BOOLEAN]]
    <3>1. CASE deletion' = [deletion EXCEPT ![d].status = "queued"]
      BY <3>1
    <3>2. CASE deletion' = [deletion EXCEPT ![d] = [status |-> "queued", lapsed |-> FALSE]]
      BY <3>2
    <3> QED BY <2>2, <3>1, <3>2
  <2>4. \A b \in Deletions : deletion'[b].status = deletion[b].status \/ deletion'[b].status = "queued"
    BY <2>2
  <2> QED BY <2>1, <2>3, <2>4
<1>3. ASSUME NEW d \in Deletions, Files!LeaseExpires(d)
      PROVE  /\ DeletionTypes' /\ WorkersHaveDeletions'
             /\ \A b \in Deletions : deletion[b].status # "none" => deletion'[b].status # "none"
  BY <1>3 DEF Files!LeaseExpires
<1>4. ASSUME NEW d \in Deletions, NEW w \in Workers, Files!Claim(w, d)
      PROVE  /\ DeletionTypes' /\ WorkersHaveDeletions'
             /\ \A b \in Deletions : deletion[b].status # "none" => deletion'[b].status # "none"
  <2>1. /\ deletion' = [deletion EXCEPT ![d] = [status |-> "running", lapsed |-> FALSE]]
        /\ worker' = [worker EXCEPT ![w] = [step |-> "cancel_runs", of |-> d]]
    BY <1>4 DEF Files!Claim
  <2> QED BY <2>1
<1>5. ASSUME NEW w \in Workers, WorkerSteps(w)
      PROVE  /\ DeletionTypes' /\ WorkersHaveDeletions'
             /\ \A b \in Deletions : deletion[b].status # "none" => deletion'[b].status # "none"
  <2>1. worker[w].step # "idle"
    BY <1>5 DEF WorkerSteps, Files!WorkerStep, Files!CancelRuns, Files!Waits, Files!RemoveFiles,
       Files!DeleteRecords, Files!Verify, Files!Complete,
                Files!RecordFailure, Files!Fails, Files!WorkerDies
  <2>2. PICK d \in Deletions : d = worker[w].of
    BY <2>1
  <2>3. \/ \E step \in Steps \ {"idle"} : Files!Goes(w, step)
        \/ Files!Frees(w)
    BY <1>5 DEF WorkerSteps, Files!WorkerStep, Files!CancelRuns, Files!Waits, Files!RemoveFiles,
       Files!DeleteRecords, Files!Verify, Files!Complete,
                Files!RecordFailure, Files!Fails, Files!WorkerDies
  <2>4. \/ UNCHANGED deletion
        \/ \E status \in Statuses \ {"none"} :
             deletion' = [deletion EXCEPT ![d] = [status |-> status, lapsed |-> FALSE]]
        \/ deletion' = [deletion EXCEPT ![d].lapsed = FALSE]
    BY <1>5, <2>2 DEF WorkerSteps, Files!WorkerStep, Files!CancelRuns, Files!Waits, Files!RemoveFiles,
       Files!DeleteRecords, Files!Verify,
                      Files!Complete, Files!RecordFailure, Files!Fails, Files!WorkerDies,
                      Files!SetDeletion
  <2>5. /\ deletion' \in [Deletions -> [status : Statuses, lapsed : BOOLEAN]]
        /\ \A b \in Deletions : deletion[b].status # "none" => deletion'[b].status # "none"
    <3>1. ASSUME NEW status \in Statuses \ {"none"},
                 deletion' = [deletion EXCEPT ![d] = [status |-> status, lapsed |-> FALSE]]
          PROVE  /\ deletion' \in [Deletions -> [status : Statuses, lapsed : BOOLEAN]]
                 /\ \A b \in Deletions : deletion[b].status # "none" => deletion'[b].status # "none"
      BY <3>1
    <3>2. CASE deletion' = [deletion EXCEPT ![d].lapsed = FALSE]
      BY <3>2
    <3> QED BY <2>4, <3>1, <3>2
  <2>6. /\ worker' \in [Workers -> [step : Steps, of : Deletions \cup {Files!None}]]
        /\ \A v \in Workers : worker'[v].step # "idle" =>
             worker[v].step # "idle" /\ worker'[v].of = worker[v].of
    BY <2>1, <2>3 DEF Files!Goes, Files!Frees
  <2> QED BY <2>5, <2>6
<1>6. UNCHANGED Files!vars => UNCHANGED Files!deletionVars
  BY DEF Files!vars
<1> HIDE DEF DeletionTypes, WorkersHaveDeletions
<1> QED BY <1>1, <1>2, <1>3, <1>4, <1>5, <1>6, StepKinds, EvidenceRests DEF DeletionSteps

\* Whatever a deletion does to the evidence: files and records only go, and nobody takes up a file.
DeletionTakes ==
  /\ files' \in {files, {}} /\ young' \subseteq young /\ rows' \in {rows, {}}
  /\ UNCHANGED <<importer, removal, scan, broken, left>>
  /\ run' = run \/ run' = [run EXCEPT !.cancel = TRUE]

\* Requests and workers of a deletion do no more than that.
LEMMA DeletionsTake ==
  ASSUME EvidenceTypes, DeletionSteps \/ \E w \in Workers : WorkerSteps(w)
  PROVE  DeletionTakes
<1> USE DEF DeletionTakes, Files!requestVars
<1>1. ASSUME NEW d \in Deletions, NEW w \in Workers,
             Files!RequestDeletion(d) \/ Files!Retry(d) \/ Files!LeaseExpires(d) \/ Files!Claim(w, d)
      PROVE  DeletionTakes
  BY <1>1 DEF Files!RequestDeletion, Files!SetStatus, Files!Retry, Files!LeaseExpires, Files!Claim
<1>2. ASSUME NEW d \in Deletions, Files!RequestDeletion(d) \/ Files!Retry(d) \/ Files!LeaseExpires(d)
      PROVE  DeletionTakes
  BY <1>2 DEF Files!RequestDeletion, Files!SetStatus, Files!Retry, Files!LeaseExpires
<1>3. ASSUME NEW w \in Workers, WorkerSteps(w) PROVE DeletionTakes
  <2>1. CASE Files!CancelRuns(w) \/ Files!Waits(w) \/ Files!RecordFailure(w) \/ Files!WorkerDies(w)
          \/ Files!Complete(w)
    BY <2>1 DEF Files!CancelRuns, Files!Waits, Files!RecordFailure, Files!WorkerDies, Files!Complete
  <2>2. CASE Files!RemoveFiles(w) \/ Files!DeleteRecords(w) \/ Files!Verify(w)
    BY <2>2 DEF Files!RemoveFiles, Files!DeleteRecords, Files!Verify
  <2>3. CASE Files!Fails(w)
    BY <2>3 DEF Files!Fails
  <2> QED BY <1>3, <2>1, <2>2, <2>3 DEF WorkerSteps, Files!WorkerStep
<1> HIDE DEF DeletionTakes
<1> QED BY <1>1, <1>2, <1>3 DEF DeletionSteps

\* Every step keeps the types of the evidence.
LEMMA EvidenceTypesStep == ASSUME EvidenceTypes, [Files!Next]_(Files!vars) PROVE EvidenceTypes'
<1> USE DEF EvidenceTypes
<1>1. Importers \cup {"run"} \subseteq Files!Evidence /\ Files!NoScan = [old |-> {}, known |-> {}, step |-> "idle"]
  BY DEF Files!Evidence, Files!NoScan
<1> DEFINE RunRow == [step : {"working", "staged", "ended"}, live : BOOLEAN, cancel : BOOLEAN]
           Scan == [old : SUBSET Files!Evidence, known : SUBSET Files!Evidence, step : {"idle", "old", "known"}]
<1>12. /\ [run EXCEPT !.step = "staged"] \in RunRow
       /\ [run EXCEPT !.step = "ended", !.live = FALSE] \in RunRow
       /\ [run EXCEPT !.live = FALSE] \in RunRow /\ [run EXCEPT !.cancel = TRUE] \in RunRow
  OBVIOUS
<1>13. /\ [Files!NoScan EXCEPT !.old = Files!OldFiles, !.step = "old"] \in Scan
       /\ [scan EXCEPT !.known = rows, !.step = "known"] \in Scan
       /\ Files!NoScan \in Scan
  BY <1>1 DEF Files!OldFiles
<1>2. ASSUME NEW i \in Importers, Files!Import(i) PROVE EvidenceTypes'
  BY <1>1, <1>2 DEF Files!Import, Files!ImportStore, Files!ImportCommit, Files!ImportFails,
     Files!ImportCleansUp, Files!ImportDies, Files!Store
<1>3. CASE Files!RunStages \/ Files!RunRecords
  <2>1. UNCHANGED <<importer, removal, scan, broken, left>> /\ run' \in RunRow
    BY <1>3, <1>12 DEF Files!RunStages, Files!RunRecords
  <2>2. rows' \subseteq rows \cup {"run"} /\ files' \subseteq files \cup {"run"} /\ young' \subseteq young \cup {"run"}
    BY <1>3 DEF Files!RunStages, Files!RunRecords, Files!Store
  <2> QED BY <1>1, <2>1, <2>2
<1>4. CASE Files!RunStops \/ Files!RunLeaseExpires
  <2>1. run' \in RunRow
    BY <1>4, <1>12 DEF Files!RunStops, Files!RunLeaseExpires
  <2>2. UNCHANGED <<rows, files, young, broken, left, importer, removal, scan>>
    BY <1>4 DEF Files!RunStops, Files!RunLeaseExpires
  <2> QED BY <2>1, <2>2
<1>5. ASSUME NEW e \in Files!Evidence, Files!RemoveFile(e) \/ Files!Ages(e) PROVE EvidenceTypes'
  BY <1>5 DEF Files!RemoveFile, Files!Ages, Files!requestVars
<1>6. CASE Files!RemoveRow
  BY <1>6 DEF Files!RemoveRow
<1>7. CASE Files!ScanStarts \/ Files!ScanRows \/ Files!Quarantine
  <2>1. scan' \in Scan /\ files' \subseteq files
    <3>1. CASE Files!ScanStarts
      BY <1>13, <3>1 DEF Files!ScanStarts
    <3>2. CASE Files!ScanRows
      BY <1>13, <3>2 DEF Files!ScanRows
    <3>3. CASE Files!Quarantine
      BY <1>13, <3>3 DEF Files!Quarantine
    <3> QED BY <1>7, <3>1, <3>2, <3>3
  <2>2. UNCHANGED <<rows, young, broken, left, importer, run, removal>>
    BY <1>7 DEF Files!ScanStarts, Files!ScanRows, Files!Quarantine
  <2> QED BY <2>1, <2>2
<1>8. ASSUME NEW k \in Files!Kinds, Files!Load(k) PROVE EvidenceTypes'
  BY <1>8 DEF Files!Load, Files!requestVars
<1>9. CASE Files!Archive \/ Files!Restore
  BY <1>9 DEF Files!Archive, Files!Restore, Files!SetStatus, Files!requestVars
<1>10. CASE DeletionSteps \/ \E w \in Workers : WorkerSteps(w)
  <2>1. DeletionTakes
    BY <1>10, DeletionsTake
  <2>2. run' \in RunRow
    BY <1>12, <2>1 DEF DeletionTakes
  <2>3. files' \subseteq files /\ young' \subseteq young /\ rows' \subseteq rows
    BY <2>1 DEF DeletionTakes
  <2> QED BY <2>1, <2>2, <2>3 DEF DeletionTakes
<1>11. CASE UNCHANGED Files!vars
  BY <1>11 DEF Files!vars, Files!requestVars
<1> HIDE DEF EvidenceTypes
<1> QED BY <1>2, <1>3, <1>4, <1>5, <1>6, <1>7, <1>8, <1>9, <1>10, <1>11, StepKinds DEF EvidenceSteps,
           Files!RunStep

\* Every step keeps the types of the case.
LEMMA CaseTypesStep ==
  ASSUME Files!CaseFilesAssumption, CaseTypes, [Files!Next]_(Files!vars)
  PROVE  CaseTypes'
<1> USE DEF CaseTypes
<1>0. Files!Fault => faults' \in 0 .. MaxFaults
  BY DEF Files!Fault, Files!CaseFilesAssumption
<1>1. ASSUME NEW i \in Importers, Files!Import(i) PROVE CaseTypes'
  BY <1>0, <1>1 DEF Files!Import, Files!ImportStore, Files!ImportCommit, Files!ImportFails,
     Files!ImportCleansUp, Files!ImportDies
<1>2. CASE Files!RunStep \/ Files!RunLeaseExpires
  BY <1>0, <1>2 DEF Files!RunStep, Files!RunStages, Files!RunRecords, Files!RunStops,
     Files!RunLeaseExpires
<1>3. ASSUME NEW e \in Files!Evidence, Files!RemoveFile(e) \/ Files!Ages(e) PROVE CaseTypes'
  BY <1>3 DEF Files!RemoveFile, Files!Ages
<1>4. CASE Files!RemoveRow \/ Files!ScanStarts \/ Files!ScanRows \/ Files!Quarantine
  BY <1>0, <1>4 DEF Files!RemoveRow, Files!ScanStarts, Files!ScanRows, Files!Quarantine
<1>5. ASSUME NEW k \in Files!Kinds, Files!Load(k) PROVE CaseTypes'
  BY <1>5 DEF Files!Load
<1>6. CASE Files!Archive \/ Files!Restore
  BY <1>6 DEF Files!Archive, Files!Restore, Files!SetStatus
<1>7. ASSUME NEW d \in Deletions,
             \/ Files!RequestDeletion(d) \/ Files!Retry(d) \/ Files!LeaseExpires(d)
    \/ \E w \in Workers : Files!Claim(w, d)
      PROVE  CaseTypes'
  BY <1>0, <1>7 DEF Files!RequestDeletion, Files!SetStatus, Files!Retry, Files!LeaseExpires, Files!Claim
<1>8. ASSUME NEW w \in Workers, WorkerSteps(w) PROVE CaseTypes'
  BY <1>0, <1>8 DEF WorkerSteps, Files!WorkerStep, Files!CancelRuns, Files!Waits, Files!RemoveFiles,
     Files!DeleteRecords, Files!Verify, Files!Complete,
              Files!RecordFailure, Files!Fails, Files!WorkerDies
<1>9. CASE UNCHANGED Files!vars
  BY <1>9 DEF Files!vars
<1> HIDE DEF CaseTypes
<1> QED BY <1>1, <1>2, <1>3, <1>4, <1>5, <1>6, <1>7, <1>8, <1>9, StepKinds DEF EvidenceSteps, DeletionSteps

\* The types in one place.
LEMMA TypesTogether == Files!TypeOK <=> CaseTypes /\ EvidenceTypes /\ DeletionTypes
BY DEF Files!TypeOK, CaseTypes, EvidenceTypes, DeletionTypes, Steps, Statuses

-----------------------------------------------------------------------------
(* While nobody deletes the case.                                          *)

Hold == ImportsHold /\ RunHolds /\ ScanHolds /\ rows \ files \subseteq broken \cup {removal}

\* As long as no deletion is requested, only the evidence is worked with.
LEMMA OnlyEvidence ==
  ASSUME DeletionTypes, WorkersHaveDeletions, [Files!Next]_(Files!vars), Undeleted'
  PROVE  Undeleted /\ (EvidenceSteps \/ UNCHANGED Files!vars)
<1>1. Undeleted
  BY DeletionsStep DEF Undeleted
<1>2. ASSUME NEW w \in Workers, WorkerSteps(w) PROVE FALSE
  <2>1. worker[w].step = "idle"
    BY <1>1 DEF Undeleted, WorkersHaveDeletions
  <2> QED BY <1>2, <2>1 DEF WorkerSteps, Files!WorkerStep, Files!CancelRuns, Files!Waits, Files!RemoveFiles,
             Files!DeleteRecords, Files!Verify,
                 Files!Complete, Files!RecordFailure, Files!Fails, Files!WorkerDies
<1>3. ASSUME NEW d \in Deletions,
             Files!Retry(d) \/ Files!LeaseExpires(d) \/ (\E w \in Workers : Files!Claim(w, d)) PROVE FALSE
  <2>1. deletion[d].status = "none"
    BY <1>1 DEF Undeleted
  <2> QED BY <1>3, <2>1 DEF Files!Retry, Files!LeaseExpires, Files!Claim
<1>4. ASSUME NEW d \in Deletions, Files!RequestDeletion(d) PROVE FALSE
  <2>1. deletion'[d].status = "queued"
    BY <1>4 DEF Files!RequestDeletion, DeletionTypes
  <2> QED BY <2>1 DEF Undeleted
<1> QED BY <1>1, <1>2, <1>3, <1>4, StepKinds DEF DeletionSteps

\* An import records a file that no reconciliation takes; one that fails has no record.
LEMMA ImportHolds ==
  ASSUME Files!CaseFilesAssumption, EvidenceTypes, Hold, NEW i \in Importers, Files!Import(i)
  PROVE  Hold'
<1>0. /\ UNCHANGED <<run, removal, scan, broken>> /\ i # "run"
      /\ \A j \in Importers : j # i => importer'[j] = importer[j]
  BY DEF Files!Import, Files!ImportStore, Files!ImportCommit, Files!ImportFails, Files!ImportCleansUp,
     Files!ImportDies, Files!CaseFilesAssumption,
         EvidenceTypes
<1> USE DEF Hold, ImportsHold, RunHolds, ScanHolds, EvidenceTypes
<1>1. CASE Files!ImportStore(i)
  <2>1. /\ importer[i] = "idle" /\ importer'[i] = "stored" /\ rows' = rows
        /\ files' = files \cup {i} /\ young' = young \cup {i}
    BY <1>1 DEF Files!ImportStore, Files!Store
  <2> QED BY <1>0, <2>1
<1>2. CASE Files!ImportCommit(i)
  <2>1. /\ importer[i] = "stored" /\ importer'[i] = "ended" /\ rows' = rows \cup {i}
        /\ files' = files /\ young' = young
    BY <1>2 DEF Files!ImportCommit
  <2>2. i \in files /\ i \notin scan.old
    BY <2>1
  <2>3. ImportsHold' /\ RunHolds'
    BY <1>0, <2>1
  <2>4. ScanHolds' /\ rows' \ files' \subseteq broken' \cup {removal'}
    BY <1>0, <2>1, <2>2
  <2> QED BY <2>3, <2>4
<1>3. CASE Files!ImportFails(i) \/ Files!ImportDies(i)
  <2>1. /\ importer[i] \in {"stored", "failing"} /\ importer'[i] \in {"failing", "ended"}
        /\ UNCHANGED <<rows, files, young>>
    BY <1>3 DEF Files!ImportFails, Files!ImportDies
  <2> QED BY <1>0, <2>1
<1>4. CASE Files!ImportCleansUp(i)
  <2>1. /\ importer[i] = "failing" /\ importer'[i] = "ended" /\ rows' = rows
        /\ files' = files \ {i} /\ young' = young \ {i}
    BY <1>4 DEF Files!ImportCleansUp
  <2>2. i \notin rows
    BY <2>1
  <2>3. ImportsHold' /\ RunHolds' /\ ScanHolds'
    BY <1>0, <2>1
  <2>4. rows' \ files' \subseteq broken' \cup {removal'}
    BY <1>0, <2>1, <2>2
  <2> QED BY <2>3, <2>4
<1> QED BY <1>1, <1>2, <1>3, <1>4 DEF Files!Import

\* So does the run.
LEMMA RunStepHolds ==
  ASSUME Files!CaseFilesAssumption, EvidenceTypes, Hold, Files!RunStep \/ Files!RunLeaseExpires
  PROVE  Hold'
<1>0. /\ UNCHANGED <<importer, removal, scan, broken>> /\ "run" \notin Importers
  BY DEF Files!RunStep, Files!RunStages, Files!RunRecords, Files!RunStops, Files!RunLeaseExpires,
     Files!CaseFilesAssumption
<1> USE DEF Hold, ImportsHold, RunHolds, ScanHolds, EvidenceTypes
<1>1. CASE Files!RunStages
  <2>1. /\ run.step = "working" /\ run'.step = "staged" /\ rows' = rows
        /\ files' = files \cup {"run"} /\ young' = young \cup {"run"}
    BY <1>1 DEF Files!RunStages, Files!Store
  <2> QED BY <1>0, <2>1
<1>2. CASE Files!RunRecords
  <2>1. /\ run.step = "staged" /\ run'.step = "ended"
        /\ \/ rows' = rows \cup {"run"} /\ UNCHANGED <<files, young>>
           \/ files' = files \ {"run"} /\ young' = young \ {"run"} /\ UNCHANGED rows
    BY <1>2 DEF Files!RunRecords
  <2>2. "run" \in files /\ "run" \notin rows /\ "run" \notin scan.old
    BY <2>1
  <2>3. ImportsHold' /\ RunHolds'
    BY <1>0, <2>1, <2>2
  <2>4. ScanHolds' /\ rows' \ files' \subseteq broken' \cup {removal'}
    BY <1>0, <2>1, <2>2
  <2> QED BY <2>3, <2>4
<1>3. CASE Files!RunStops \/ Files!RunLeaseExpires
  <2>1. run'.step \in {run.step, "ended"} /\ UNCHANGED <<rows, files, young>>
    BY <1>3 DEF Files!RunStops, Files!RunLeaseExpires
  <2> QED BY <1>0, <2>1
<1> QED BY <1>1, <1>2, <1>3 DEF Files!RunStep

\* So do the removal of evidence and the reconciliation.
LEMMA OthersHold ==
  ASSUME Files!CaseFilesAssumption, EvidenceTypes, Hold,
         \/ \E e \in Files!Evidence : Files!RemoveFile(e) \/ Files!Ages(e)
         \/ Files!RemoveRow \/ Files!ScanStarts \/ Files!ScanRows \/ Files!Quarantine
         \/ \E k \in Files!Kinds : Files!Load(k)
         \/ Files!Archive \/ Files!Restore
  PROVE  Hold'
<1> USE DEF Hold, ImportsHold, RunHolds, ScanHolds, EvidenceTypes, Files!requestVars
<1>1. ASSUME NEW e \in Files!Evidence, Files!RemoveFile(e) PROVE Hold'
  <2>1. /\ UNCHANGED <<importer, run, scan, broken, rows>> /\ e \in rows /\ e # "run" /\ removal = Files!None
        /\ files' = files \ {e} /\ young' = young \ {e} /\ removal' = e
    BY <1>1 DEF Files!RemoveFile
  <2>2. Files!None \notin rows
    BY DEF Files!CaseFilesAssumption, Files!Evidence, Files!None
  <2> QED BY <2>1, <2>2
<1>2. ASSUME NEW e \in Files!Evidence, Files!Ages(e) PROVE Hold'
  <2>1. /\ UNCHANGED <<importer, run, removal, scan, broken, rows, files>>
        /\ young' = young \ {e} /\ e \notin Files!InHands
    BY <1>2 DEF Files!Ages
  <2>2. (\A i \in Importers : importer[i] \in {"stored", "failing"} => i # e)
          /\ (run.step = "staged" => e # "run")
    BY <2>1 DEF Files!InHands
  <2> QED BY <2>1, <2>2
<1>3. CASE Files!RemoveRow
  <2>1. /\ UNCHANGED <<importer, run, scan, files, young>> /\ removal' = Files!None
        /\ \/ rows' = rows \ {removal} /\ broken' = broken \ {removal}
           \/ broken' = broken \cup {removal} /\ UNCHANGED rows
    BY <1>3 DEF Files!RemoveRow
  <2>2. rows' \ files' \subseteq broken' \cup {removal'}
    BY <2>1
  <2>3. rows' \subseteq rows
    BY <2>1
  <2> QED BY <2>1, <2>2, <2>3
<1>4. CASE Files!ScanStarts
  <2>1. /\ UNCHANGED <<importer, run, removal, broken, rows, files, young>>
        /\ scan'.old = files \ young /\ scan'.step = "old"
    BY <1>4 DEF Files!ScanStarts, Files!NoScan, Files!OldFiles
  <2> QED BY <2>1
<1>5. CASE Files!ScanRows
  <2>1. /\ UNCHANGED <<importer, run, removal, broken, rows, files, young>>
        /\ scan'.old = scan.old /\ scan'.known = rows
    BY <1>5 DEF Files!ScanRows
  <2> QED BY <2>1
<1>6. CASE Files!Quarantine
  <2>1. /\ UNCHANGED <<importer, run, removal, broken, rows, young>>
        /\ scan.step = "known" /\ scan'.old = {} /\ scan'.step = "idle"
        /\ files' = files \ (scan.old \ scan.known)
    BY <1>6 DEF Files!Quarantine, Files!NoScan
  <2> QED BY <2>1
<1>7. ASSUME \/ \E k \in Files!Kinds : Files!Load(k)
             \/ Files!Archive \/ Files!Restore
      PROVE  Hold'
  BY <1>7 DEF Files!Load, Files!Archive, Files!Restore, Files!SetStatus
<1> QED BY <1>1, <1>2, <1>3, <1>4, <1>5, <1>6, <1>7

\* Until somebody requests a deletion every step keeps the files of the records.
LEMMA HoldStep ==
  ASSUME Files!CaseFilesAssumption, FilesIInv, [Files!Next]_(Files!vars), Undeleted'
  PROVE  Hold'
<1>1. EvidenceTypes /\ DeletionTypes /\ WorkersHaveDeletions
  BY TypesTogether DEF FilesIInv
<1>2. Undeleted /\ (EvidenceSteps \/ UNCHANGED Files!vars)
  BY <1>1, OnlyEvidence
<1>3. Hold
  BY <1>2 DEF FilesIInv, Hold, Files!RecordsHaveFiles, Undeleted
<1>4. CASE UNCHANGED Files!vars
  BY <1>3, <1>4 DEF Files!vars, Files!requestVars, Hold, ImportsHold, RunHolds, ScanHolds
<1> QED BY <1>1, <1>2, <1>3, <1>4, ImportHolds, RunStepHolds, OthersHold DEF EvidenceSteps

-----------------------------------------------------------------------------
(* Once the case is deleted.                                               *)

Clean == files \subseteq Files!InHands \cup left

\* Nobody touches the case after its row is gone but to remove files, and to record nothing.
AfterGone ==
  /\ caseStatus' = "gone" /\ rows' = {} /\ ~Files!Locked'
  /\ Clean => Clean'

\* The case stays deleted whatever anybody does who was at work with it.
LEMMA GoneStays ==
  ASSUME EvidenceTypes, DeletionTypes, GoneIsEmpty, caseStatus = "gone", [Files!Next]_(Files!vars)
  PROVE  AfterGone
<1>0. /\ rows = {} /\ removal = Files!None /\ \A i \in Importers : importer[i] # "stored"
  BY DEF GoneIsEmpty, Files!Locked
<1> USE DEF AfterGone, Clean, Files!Locked, EvidenceTypes
<1>1. ASSUME NEW i \in Importers, Files!Import(i) PROVE AfterGone
  <2>1. Files!ImportCleansUp(i) \/ Files!ImportDies(i)
    BY <1>0, <1>1 DEF Files!Import, Files!ImportStore, Files!ImportCommit, Files!ImportFails
  <2>2. /\ UNCHANGED <<caseStatus, rows, removal, run>>
        /\ importer' = [importer EXCEPT ![i] = "ended"]
        /\ \/ files' = files \ {i} /\ left' = left
           \/ files' = files /\ left' = left \cup {i}
    BY <2>1 DEF Files!ImportCleansUp, Files!ImportDies
  <2>3. \A j \in Importers : j # i => importer'[j] = importer[j]
    BY <2>2
  <2>4. importer'[i] = "ended"
    BY <2>2
  <2>5. Files!InHands \subseteq Files!InHands' \cup {i}
    BY <2>2, <2>3 DEF Files!InHands
  <2>6. Clean => Clean'
    BY <2>2, <2>5
  <2> QED BY <1>0, <2>2, <2>3, <2>4, <2>6
<1>2. CASE Files!RunStep \/ Files!RunLeaseExpires
  <2>1. /\ UNCHANGED <<caseStatus, rows, removal, importer, left>>
        /\ \/ files' = files \cup {"run"} /\ run'.step = "staged"
           \/ files' = files \ {"run"}
           \/ files' = files /\ run.step = "working"
           \/ files' = files /\ run'.step = run.step
    BY <1>0, <1>2 DEF Files!RunStep, Files!RunStages, Files!RunRecords, Files!RunStops,
       Files!RunLeaseExpires, Files!Store
  <2>2. Clean => Clean'
    BY <2>1 DEF Files!InHands
  <2> QED BY <1>0, <2>1, <2>2
<1>3. ASSUME NEW e \in Files!Evidence, Files!RemoveFile(e) \/ Files!Ages(e) PROVE AfterGone
  <2>1. UNCHANGED <<caseStatus, rows, files, left, Files!requestVars>>
    BY <1>3 DEF Files!RemoveFile, Files!Ages
  <2> QED BY <1>0, <2>1 DEF Files!requestVars, Files!InHands
<1>4. CASE Files!RemoveRow
  BY <1>0, <1>4 DEF Files!RemoveRow
<1>5. CASE Files!ScanStarts \/ Files!ScanRows \/ Files!Quarantine
  <2>1. UNCHANGED <<caseStatus, rows, left, importer, run, removal>> /\ files' \subseteq files
    BY <1>5 DEF Files!ScanStarts, Files!ScanRows, Files!Quarantine
  <2> QED BY <1>0, <2>1 DEF Files!InHands
<1>6. ASSUME NEW k \in Files!Kinds, Files!Load(k) PROVE AfterGone
  BY <1>0, <1>6 DEF Files!Load, Files!requestVars, Files!InHands
<1>7. ASSUME Files!Archive \/ Files!Restore \/ \E d \in Deletions : Files!RequestDeletion(d) PROVE FALSE
  BY <1>7 DEF Files!Archive, Files!Restore, Files!RequestDeletion, Files!SetStatus, Files!Exists
<1>8. ASSUME NEW d \in Deletions,
             Files!Retry(d) \/ Files!LeaseExpires(d) \/ \E w \in Workers : Files!Claim(w, d) PROVE AfterGone
  <2>1. UNCHANGED <<caseStatus, rows, files, left, Files!requestVars>>
    BY <1>8 DEF Files!Retry, Files!LeaseExpires, Files!Claim, Files!Exists
  <2> QED BY <1>0, <2>1 DEF Files!requestVars, Files!InHands
<1>9. ASSUME NEW w \in Workers, WorkerSteps(w) PROVE AfterGone
  <2>1. caseStatus' = "gone"
    BY <1>9 DEF WorkerSteps, Files!WorkerStep, Files!CancelRuns, Files!Waits, Files!RemoveFiles,
       Files!DeleteRecords, Files!Verify, Files!Complete,
                Files!RecordFailure, Files!Fails, Files!WorkerDies, Files!Exists
  <2>2. UNCHANGED run
    BY <1>9 DEF WorkerSteps, Files!WorkerStep, Files!CancelRuns, Files!Waits, Files!RemoveFiles,
       Files!DeleteRecords, Files!Verify, Files!Complete,
                Files!RecordFailure, Files!Fails, Files!WorkerDies, Files!Exists, Files!requestVars
  <2>3. DeletionTakes
    BY <1>9, DeletionsTake
  <2> QED BY <1>0, <2>1, <2>2, <2>3 DEF DeletionTakes, Files!InHands
<1>10. CASE UNCHANGED Files!vars
  BY <1>0, <1>10 DEF Files!vars, Files!requestVars, Files!InHands
<1> HIDE DEF AfterGone
<1> QED BY <1>1, <1>2, <1>3, <1>4, <1>5, <1>6, <1>7, <1>8, <1>9, <1>10, StepKinds
        DEF EvidenceSteps, DeletionSteps

\* Only the step that deletes the records deletes the case.
LEMMA WhoDeletes ==
  ASSUME caseStatus # "gone", caseStatus' = "gone", [Files!Next]_(Files!vars)
  PROVE  \E w \in Workers : Files!DeleteRecords(w)
<1>1. ASSUME NEW i \in Importers, Files!Import(i) PROVE FALSE
  BY <1>1 DEF Files!Import, Files!ImportStore, Files!ImportCommit, Files!ImportFails,
     Files!ImportCleansUp, Files!ImportDies
<1>2. ASSUME Files!RunStep \/ Files!RunLeaseExpires PROVE FALSE
  BY <1>2 DEF Files!RunStep, Files!RunStages, Files!RunRecords, Files!RunStops, Files!RunLeaseExpires
<1>3. ASSUME NEW e \in Files!Evidence, Files!RemoveFile(e) \/ Files!Ages(e) PROVE FALSE
  BY <1>3 DEF Files!RemoveFile, Files!Ages
<1>4. ASSUME Files!RemoveRow \/ Files!ScanStarts \/ Files!ScanRows \/ Files!Quarantine PROVE FALSE
  BY <1>4 DEF Files!RemoveRow, Files!ScanStarts, Files!ScanRows, Files!Quarantine
<1>5. ASSUME NEW k \in Files!Kinds, Files!Load(k) PROVE FALSE
  BY <1>5 DEF Files!Load
<1>6. ASSUME Files!Archive \/ Files!Restore PROVE FALSE
  BY <1>6 DEF Files!Archive, Files!Restore, Files!SetStatus
<1>7. ASSUME NEW d \in Deletions, \/ Files!RequestDeletion(d) \/ Files!Retry(d) \/ Files!LeaseExpires(d)
                                  \/ \E w \in Workers : Files!Claim(w, d)
      PROVE  FALSE
  BY <1>7 DEF Files!RequestDeletion, Files!SetStatus, Files!Retry, Files!LeaseExpires, Files!Claim,
     Files!Exists
<1>8. ASSUME NEW w \in Workers, WorkerSteps(w) PROVE Files!DeleteRecords(w)
  BY <1>8 DEF WorkerSteps, Files!WorkerStep, Files!CancelRuns, Files!Waits, Files!RemoveFiles,
     Files!Verify, Files!Complete,
              Files!RecordFailure, Files!Fails, Files!WorkerDies, Files!Exists
<1>9. ASSUME UNCHANGED Files!vars PROVE FALSE
  BY <1>9 DEF Files!vars
<1> QED BY <1>1, <1>2, <1>3, <1>4, <1>5, <1>6, <1>7, <1>8, <1>9, StepKinds
        DEF EvidenceSteps, DeletionSteps

\* What the workers of deletions have seen.
LEMMA WorkersMove ==
  ASSUME DeletionTypes, [Files!Next]_(Files!vars), NEW w \in Workers
  PROVE  /\ worker'[w].step = "verify" => worker[w].step = "verify" \/ Files!DeleteRecords(w)
         /\ worker'[w].step = "complete" => worker[w].step = "complete" \/ Files!Verify(w)
<1> USE DEF DeletionTypes, Steps, Statuses
<1>1. UNCHANGED Files!deletionVars \/ UNCHANGED Files!vars => UNCHANGED worker
  BY DEF Files!vars, Files!deletionVars
<1>2. DeletionSteps => worker'[w].step = worker[w].step \/ worker'[w].step = "cancel_runs"
  BY DEF DeletionSteps, Files!RequestDeletion, Files!SetStatus, Files!Retry, Files!LeaseExpires,
     Files!Claim
<1>3. ASSUME NEW v \in Workers, WorkerSteps(v), v # w PROVE worker'[w] = worker[w]
  BY <1>3 DEF WorkerSteps, Files!WorkerStep, Files!CancelRuns, Files!Waits, Files!RemoveFiles,
     Files!DeleteRecords, Files!Verify, Files!Complete,
              Files!RecordFailure, Files!Fails, Files!WorkerDies, Files!Goes, Files!Frees
<1>4. CASE WorkerSteps(w)
  BY <1>4 DEF WorkerSteps, Files!WorkerStep, Files!CancelRuns, Files!Waits, Files!RemoveFiles,
     Files!DeleteRecords, Files!Verify, Files!Complete,
              Files!RecordFailure, Files!Fails, Files!WorkerDies, Files!Goes, Files!Frees
<1> QED BY <1>1, <1>2, <1>3, <1>4, StepKinds, EvidenceRests

\* A deletion is completed by a worker that has come to the last step.
LEMMA WhoCompletes ==
  ASSUME DeletionTypes, WorkersHaveDeletions, [Files!Next]_(Files!vars), NEW d \in Deletions,
         deletion[d].status # "completed", deletion'[d].status = "completed"
  PROVE  \E w \in Workers : worker[w].step = "complete"
<1> USE DEF DeletionTypes, Steps, Statuses
<1>1. UNCHANGED Files!deletionVars \/ UNCHANGED Files!vars => UNCHANGED deletion
  BY DEF Files!vars, Files!deletionVars
<1>2. ASSUME NEW b \in Deletions, \/ Files!RequestDeletion(b) \/ Files!Retry(b) \/ Files!LeaseExpires(b)
                                  \/ \E w \in Workers : Files!Claim(w, b)
      PROVE  deletion'[d].status # "completed"
  BY <1>2 DEF Files!RequestDeletion, Files!Retry, Files!LeaseExpires, Files!Claim
<1>3. ASSUME NEW w \in Workers, WorkerSteps(w) PROVE worker[w].step = "complete"
  <2>1. \/ UNCHANGED deletion
        \/ \E status \in {"queued", "failed"} : Files!SetDeletion(w, status)
        \/ deletion' = [deletion EXCEPT ![worker[w].of].lapsed = FALSE]
        \/ worker[w].step = "complete"
    BY <1>3 DEF WorkerSteps, Files!WorkerStep, Files!CancelRuns, Files!Waits, Files!RemoveFiles,
       Files!DeleteRecords, Files!Verify, Files!Complete,
                Files!RecordFailure, Files!Fails, Files!WorkerDies
  <2>2. ASSUME NEW status \in {"queued", "failed"}, Files!SetDeletion(w, status) PROVE FALSE
    BY <2>2 DEF Files!SetDeletion
  <2>3. ASSUME deletion' = [deletion EXCEPT ![worker[w].of].lapsed = FALSE] PROVE FALSE
    BY <2>3
  <2> QED BY <2>1, <2>2, <2>3
<1> QED BY <1>1, <1>2, <1>3, StepKinds, EvidenceRests DEF DeletionSteps

\* Every step keeps what was deleted deleted.
LEMMA GoneStep ==
  ASSUME FilesIInv, [Files!Next]_(Files!vars)
  PROVE  GoneIsEmpty' /\ DeletersKnow' /\ Files!CompletedMeansGone'
<1>0. EvidenceTypes /\ DeletionTypes /\ WorkersHaveDeletions /\ GoneIsEmpty /\ DeletersKnow /\ Files!CompletedMeansGone
  BY TypesTogether DEF FilesIInv
<1>1. caseStatus = "gone" => AfterGone
  BY <1>0, GoneStays
<1>2. ASSUME NEW w \in Workers, Files!DeleteRecords(w) PROVE caseStatus' = "gone" /\ rows' = {} /\ ~Files!Locked'
  BY <1>2 DEF Files!DeleteRecords, Files!Locked, Files!requestVars
<1>3. GoneIsEmpty'
  <2>1. CASE caseStatus = "gone"
    BY <1>1, <2>1 DEF AfterGone, GoneIsEmpty
  <2>2. CASE caseStatus # "gone"
    BY <1>2, <2>2, WhoDeletes DEF GoneIsEmpty
  <2> QED BY <2>1, <2>2
<1>4. DeletersKnow'
  <2>1. ASSUME NEW w \in Workers, worker'[w].step = "verify" PROVE caseStatus' = "gone"
    <3>1. worker[w].step = "verify" \/ Files!DeleteRecords(w)
      BY <1>0, <2>1, WorkersMove
    <3> QED BY <1>0, <1>1, <1>2, <3>1 DEF DeletersKnow, AfterGone
  <2>2. ASSUME NEW w \in Workers, worker'[w].step = "complete" PROVE caseStatus' = "gone" /\ Clean'
    <3>1. worker[w].step = "complete" \/ Files!Verify(w)
      BY <1>0, <2>2, WorkersMove
    <3>2. CASE worker[w].step = "complete"
      BY <1>0, <1>1, <3>2 DEF DeletersKnow, AfterGone, Clean
    <3>3. CASE Files!Verify(w)
      BY <1>0, <1>1, <3>3 DEF DeletersKnow, AfterGone, Clean, Files!Verify
    <3> QED BY <3>1, <3>2, <3>3
  <2> QED BY <2>1, <2>2 DEF DeletersKnow, Clean
<1>5. Files!CompletedMeansGone'
  <2> SUFFICES ASSUME NEW d \in Deletions, deletion'[d].status = "completed"
               PROVE  caseStatus' = "gone" /\ rows' = {} /\ Clean'
    BY DEF Files!CompletedMeansGone, Clean
  <2>1. caseStatus = "gone" /\ Clean
    <3>1. CASE deletion[d].status = "completed"
      BY <1>0, <3>1 DEF Files!CompletedMeansGone, Clean
    <3>2. CASE deletion[d].status # "completed"
      <4>1. PICK w \in Workers : worker[w].step = "complete"
        BY <1>0, <3>2, WhoCompletes
      <4> QED BY <1>0, <4>1 DEF DeletersKnow, Clean
    <3> QED BY <3>1, <3>2
  <2> QED BY <1>1, <2>1 DEF AfterGone
<1> QED BY <1>3, <1>4, <1>5

-----------------------------------------------------------------------------
(* The theorems.                                                           *)

\* The case as opened satisfies the invariant.
LEMMA FilesInit == ASSUME Files!CaseFilesAssumption, Files!Init PROVE FilesIInv
<1>1. Files!TypeOK
  <2>1. CaseTypes
    BY DEF Files!Init, CaseTypes, Files!CaseFilesAssumption
  <2>2. EvidenceTypes
    BY DEF Files!Init, EvidenceTypes, Files!Evidence, Files!NoScan
  <2>3. DeletionTypes
    BY DEF Files!Init, DeletionTypes, Steps, Statuses
  <2> QED BY <2>1, <2>2, <2>3, TypesTogether
<1>2. WorkersHaveDeletions /\ GoneIsEmpty /\ DeletersKnow /\ Files!CompletedMeansGone
  BY DEF Files!Init, WorkersHaveDeletions, GoneIsEmpty, DeletersKnow, Files!CompletedMeansGone
<1>3. ImportsHold
  BY DEF Files!Init, ImportsHold, Files!NoScan, Files!CaseFilesAssumption
<1>4. RunHolds
  BY DEF Files!Init, RunHolds, Files!NoScan, Files!CaseFilesAssumption
<1>5. ScanHolds /\ Files!RecordsHaveFiles
  BY DEF Files!Init, ScanHolds, Files!NoScan, Files!RecordsHaveFiles
<1> QED BY <1>1, <1>2, <1>3, <1>4, <1>5 DEF FilesIInv

\* Every step keeps the invariant.
LEMMA FilesStep ==
  ASSUME Files!CaseFilesAssumption, FilesIInv, [Files!Next]_(Files!vars)
  PROVE  FilesIInv'
<1>1. Files!TypeOK'
  <2>1. CaseTypes /\ EvidenceTypes /\ DeletionTypes /\ WorkersHaveDeletions
    BY TypesTogether DEF FilesIInv
  <2>2. CaseTypes' /\ EvidenceTypes' /\ DeletionTypes'
    BY <2>1, CaseTypesStep, EvidenceTypesStep, DeletionsStep
  <2> QED BY <2>2, TypesTogether DEF Files!TypeOK, CaseTypes, EvidenceTypes, DeletionTypes, Steps, Statuses
<1>2. WorkersHaveDeletions'
  <2>1. DeletionTypes /\ WorkersHaveDeletions
    BY TypesTogether DEF FilesIInv
  <2> QED BY <2>1, DeletionsStep
<1>3. Undeleted' => Hold'
  BY HoldStep
<1>4. Undeleted' => ImportsHold' /\ RunHolds' /\ ScanHolds'
  BY <1>3 DEF Hold
<1>5. Files!RecordsHaveFiles'
  BY <1>3 DEF Hold, Undeleted, Files!RecordsHaveFiles
<1>6. GoneIsEmpty' /\ DeletersKnow' /\ Files!CompletedMeansGone'
  BY GoneStep
<1> QED BY <1>1, <1>2, <1>4, <1>5, <1>6 DEF FilesIInv

\* The invariant always holds.
LEMMA FilesInvariance == ASSUME Files!CaseFilesAssumption PROVE Files!Spec => []FilesIInv
<1>1. Files!Init => FilesIInv
  BY FilesInit
<1>2. FilesIInv /\ [Files!Next]_(Files!vars) => FilesIInv'
  BY FilesStep
<1> QED BY <1>1, <1>2, PTL DEF Files!Spec

\* The types of the variables.
THEOREM FilesTypeCorrect == ASSUME Files!CaseFilesAssumption PROVE Files!Spec => []Files!TypeOK
<1>1. FilesIInv => Files!TypeOK
  BY DEF FilesIInv
<1> QED BY <1>1, FilesInvariance, PTL

-----------------------------------------------------------------------------
(* Accounts.                                                               *)

\* One request at a time has checked a change of an account and not yet committed it.
ChangesAreSerialized ==
  \A u, v \in Users :
    request[u].step = "account_checked" /\ request[v].step = "account_checked" => u = v

\* Whom the change of an account v leaves as active administrator.
Spares(v, role, active) ==
  v \in Accounts!Administrators /\ (role # "administrator" \/ ~active) =>
    \E other \in Accounts!Administrators \ {v} : account[other].active

\* What a request has checked is still so when it commits.
ChecksHold ==
  \A u \in Users : request[u].step = "account_checked" =>
    /\ request[u].on \in Users /\ request[u].role \in Accounts!Roles
    /\ Accounts!Exists(request[u].on)
    /\ Spares(request[u].on, request[u].role, request[u].active)

\* What a request that has checked a membership will write.
MembersHold ==
  \A u \in Users : request[u].step = "member_checked" =>
    request[u].on \in Users /\ request[u].role \in Accounts!MemberRoles \cup {"none"}

AccountsIInv == Accounts!TypeOK /\ Accounts!AdministratorRemains /\ ChangesAreSerialized /\ ChecksHold /\ MembersHold

-----------------------------------------------------------------------------
\* The accounts as installed satisfy the invariant.
LEMMA AccountsInit == Accounts!Init => AccountsIInv
  BY DEF Accounts!Init, AccountsIInv, Accounts!TypeOK, Accounts!AdministratorRemains,
     ChangesAreSerialized, ChecksHold, MembersHold,
         Accounts!Exists, Accounts!NoRequest

\* Changes of accounts are committed one at a time, and each leaves an active administrator.
LEMMA CommitAccountStep ==
  ASSUME AccountsIInv, NEW u \in Users, Accounts!CommitAccount(u)
  PROVE  AccountsIInv'
<1> DEFINE v == request[u].on
           changed == [role |-> request[u].role, active |-> request[u].active]
<1>1. /\ v \in Users /\ request[u].role \in Accounts!Roles /\ request[u].active \in BOOLEAN
      /\ Accounts!Exists(v) /\ Spares(v, request[u].role, request[u].active)
  BY DEF AccountsIInv, Accounts!TypeOK, ChecksHold, Accounts!CommitAccount
<1>2. /\ account' = [account EXCEPT ![v] = changed]
      /\ account'[v] = changed
      /\ \A x \in Users \ {v} : account'[x] = account[x]
  BY <1>1 DEF Accounts!CommitAccount, AccountsIInv, Accounts!TypeOK
<1>3. /\ request' = [request EXCEPT ![u] = Accounts!NoRequest] /\ UNCHANGED member
      /\ \A x \in Users \ {u} : request'[x] = request[x] /\ request[x].step # "account_checked"
      /\ request'[u] = Accounts!NoRequest
  BY DEF Accounts!CommitAccount, AccountsIInv, Accounts!TypeOK, ChangesAreSerialized
<1>4. Accounts!TypeOK'
  BY <1>1, <1>2, <1>3 DEF AccountsIInv, Accounts!TypeOK, Accounts!NoRequest
<1>5. Accounts!AdministratorRemains'
  <2>1. \E x \in Accounts!Administrators : account[x].active
    BY <1>1 DEF AccountsIInv, Accounts!AdministratorRemains
  <2>2. CASE changed.role = "administrator" /\ changed.active
    BY <1>1, <1>2, <2>2 DEF Accounts!AdministratorRemains, Accounts!Administrators
  <2>3. CASE ~(changed.role = "administrator" /\ changed.active)
    <3>1. PICK x \in Accounts!Administrators \ {v} : account[x].active
      BY <2>1, <2>3, <1>1 DEF Spares
    <3> QED
      BY <3>1, <1>2 DEF Accounts!AdministratorRemains, Accounts!Administrators
  <2> QED
    BY <2>2, <2>3
<1>6. ChangesAreSerialized' /\ ChecksHold' /\ MembersHold'
  <2>1. \A x \in Users : request'[x].step # "account_checked"
    BY <1>3 DEF Accounts!NoRequest
  <2>2. MembersHold'
    BY <1>3 DEF AccountsIInv, MembersHold, Accounts!NoRequest
  <2> QED
    BY <2>1, <2>2 DEF ChangesAreSerialized, ChecksHold
<1> QED
  BY <1>4, <1>5, <1>6 DEF AccountsIInv

\* A change that passes its check spares an administrator.
LEMMA CheckAccountStep ==
  ASSUME AccountsIInv, NEW u \in Users, NEW v \in Users, NEW role \in Accounts!Roles, NEW active \in BOOLEAN,
         Accounts!CheckAccount(u, v, role, active)
  PROVE  AccountsIInv'
<1> DEFINE checked == [step |-> "account_checked", on |-> v, role |-> role, active |-> active]
<1>1. /\ request' = [request EXCEPT ![u] = checked] /\ UNCHANGED <<account, member>>
      /\ \A x \in Users \ {u} : request'[x] = request[x] /\ request[x].step # "account_checked"
      /\ request'[u] = checked
      /\ Accounts!Exists(v) /\ Spares(v, role, active)
  BY DEF Accounts!CheckAccount, AccountsIInv, Accounts!TypeOK, Accounts!Serialized, Accounts!InFlight,
     Spares
<1>2. Accounts!TypeOK'
  BY <1>1 DEF AccountsIInv, Accounts!TypeOK
<1>3. Accounts!AdministratorRemains'
  BY <1>1 DEF AccountsIInv, Accounts!AdministratorRemains, Accounts!Administrators, Accounts!Exists
<1>4. ChangesAreSerialized' /\ MembersHold'
  BY <1>1 DEF AccountsIInv, ChangesAreSerialized, MembersHold
<1>5. ChecksHold'
  BY <1>1 DEF AccountsIInv, ChecksHold, Spares, Accounts!Administrators, Accounts!Exists
<1> QED
  BY <1>2, <1>3, <1>4, <1>5 DEF AccountsIInv

\* A new account takes no administrator away.
LEMMA NewAccountStep ==
  ASSUME AccountsIInv, NEW u \in Users, NEW role \in Accounts!Roles, ~Accounts!Exists(u),
         account' = [account EXCEPT ![u] = [role |-> role, active |-> TRUE]],
         role = "administrator" \/ Accounts!Administrators # {},
         member' \in [Users -> Accounts!MemberRoles \cup {"none"}], UNCHANGED request
  PROVE  AccountsIInv'
<1>1. /\ account'[u] = [role |-> role, active |-> TRUE]
      /\ \A x \in Users \ {u} : account'[x] = account[x]
      /\ account[u].role = "none"
  BY DEF AccountsIInv, Accounts!TypeOK, Accounts!Exists, Accounts!NoAccount
<1>2. Accounts!TypeOK'
  BY DEF AccountsIInv, Accounts!TypeOK
<1>3. \A x \in Accounts!Administrators : x # u /\ x \in Accounts!Administrators' /\ account'[x] = account[x]
  BY <1>1 DEF Accounts!Administrators
<1>4. Accounts!AdministratorRemains'
  <2>1. CASE role = "administrator"
    BY <2>1, <1>1 DEF Accounts!AdministratorRemains, Accounts!Administrators
  <2>2. CASE Accounts!Administrators # {}
    <3>1. \E x \in Users : Accounts!Exists(x)
      BY <2>2 DEF Accounts!Administrators, Accounts!Exists, Accounts!NoAccount
    <3> QED
      BY <3>1, <1>3 DEF AccountsIInv, Accounts!AdministratorRemains
  <2> QED
    BY <2>1, <2>2
<1>5. ChecksHold'
  <2> SUFFICES ASSUME NEW x \in Users, request'[x].step = "account_checked"
               PROVE  /\ request'[x].on \in Users /\ request'[x].role \in Accounts!Roles
                      /\ Accounts!Exists(request[x].on)'
                      /\ Spares(request[x].on, request[x].role, request[x].active)'
    BY DEF ChecksHold
  <2> DEFINE v == request[x].on
  <2>1. /\ v \in Users /\ request[x].role \in Accounts!Roles /\ Accounts!Exists(v)
        /\ Spares(v, request[x].role, request[x].active)
    BY DEF AccountsIInv, ChecksHold
  <2>2. v # u /\ (v \in Accounts!Administrators' => v \in Accounts!Administrators)
    BY <2>1, <1>1 DEF Accounts!Administrators
  <2> QED
    BY <2>1, <2>2, <1>1, <1>3 DEF Spares, Accounts!Exists
<1>6. ChangesAreSerialized' /\ MembersHold'
  BY DEF AccountsIInv, ChangesAreSerialized, MembersHold
<1> QED
  BY <1>2, <1>4, <1>5, <1>6 DEF AccountsIInv

\* The other steps of a request, which change no account.
LEMMA OtherRequestStep ==
  ASSUME AccountsIInv, UNCHANGED account, Accounts!TypeOK',
         \A x \in Users : request'[x] = request[x] \/ request'[x].step # "account_checked",
         MembersHold'
  PROVE  AccountsIInv'
<1>1. Accounts!AdministratorRemains'
  BY DEF AccountsIInv, Accounts!AdministratorRemains, Accounts!Administrators, Accounts!Exists
<1>2. ChangesAreSerialized'
  BY DEF AccountsIInv, ChangesAreSerialized
<1>3. ChecksHold'
  BY DEF AccountsIInv, ChecksHold, Spares, Accounts!Administrators, Accounts!Exists
<1> QED
  BY <1>1, <1>2, <1>3 DEF AccountsIInv

\* Every request and every transaction keeps the invariant.
LEMMA AccountsStep == AccountsIInv /\ [Accounts!Next]_(Accounts!vars) => AccountsIInv'
<1> SUFFICES ASSUME AccountsIInv, [Accounts!Next]_(Accounts!vars) PROVE AccountsIInv'
  OBVIOUS
<1>1. CASE UNCHANGED Accounts!vars
  BY <1>1 DEF Accounts!vars, AccountsIInv, Accounts!TypeOK, Accounts!AdministratorRemains,
     ChangesAreSerialized, ChecksHold, MembersHold,
              Spares, Accounts!Administrators, Accounts!Exists
<1>2. ASSUME NEW u \in Users, Accounts!Setup(u) PROVE AccountsIInv'
  <2>1. "administrator" \in Accounts!Roles /\ member' \in [Users -> Accounts!MemberRoles \cup {"none"}]
    BY <1>2 DEF Accounts!Setup, AccountsIInv, Accounts!TypeOK, Accounts!Roles, Accounts!MemberRoles
  <2> QED
    BY <1>2, <2>1, NewAccountStep DEF Accounts!Setup
<1>3. ASSUME NEW u \in Users, NEW role \in Accounts!Roles, Accounts!CreateAccount(u, role) PROVE AccountsIInv'
  <2>1. member' \in [Users -> Accounts!MemberRoles \cup {"none"}]
    BY <1>3 DEF Accounts!CreateAccount, AccountsIInv, Accounts!TypeOK
  <2> QED
    BY <1>3, <2>1, NewAccountStep DEF Accounts!CreateAccount
<1>4. ASSUME NEW u \in Users, NEW step \in {"member", "account"}, Accounts!Pass(u, step) PROVE AccountsIInv'
  <2>1. Accounts!TypeOK'
    BY <1>4 DEF Accounts!Pass, Accounts!NoRequest, AccountsIInv, Accounts!TypeOK, MembersHold
  <2>2. \A x \in Users : request'[x] = request[x] \/ request'[x].step # "account_checked"
    BY <1>4 DEF Accounts!Pass, Accounts!NoRequest, AccountsIInv, Accounts!TypeOK
  <2>3. MembersHold'
    BY <1>4 DEF Accounts!Pass, Accounts!NoRequest, AccountsIInv, Accounts!TypeOK, MembersHold
  <2>4. UNCHANGED account
    BY <1>4 DEF Accounts!Pass
  <2> QED
    BY <2>1, <2>2, <2>3, <2>4, OtherRequestStep
<1>5. ASSUME NEW u \in Users, NEW v \in Users, NEW role \in Accounts!MemberRoles \cup {"none"},
             Accounts!CheckMember(u, v, role) PROVE AccountsIInv'
  <2>1. Accounts!TypeOK'
    BY <1>5 DEF Accounts!CheckMember, Accounts!MemberRoles, Accounts!Roles, AccountsIInv,
       Accounts!TypeOK, MembersHold
  <2>2. \A x \in Users : request'[x] = request[x] \/ request'[x].step # "account_checked"
    BY <1>5 DEF Accounts!CheckMember, Accounts!NoRequest, AccountsIInv, Accounts!TypeOK
  <2>3. MembersHold'
    BY <1>5 DEF Accounts!CheckMember, Accounts!NoRequest, AccountsIInv, Accounts!TypeOK, MembersHold
  <2>4. UNCHANGED account
    BY <1>5 DEF Accounts!CheckMember
  <2> QED
    BY <2>1, <2>2, <2>3, <2>4, OtherRequestStep
<1>6. ASSUME NEW u \in Users, Accounts!CommitMember(u) PROVE AccountsIInv'
  <2>1. Accounts!TypeOK'
    BY <1>6 DEF Accounts!CommitMember, Accounts!NoRequest, AccountsIInv, Accounts!TypeOK, MembersHold
  <2>2. \A x \in Users : request'[x] = request[x] \/ request'[x].step # "account_checked"
    BY <1>6 DEF Accounts!CommitMember, Accounts!NoRequest, AccountsIInv, Accounts!TypeOK
  <2>3. MembersHold'
    BY <1>6 DEF Accounts!CommitMember, Accounts!NoRequest, AccountsIInv, Accounts!TypeOK, MembersHold
  <2>4. UNCHANGED account
    BY <1>6 DEF Accounts!CommitMember
  <2> QED
    BY <2>1, <2>2, <2>3, <2>4, OtherRequestStep
<1>7. ASSUME NEW u \in Users, Accounts!GiveUp(u) PROVE AccountsIInv'
  <2>1. Accounts!TypeOK'
    BY <1>7 DEF Accounts!GiveUp, Accounts!NoRequest, AccountsIInv, Accounts!TypeOK, MembersHold
  <2>2. \A x \in Users : request'[x] = request[x] \/ request'[x].step # "account_checked"
    BY <1>7 DEF Accounts!GiveUp, Accounts!NoRequest, AccountsIInv, Accounts!TypeOK
  <2>3. MembersHold'
    BY <1>7 DEF Accounts!GiveUp, Accounts!NoRequest, AccountsIInv, Accounts!TypeOK, MembersHold
  <2>4. UNCHANGED account
    BY <1>7 DEF Accounts!GiveUp
  <2> QED
    BY <2>1, <2>2, <2>3, <2>4, OtherRequestStep
<1> QED
  BY <1>1, <1>2, <1>3, <1>4, <1>5, <1>6, <1>7, CheckAccountStep, CommitAccountStep DEF Accounts!Next

\* Type correctness of accounts, memberships and requests.
THEOREM AccountsTypeCorrect == Accounts!Spec => []Accounts!TypeOK
<1>1. AccountsIInv => Accounts!TypeOK
  BY DEF AccountsIInv
<1> QED
  BY AccountsInit, AccountsStep, <1>1, PTL DEF Accounts!Spec

-----------------------------------------------------------------------------
(* The parts in MCWork.                                                    *)

\* The invariant of a part holds where it is the part at work.
CasesIInv ==
  /\ part = "files" => FilesIInv
  /\ part = "accounts" => AccountsIInv

\* Whichever part is chosen keeps its invariant; the steps of the others are not taken.
LEMMA CasesInvariance == Spec => []CasesIInv
<1>1. Init => CasesIInv
  BY WorkAssumption, FilesInit, AccountsInit DEF Init, CasesIInv
<1>2. ASSUME CasesIInv, [Next]_vars PROVE CasesIInv'
  <2>1. ASSUME part' = "files" PROVE FilesIInv'
    <3>1. CASE Next
      <4>1. part = "files" /\ Files!Next
        BY <3>1, <2>1 DEF Next, Is, NextDeliveries, NextJobs, NextFiles, NextAccounts, NextExchange
      <4> QED BY <4>1, <1>2, WorkAssumption, FilesStep DEF CasesIInv
    <3>2. CASE UNCHANGED vars
      <4>1. part = "files" /\ UNCHANGED Files!vars
        BY <3>2, <2>1 DEF vars, caseVars, Files!vars, Files!requestVars, Files!deletionVars
      <4> QED BY <4>1, <1>2, WorkAssumption, FilesStep DEF CasesIInv
    <3> QED BY <1>2, <3>1, <3>2
  <2>2. ASSUME part' = "accounts" PROVE AccountsIInv'
    <3>1. part = "accounts" /\ AccountsIInv /\ [Accounts!Next]_(Accounts!vars)
      BY <1>2, <2>2 DEF CasesIInv, Next, vars, Is, NextDeliveries, NextJobs, NextFiles, NextAccounts,
         NextExchange, Accounts!vars, accountVars
    <3> QED BY <3>1, AccountsStep
  <2> QED BY <2>1, <2>2 DEF CasesIInv
<1> QED BY <1>1, <1>2, PTL DEF Spec

\* Until somebody deletes the case every record has its file, except one whose own deletion failed
\* half-way: no import that fails, no late worker and no reconciliation takes the file of a record.
THEOREM RecordsAlwaysHaveFiles == Spec => []RecordsHaveFiles
<1>1. CasesIInv => RecordsHaveFiles
  BY DEF CasesIInv, FilesIInv, RecordsHaveFiles
<1> QED BY <1>1, CasesInvariance, PTL

\* A deletion reported as completed left no record and no file, except files that a straggler is about
\* to remove or a dead one left.
THEOREM CompletedAlwaysMeansGone == Spec => []CompletedMeansGone
<1>1. CasesIInv => CompletedMeansGone
  BY DEF CasesIInv, FilesIInv, CompletedMeansGone
<1> QED BY <1>1, CasesInvariance, PTL

\* An installation that was set up keeps an active administrator, whoever demotes or deactivates whom
\* at the same time (update_account).
THEOREM AdministratorRemainsAlways == Spec => []AdministratorRemains
<1>1. CasesIInv => AdministratorRemains
  BY DEF CasesIInv, AccountsIInv, AdministratorRemains
<1> QED BY <1>1, CasesInvariance, PTL
================================================================================
