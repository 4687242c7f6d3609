------------------------------- MODULE Deliveries -------------------------------
(***************************************************************************)
(* The delivery of one event of a monitor to one webhook destination: it   *)
(* is queued once however often the event is emitted, claimed with a       *)
(* lease, checked, sent and finished or tried again, while administrators  *)
(* and analysts change what it depends on.                                 *)
(***************************************************************************)
EXTENDS Naturals, Outbox

CONSTANTS
  Workers,
  MaxAttempts,  \* settings.notification_delivery_max_attempts
  MaxEmits,     \* bound: emissions of the event
  MaxFaults,    \* bound: workers that die with the delivery or are slower than its lease
  MaxEdits      \* bound: changes by administrators and analysts

DeliveriesAssumption ==
  MaxAttempts \in Nat \ {0} /\ {MaxEmits, MaxFaults, MaxEdits} \subseteq Nat

VARIABLES
  destination,  \* it is on, off, or does not accept the type of the event
  subscribed,   \* the monitor is subscribed to it; orphaned: by somebody who lost the role
  caseOpen,     \* the case is not being deleted
  delivery,     \* the row of notification_deliveries
  worker,       \* what each worker does
  emits, faults, edits

settingsVars == <<destination, subscribed, caseOpen, edits>>
vars == <<outboxVars, settingsVars, delivery, worker, emits, faults>>

NoDelivery == [status |-> "none", attempts |-> 0, token |-> 0, lapsed |-> FALSE, due |-> FALSE, bound |-> FALSE]
Idle == [step |-> "idle", token |-> 0, answer |-> "none"]
Removed == [NoDelivery EXCEPT !.status = "removed"]
Ended == {"delivered", "failed", "blocked"}

\* An attempt ends with an answer, of which there are MaxAttempts, or with a fault.
Attempts == 0 .. MaxAttempts + MaxFaults

TypeOK ==
  /\ OutboxTypeOK
  /\ destination \in {"on", "off", "other_types"} /\ subscribed \in {"yes", "no", "orphaned"} /\ caseOpen \in BOOLEAN
  /\ delivery \in [status : Ended \cup {"none", "pending", "removed"}, attempts : Attempts, token : Attempts,
                   lapsed : BOOLEAN, due : BOOLEAN, bound : BOOLEAN]
  /\ worker \in [Workers -> [step : {"idle", "claim", "check", "send", "finish"}, token : Attempts,
                             answer : {"none", "accepted", "refused", "retryable", "blocked"}]]

Init ==
  /\ OutboxInit
  /\ destination = "on" /\ subscribed = "yes" /\ caseOpen = TRUE /\ edits = 0
  /\ delivery = NoDelivery
  /\ worker = [w \in Workers |-> Idle]
  /\ emits = 0 /\ faults = 0

Goes(w, step, answer) == worker' = [worker EXCEPT ![w].step = step, ![w].answer = answer]

\* emit and _queue_deliveries: the unique index lets one delivery of an event through.
Emit ==
  /\ emits < MaxEmits /\ caseOpen
  /\ emits' = emits + 1
  /\ IF subscribed # "no" /\ destination = "on" /\ delivery.status = "none"
     THEN /\ delivery' = [NoDelivery EXCEPT !.status = "pending", !.due = TRUE, !.bound = TRUE]
          /\ Enqueue
     ELSE UNCHANGED <<delivery, outbox>>
  /\ UNCHANGED <<inbox, settingsVars, worker, faults>>

Receive(w) ==
  /\ worker[w].step = "idle"
  /\ TakeMessage
  /\ Goes(w, "claim", "none")
  /\ UNCHANGED <<outbox, settingsVars, delivery, emits, faults>>

Claimable ==
  delivery.status = "pending" /\ delivery.due /\ (delivery.token = 0 \/ delivery.lapsed)

\* _claim.  The number of the attempt stands for its fresh token.
Claim(w) ==
  /\ worker[w].step = "claim"
  /\ IF Claimable
     THEN /\ delivery' = [delivery EXCEPT !.attempts = @ + 1, !.token = delivery.attempts + 1, !.lapsed = FALSE]
          /\ worker' = [worker EXCEPT ![w].step = "check", ![w].token = delivery.attempts + 1]
     ELSE Goes(w, "idle", "none") /\ UNCHANGED delivery
  /\ UNCHANGED <<outboxVars, settingsVars, emits, faults>>

\* _blocker.
Blocked == destination # "on" \/ ~delivery.bound \/ subscribed # "yes" \/ ~caseOpen

\* deliver, until it waits for its pace; an unreadable or leaking secret blocks at any time.  A
\* delivery that is removed meanwhile ends the task.
Check(w) ==
  /\ worker[w].step = "check"
  /\ \/ delivery.status = "removed" /\ Goes(w, "idle", "none")
     \/ delivery.status # "removed" /\ Goes(w, "finish", "blocked")
     \/ ~Blocked /\ Goes(w, "send", "none")
  /\ UNCHANGED <<outboxVars, settingsVars, delivery, emits, faults>>

\* The request; nothing is looked at again before it.
Send(w) ==
  /\ worker[w].step = "send"
  /\ \E answer \in {"accepted", "refused", "retryable", "blocked"} : Goes(w, "finish", answer)
  /\ UNCHANGED <<outboxVars, settingsVars, delivery, emits, faults>>

\* Mutant: whoever finishes does so whatever token the row has.
HoldsAnything(w) == delivery.status # "removed"

Holds(w) == delivery.status # "removed" /\ delivery.token = worker[w].token

Retry ==
  /\ delivery' = [delivery EXCEPT !.token = 0, !.lapsed = FALSE, !.due = FALSE]
  /\ Enqueue

End(status) ==
  /\ delivery' = [delivery EXCEPT !.status = status, !.token = 0, !.lapsed = FALSE]
  /\ MarkDone

\* _finish.
Finish(w) ==
  /\ worker[w].step = "finish"
  /\ worker' = [worker EXCEPT ![w] = Idle]
  /\ IF ~Holds(w) THEN UNCHANGED <<delivery, outbox>>
     ELSE CASE worker[w].answer = "accepted" -> End("delivered")
            [] worker[w].answer = "blocked" -> End("blocked")
            [] worker[w].answer = "refused" -> End("failed")
            [] worker[w].answer = "retryable" ->
                 IF delivery.attempts < MaxAttempts THEN Retry ELSE End("failed")
  /\ UNCHANGED <<inbox, settingsVars, emits, faults>>

\* The retry's time comes.
BecomesDue ==
  /\ delivery.status = "pending" /\ ~delivery.due
  /\ delivery' = [delivery EXCEPT !.due = TRUE]
  /\ UNCHANGED <<outboxVars, settingsVars, worker, emits, faults>>

Held == \E w \in Workers : worker[w].step # "idle" /\ worker[w].token = delivery.token

\* The lease of a worker that died ends; one that waits for its pace or an answer may outlive it.
LeaseExpires ==
  /\ delivery.token # 0 /\ ~delivery.lapsed
  /\ delivery' = [delivery EXCEPT !.lapsed = TRUE]
  /\ IF Held THEN faults < MaxFaults /\ faults' = faults + 1 ELSE UNCHANGED faults
  /\ UNCHANGED <<outboxVars, settingsVars, worker, emits>>

Crash(w) ==
  /\ worker[w].step # "idle"
  /\ faults < MaxFaults
  /\ faults' = faults + 1
  /\ worker' = [worker EXCEPT ![w] = Idle]
  /\ UNCHANGED <<outboxVars, settingsVars, delivery, emits>>

-----------------------------------------------------------------------------
(* Administrators, analysts and housekeeping.                              *)

\* update_destination (another receiver is off until it is enabled again), _toggle.
EditDestination ==
  /\ edits < MaxEdits
  /\ destination' \in {"on", "off", "other_types"} \ {destination}
  /\ edits' = edits + 1
  /\ UNCHANGED <<outboxVars, subscribed, caseOpen, delivery, worker, emits, faults>>

\* delete_destination: its subscriptions and deliveries go with it, the outbox row stays.
DeleteDestination ==
  /\ edits < MaxEdits
  /\ edits' = edits + 1
  /\ destination' = "off" /\ subscribed' = "no"
  /\ delivery' = Removed
  /\ UNCHANGED <<outboxVars, caseOpen, worker, emits, faults>>

\* delete_subscription: its deliveries stay without one, also when there is another.
Unsubscribe ==
  /\ subscribed # "no" /\ edits < MaxEdits
  /\ edits' = edits + 1
  /\ subscribed' = "no"
  /\ delivery' = [delivery EXCEPT !.bound = FALSE]
  /\ UNCHANGED <<outboxVars, destination, caseOpen, worker, emits, faults>>

\* Who subscribed loses the role.
Orphan ==
  /\ subscribed = "yes" /\ edits < MaxEdits
  /\ edits' = edits + 1
  /\ subscribed' = "orphaned"
  /\ UNCHANGED <<outboxVars, destination, caseOpen, delivery, worker, emits, faults>>

\* create_subscription, or the change of the one there is.
Subscribe ==
  /\ subscribed # "yes" /\ edits < MaxEdits
  /\ destination = "on" /\ caseOpen
  /\ edits' = edits + 1
  /\ subscribed' = "yes"
  /\ UNCHANGED <<outboxVars, destination, caseOpen, delivery, worker, emits, faults>>

CloseCase ==
  /\ caseOpen
  /\ caseOpen' = FALSE
  /\ UNCHANGED <<outboxVars, destination, subscribed, edits, delivery, worker, emits, faults>>

\* prune, long after the event.
Prune ==
  /\ delivery.status \in Ended /\ emits = MaxEmits
  /\ delivery' = Removed
  /\ UNCHANGED <<outboxVars, settingsVars, worker, emits, faults>>

Dispatch ==
  /\ \/ Publish
     \/ RequeueLeaseFree
     \/ LoseMessage
  /\ UNCHANGED <<settingsVars, delivery, worker, emits, faults>>

WorkerStep(w) == Claim(w) \/ Check(w) \/ Send(w) \/ Finish(w)

Next ==
  \/ \E w \in Workers : Receive(w) \/ WorkerStep(w) \/ Crash(w)
  \/ Dispatch \/ BecomesDue \/ LeaseExpires \/ Emit
  \/ EditDestination \/ DeleteDestination \/ Unsubscribe \/ Orphan \/ Subscribe \/ CloseCase \/ Prune

Spec == Init /\ [][Next]_vars

\* The dispatcher goes on, and sends a message that the broker does not lose (of the fairness).
DispatchAgain ==
  /\ RequeueLeaseFree \/ (Publish /\ outbox' = "dispatched")
  /\ UNCHANGED <<settingsVars, delivery, worker, emits, faults>>

-----------------------------------------------------------------------------
(* Properties.                                                             *)

\* The outcome of a delivery is final: a worker whose lease ended while it waited for its pace or for
\* the receiver neither overwrites it nor puts the delivery back.
EndedDeliveriesStay == delivery.status \in Ended => delivery'.status \in {delivery.status, "removed"}
================================================================================
