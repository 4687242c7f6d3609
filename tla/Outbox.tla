--------------------------------- MODULE Outbox ---------------------------------
(***************************************************************************)
(* The row of dispatch_outbox of one piece of work, and its messages.      *)
(* Whoever makes work enqueues its row in the same transaction; the        *)
(* dispatcher publishes pending rows and arms again those whose message,   *)
(* or whose worker, must have been lost.  A message only says "look".      *)
(***************************************************************************)
VARIABLES
  outbox,       \* the status of the row
  inbox         \* at least one copy of the message waits

outboxVars == <<outbox, inbox>>

OutboxTypeOK == outbox \in {"none", "pending", "dispatched", "done"} /\ inbox \in BOOLEAN

OutboxInit == outbox = "none" /\ inbox = FALSE

\* enqueue: inserts the row or arms it again.
Enqueue == outbox' = "pending"

\* mark_done.
MarkDone == outbox' = IF outbox = "none" THEN "none" ELSE "done"

\* publish: the message is sent before the transaction commits, which may fail.
Publish ==
  /\ outbox = "pending"
  /\ outbox' \in {"dispatched", "pending"}
  /\ inbox' = TRUE

\* A message is delivered once, or, while it is not acknowledged, again.
TakeMessage == inbox /\ inbox' \in BOOLEAN

LoseMessage == inbox /\ inbox' = FALSE /\ UNCHANGED outbox

\* requeue_stale: work that nobody holds, whatever its row says.
Requeue(stale) ==
  /\ stale
  /\ outbox \in {"dispatched", "done"}
  /\ outbox' = "pending"
  /\ UNCHANGED inbox

\* _requeue_lease_free: a row that was dispatched long ago.
RequeueLeaseFree == outbox = "dispatched" /\ outbox' = "pending" /\ UNCHANGED inbox
================================================================================
