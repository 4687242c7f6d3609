-------------------------------- MODULE Budgets --------------------------------
(***************************************************************************)
(* The request budgets of one case: ledgers of reserved, consumed and      *)
(* estimated units, one per budget and period; the reservations a request  *)
(* holds on them; connector runs that acquire, send and settle; crashes,   *)
(* late settlement, expiry by the dispatcher; limits edited meanwhile.     *)
(*                                                                         *)
(* acquire, settle, expire_stale and set_budgets are one transaction each. *)
(* Each locks the rows it changes, so it is one action; a refusal is       *)
(* recorded in a second transaction and is a second action.                *)
(***************************************************************************)
EXTENDS Naturals, FiniteSets

CONSTANTS
  NumBudgets,   \* budgets of the case, numbered in the order acquire sorts them
  RunBudgets,   \* those of scope query_run: one period, a limit fixed by the snapshot
  ProviderUnits, \* those of metric provider_units: always estimates
  Collectors,   \* connector runs being executed, each by one worker
  Tickets,      \* requests that can be made
  Requests,     \* what a request may need: units of each budget
  EngineRequests, \* those of an engine that sends requests of its own: estimates
  Limits,       \* what an analyst may configure: limits, NoLimit
  Initial,      \* those configured at first
  NoLimit,      \* the budget is not configured
  NoTicket,
  MaxPeriod,    \* bound: periods that may begin
  MaxRefusals   \* bound: refused requests

Budgets == 1 .. NumBudgets
Periods == 0 .. MaxPeriod

ASSUME BudgetsAssumption ==
  /\ NumBudgets \in Nat \ {0}
  /\ RunBudgets \subseteq Budgets
  /\ Requests \subseteq [Budgets -> Nat]
  /\ EngineRequests \subseteq Requests
  /\ NoLimit \notin Nat
  /\ Limits \subseteq Nat \cup {NoLimit}
  /\ Initial \in [Budgets -> Nat \cup {NoLimit}]
  /\ NoTicket \notin Tickets
  /\ IsFiniteSet(Tickets)
  /\ ProviderUnits \subseteq Budgets
  /\ MaxPeriod \in Nat
  /\ MaxRefusals \in Nat

VARIABLES
  now,         \* the current period
  configured,  \* case_budgets.limit_units, monitors.budget, limits.max_requests
  ledger,      \* budget_ledgers: one row per budget and period
  required,    \* _Budget.requirements of a connector run: the limits it read
  at,          \* where a connector run stands
  ticket,      \* its request
  refusal,     \* the ledger whose refusal it still has to record
  need,        \* the units of a request
  hold,        \* budget_reservations.status of a request on each budget
  since,       \* the period in which it was granted
  sent,        \* history: whether the request left the installation, and was then redirected
               \* to a destination that is refused
  refusals     \* how many requests were refused, for the bound

workerVars == <<required, at, ticket, refusal>>
requestVars == <<need, hold, since, sent>>
vars == <<now, configured, ledger, workerVars, requestVars, refusals>>

-----------------------------------------------------------------------------
Limit == Nat \cup {NoLimit}
Status == {"none", "held", "settled", "released", "expired"}
Step == {"start", "ready", "granted", "answered", "blocked", "refused", "over"}
NoRow == [exists |-> FALSE, limit |-> 0, reserved |-> 0, consumed |-> 0, estimated |-> 0,
          denied |-> 0]
Row == [exists : BOOLEAN, limit : Nat, reserved : Nat, consumed : Nat, estimated : Nat,
        denied : Nat]
NoRefusal == <<0, 0>>
Departure == {"no", "yes", "redirected"}

TypeOK ==
  /\ now \in Periods
  /\ configured \in [Budgets -> Limit]
  /\ ledger \in [Budgets -> [Periods -> Row]]
  /\ required \in [Collectors -> [Budgets -> Limit]]
  /\ at \in [Collectors -> Step]
  /\ ticket \in [Collectors -> Tickets \cup {NoTicket}]
  /\ refusal \in [Collectors -> (Budgets \X Periods) \cup {NoRefusal}]
  /\ need \in [Tickets -> [Budgets -> Nat]]
  /\ hold \in [Tickets -> [Budgets -> Status]]
  /\ since \in [Tickets -> Periods]
  /\ sent \in [Tickets -> Departure]
  /\ refusals \in Nat

\* period_bounds: the start of the period that budget b is in during period p.
Start(b, p) == IF b \in RunBudgets THEN 0 ELSE p

\* Units that count against the limit.
Total(row) == row.reserved + row.consumed + row.estimated

Unused(t) == \A b \in Budgets : hold[t][b] = "none"

-----------------------------------------------------------------------------
Init ==
  /\ now = 0
  /\ configured = Initial
  /\ ledger = [b \in Budgets |-> [p \in Periods |-> NoRow]]
  /\ required = [c \in Collectors |-> [b \in Budgets |-> NoLimit]]
  /\ at = [c \in Collectors |-> "start"]
  /\ ticket = [c \in Collectors |-> NoTicket]
  /\ refusal = [c \in Collectors |-> NoRefusal]
  /\ need = [t \in Tickets |-> [b \in Budgets |-> 0]]
  /\ hold = [t \in Tickets |-> [b \in Budgets |-> "none"]]
  /\ since = [t \in Tickets |-> 0]
  /\ sent = [t \in Tickets |-> "no"]
  /\ refusals = 0

-----------------------------------------------------------------------------
(* The analyst and the clock.                                              *)

\* set_budgets, update_monitor: the setting and, if there is one, the ledger of the current
\* period.  A removed budget leaves its ledger as it is.
SetLimit(b, limit) ==
  /\ b \notin RunBudgets
  /\ configured' = [configured EXCEPT ![b] = limit]
  /\ ledger' = IF limit # NoLimit /\ ledger[b][now].exists
               THEN [ledger EXCEPT ![b][now].limit = limit] ELSE ledger
  /\ UNCHANGED <<now, workerVars, requestVars, refusals>>

BeginPeriod ==
  /\ now < MaxPeriod
  /\ now' = now + 1
  /\ UNCHANGED <<configured, ledger, workerVars, requestVars, refusals>>

-----------------------------------------------------------------------------
(* A connector run.                                                        *)

\* _execute_connector reads the requirements once, for all its requests.
ReadRequirements(c) ==
  /\ at[c] = "start"
  /\ required' = [required EXCEPT ![c] = configured]
  /\ at' = [at EXCEPT ![c] = "ready"]
  /\ UNCHANGED <<now, configured, ledger, ticket, refusal, requestVars, refusals>>

\* The budgets that limit a request of these units.
Applicable(c, units) == {b \in Budgets : units[b] > 0 /\ required[c][b] # NoLimit}

\* _ensure_ledger: the row of the period, carrying the limit this connector run read.
Ensured(c, b) == [ledger[b][Start(b, now)] EXCEPT !.exists = TRUE, !.limit = required[c][b]]

\* Mutant: requests in flight are not counted.
HasRoomBesidesReserved(c, b, units) ==
  LET row == Ensured(c, b) IN row.consumed + row.estimated + units[b] <= row.limit

HasRoom(c, b, units) ==
  LET row == Ensured(c, b) IN Total(row) + units[b] <= row.limit

\* acquire, granted: units reserved on every applicable ledger.
Acquire(c, t, units) ==
  /\ at[c] = "ready"
  /\ Unused(t)
  /\ Applicable(c, units) # {}
  /\ \A b \in Applicable(c, units) : HasRoom(c, b, units)
  /\ ledger' = [b \in Budgets |->
       IF b \in Applicable(c, units)
       THEN [ledger[b] EXCEPT ![Start(b, now)] =
               [Ensured(c, b) EXCEPT !.reserved = @ + units[b]]]
       ELSE ledger[b]]
  /\ hold' = [hold EXCEPT ![t] = [b \in Budgets |->
       IF b \in Applicable(c, units) THEN "held" ELSE "none"]]
  /\ need' = [need EXCEPT ![t] = units]
  /\ since' = [since EXCEPT ![t] = now]
  /\ ticket' = [ticket EXCEPT ![c] = t]
  /\ at' = [at EXCEPT ![c] = "granted"]
  /\ UNCHANGED <<now, configured, required, refusal, sent, refusals>>

\* acquire, refused: the transaction is rolled back, with the limit it wrote and any row it
\* inserted; the first ledger without room is the one to blame.
Refuse(c, units) ==
  /\ at[c] = "ready"
  /\ refusals < MaxRefusals
  /\ \E b \in Applicable(c, units) :
       /\ ~HasRoom(c, b, units)
       /\ \A d \in Applicable(c, units) : d < b => HasRoom(c, d, units)
       /\ refusal' = [refusal EXCEPT ![c] =
                        IF ledger[b][Start(b, now)].exists THEN <<b, Start(b, now)>>
                        ELSE NoRefusal]
  /\ refusals' = refusals + 1
  /\ at' = [at EXCEPT ![c] = "refused"]
  /\ UNCHANGED <<now, configured, ledger, required, ticket, requestVars>>

\* The second transaction of a refusal: an update by the ledger's id.
RecordRefusal(c) ==
  /\ at[c] = "refused"
  /\ ledger' = IF refusal[c] = NoRefusal THEN ledger
               ELSE [ledger EXCEPT ![refusal[c][1]][refusal[c][2]].denied = @ + 1]
  /\ refusal' = [refusal EXCEPT ![c] = NoRefusal]
  /\ at' = [at EXCEPT ![c] = "over"]
  /\ UNCHANGED <<now, configured, required, ticket, requestVars, refusals>>

\* netguard.fetch: the request leaves, and is answered or fails; its destination is refused
\* before; or it leaves and the answer redirects it to a destination that is refused, which
\* raises the error of a request that never left.
Send(c) ==
  /\ at[c] = "granted"
  /\ \/ /\ sent' = [sent EXCEPT ![ticket[c]] = "yes"]
        /\ at' = [at EXCEPT ![c] = "answered"]
     \/ /\ at' = [at EXCEPT ![c] = "blocked"]
        /\ UNCHANGED sent
     \/ /\ sent' = [sent EXCEPT ![ticket[c]] = "redirected"]
        /\ at' = [at EXCEPT ![c] = "blocked"]
  /\ UNCHANGED <<now, configured, ledger, required, ticket, refusal, need, hold, since, refusals>>

\* A row after one of its reservations, of n units, was settled or expired.
Released(row, n) == [row EXCEPT !.reserved = @ - n]
Consumed(row, n) == [row EXCEPT !.reserved = @ - n, !.consumed = @ + n]
\* Mutants: the units of a lost request are given back, or stay reserved as well.
EstimatedAsReleased(row, n) == [row EXCEPT !.reserved = @ - n]
EstimatedAndReserved(row, n) == [row EXCEPT !.estimated = @ + n]

Estimated(row, n) == [row EXCEPT !.reserved = @ - n, !.estimated = @ + n]

IsEstimate(t, b) == need[t] \in EngineRequests \/ b \in ProviderUnits

\* Mutant: settle takes every reservation of the request.
HeldOnce(t) == {b \in Budgets : hold[t][b] # "none"}

Held(t) == {b \in Budgets : hold[t][b] = "held"}

\* settle: only reservations still held change.  Requests are measured; the documented costs
\* of an API, and everything an engine asks for, are estimates.
Settle(c) ==
  /\ at[c] \in {"answered", "blocked"}
  /\ LET t == ticket[c] IN
     /\ ledger' = [b \in Budgets |->
          IF b \notin Held(t) THEN ledger[b]
          ELSE [ledger[b] EXCEPT ![Start(b, since[t])] =
                  IF at[c] = "blocked" THEN Released(@, need[t][b])
                  ELSE IF IsEstimate(t, b) THEN Estimated(@, need[t][b])
                  ELSE Consumed(@, need[t][b])]]
     /\ hold' = [hold EXCEPT ![t] = [b \in Budgets |->
          IF b \notin Held(t) THEN hold[t][b]
          ELSE IF at[c] = "blocked" THEN "released" ELSE "settled"]]
  /\ ticket' = [ticket EXCEPT ![c] = NoTicket]
  /\ at' = [at EXCEPT ![c] = "ready"]
  /\ UNCHANGED <<now, configured, required, refusal, need, since, sent, refusals>>

\* The worker dies or ends the connector run; the run is executed again from the start.
Restart(c) ==
  /\ at[c] # "start"
  /\ at' = [at EXCEPT ![c] = "start"]
  /\ ticket' = [ticket EXCEPT ![c] = NoTicket]
  /\ refusal' = [refusal EXCEPT ![c] = NoRefusal]
  /\ UNCHANGED <<now, configured, ledger, required, requestVars, refusals>>

\* expire_stale: one reservation whose hold has run out.  Its request's others may be locked
\* by a settlement, or beyond the batch.
Expire(t, b) ==
  /\ hold[t][b] = "held"
  /\ hold' = [hold EXCEPT ![t][b] = "expired"]
  /\ ledger' = [ledger EXCEPT ![b][Start(b, since[t])] = Estimated(@, need[t][b])]
  /\ UNCHANGED <<now, configured, workerVars, need, since, sent, refusals>>

Next ==
  \/ \E b \in Budgets, limit \in Limits : SetLimit(b, limit)
  \/ BeginPeriod
  \/ \E c \in Collectors :
       \/ ReadRequirements(c) \/ RecordRefusal(c) \/ Send(c) \/ Settle(c) \/ Restart(c)
       \/ \E units \in Requests : \/ Refuse(c, units)
                                  \/ \E t \in Tickets : Acquire(c, t, units)
  \/ \E t \in Tickets, b \in Budgets : Expire(t, b)

Spec == Init /\ [][Next]_vars

-----------------------------------------------------------------------------
\* How many units the requests in S have on budget b in period p, each unit counted by itself.
UnitsOf(S, b, p) ==
  Cardinality(UNION {{t} \X (1 .. need[t][b]) :
                       t \in {u \in S : hold[u][b] # "none" /\ Start(b, since[u]) = p}})

\* The counters of every ledger are the sums of its reservations: no settlement, late or
\* repeated, and no expiry is counted twice or lost, and none is negative.
LedgersAddUp ==
  \A b \in Budgets, p \in Periods :
    /\ ledger[b][p].reserved = UnitsOf({t \in Tickets : hold[t][b] = "held"}, b, p)
    /\ ledger[b][p].consumed + ledger[b][p].estimated
         = UnitsOf({t \in Tickets : hold[t][b] \in {"settled", "expired"}}, b, p)

\* Whatever crashed, came late or was given up: a request that left the installation, and was
\* not redirected to a destination that is refused, stays counted in the period in which it was
\* granted.  One that was redirected so is released, although connectors/http.py:44-46 says that
\* what is released never left.
SentIsCounted ==
  \A b \in Budgets, p \in Periods :
    UnitsOf({t \in Tickets : sent[t] = "yes"}, b, p) <= Total(ledger[b][p])

\* Concurrent requests never spend the same remaining units: the use of a ledger only grows
\* by a reservation that its limit, as it stands, has room for.
WithinTheLimit ==
  [][\A b \in Budgets, p \in Periods :
       Total(ledger[b][p]') > Total(ledger[b][p]) =>
         Total(ledger[b][p]') <= ledger[b][p].limit']_vars

\* A reservation ends once; what a crashed or late worker does later changes nothing.
EndsOnce ==
  [][\A t \in Tickets, b \in Budgets :
       hold[t][b] \in {"settled", "released", "expired"} => UNCHANGED hold[t][b]]_vars
================================================================================
