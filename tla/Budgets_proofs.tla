---------------------------- MODULE Budgets_proofs ----------------------------
(***************************************************************************)
(* Of Budgets, for any number of budgets, collectors, requests and         *)
(* periods: a ledger only grows within its limit, a reservation ends once, *)
(* the counters are the sums of the reservations, and a request that left  *)
(* stays counted.                                                          *)
(*                                                                         *)
(* The first two are properties of single steps and rest on Shape, the     *)
(* types.  Shape leaves what is reserved in Int: that it is never negative *)
(* follows from the sums.  A sum is the number of units of a set of        *)
(* requests, each unit counted by itself, so that granting or ending one   *)
(* request adds or takes away as many elements as it needs.  That a        *)
(* request that left is among those held or charged needs SentFollows: its *)
(* reservations are given back only by the one connector run that has it,  *)
(* and only if it was refused before it left.                              *)
(***************************************************************************)
EXTENDS Budgets, Integers, FiniteSetTheorems, TLAPS

\* A row before it is known that no release takes away more than was reserved.
IntRow == [exists : BOOLEAN, limit : Nat, reserved : Int, consumed : Nat, estimated : Nat,
           denied : Nat]

Ledgers == [Budgets -> [Periods -> IntRow]]

InFlight(c) == at[c] \in {"granted", "answered", "blocked"}

\* The inductive invariant.
Shape ==
  /\ now \in Periods
  /\ configured \in [Budgets -> Limit]
  /\ ledger \in Ledgers
  /\ required \in [Collectors -> [Budgets -> Limit]]
  /\ at \in [Collectors -> Step]
  /\ ticket \in [Collectors -> Tickets \cup {NoTicket}]
  /\ refusal \in [Collectors -> (Budgets \X Periods) \cup {NoRefusal}]
  /\ need \in [Tickets -> [Budgets -> Nat]]
  /\ hold \in [Tickets -> [Budgets -> Status]]
  /\ since \in [Tickets -> Periods]
  /\ sent \in [Tickets -> Departure]
  /\ refusals \in Nat
  /\ \A c \in Collectors : InFlight(c) => ticket[c] \in Tickets

-----------------------------------------------------------------------------
(* Rows.                                                                   *)

\* The period a budget is in is one of the periods.
LEMMA StartIsAPeriod ==
  ASSUME NEW b \in Budgets, NEW p \in Periods
  PROVE  Start(b, p) \in Periods
BY BudgetsAssumption DEF Start, Periods

\* Settling or expiring a reservation keeps a row a row, adds nothing to its total and leaves
\* its limit alone.
LEMMA RowAfterEnd ==
  ASSUME NEW row \in IntRow, NEW n \in Nat
  PROVE  /\ Released(row, n) \in IntRow
         /\ Consumed(row, n) \in IntRow
         /\ Estimated(row, n) \in IntRow
         /\ Total(Released(row, n)) <= Total(row)
         /\ Total(Consumed(row, n)) = Total(row)
         /\ Total(Estimated(row, n)) = Total(row)
<1>1. row.reserved \in Int /\ row.consumed \in Nat /\ row.estimated \in Nat
  BY DEF IntRow
<1>2. /\ row.reserved - n \in Int /\ row.consumed + n \in Nat /\ row.estimated + n \in Nat
      /\ row.reserved - n <= row.reserved
  BY <1>1
<1>3. /\ Released(row, n) \in IntRow
      /\ Released(row, n).reserved = row.reserved - n
      /\ Released(row, n).consumed = row.consumed
      /\ Released(row, n).estimated = row.estimated
  BY <1>2 DEF Released, IntRow
<1>4. /\ Consumed(row, n) \in IntRow
      /\ Consumed(row, n).reserved = row.reserved - n
      /\ Consumed(row, n).consumed = row.consumed + n
      /\ Consumed(row, n).estimated = row.estimated
  BY <1>2 DEF Consumed, IntRow
<1>5. /\ Estimated(row, n) \in IntRow
      /\ Estimated(row, n).reserved = row.reserved - n
      /\ Estimated(row, n).consumed = row.consumed
      /\ Estimated(row, n).estimated = row.estimated + n
  BY <1>2 DEF Estimated, IntRow
<1> QED
  BY <1>1, <1>2, <1>3, <1>4, <1>5 DEF Total

\* Replacing one row of the ledgers by a row gives ledgers.
LEMMA LedgersUpdate ==
  ASSUME NEW L \in Ledgers, NEW b \in Budgets, NEW p \in Periods, NEW row \in IntRow
  PROVE  [L EXCEPT ![b][p] = row] \in Ledgers
BY DEF Ledgers

-----------------------------------------------------------------------------
(* The invariant.                                                          *)

\* The invariant holds initially.
LEMMA InitShape == Init => Shape
<1> SUFFICES ASSUME Init PROVE Shape
  OBVIOUS
<1>1. NoRow \in IntRow
  BY DEF NoRow, IntRow
<1>2. 0 \in Periods
  BY BudgetsAssumption DEF Periods
<1> QED
  BY BudgetsAssumption, <1>1, <1>2
  DEF Init, Shape, Ledgers, Limit, Step, Status, Departure, InFlight

\* A limit is a natural number wherever it is not NoLimit; editing one keeps the shape.
LEMMA SetLimitShape ==
  ASSUME Shape, NEW b \in Budgets, NEW limit \in Limits, SetLimit(b, limit)
  PROVE  Shape'
<1>1. limit \in Limit /\ (limit # NoLimit => limit \in Nat) /\ now \in Periods
  BY BudgetsAssumption DEF Limit, Shape
<1>2. ledger' \in Ledgers
  <2>1. ledger[b][now] \in IntRow
    BY <1>1 DEF Shape, Ledgers
  <2>2. CASE limit # NoLimit /\ ledger[b][now].exists
    <3>1. [ledger[b][now] EXCEPT !.limit = limit] \in IntRow
      BY <1>1, <2>1, <2>2 DEF IntRow
    <3>2. ledger' = [ledger EXCEPT ![b][now] = [ledger[b][now] EXCEPT !.limit = limit]]
      BY <2>2 DEF SetLimit
    <3> QED BY <1>1, <3>1, <3>2, LedgersUpdate DEF Shape
  <2>3. CASE ~(limit # NoLimit /\ ledger[b][now].exists)
    BY <2>3 DEF SetLimit, Shape
  <2> QED BY <2>2, <2>3
<1>3. configured' \in [Budgets -> Limit]
  BY <1>1 DEF SetLimit, Shape
<1> QED BY <1>2, <1>3 DEF SetLimit, Shape, workerVars, requestVars, InFlight

\* The row _ensure_ledger leaves for an applicable budget is a row with the limit that was
\* read, and the one a grant leaves is within it.
LEMMA GrantedRow ==
  ASSUME Shape, NEW c \in Collectors, NEW units \in Requests,
         NEW b \in Applicable(c, units)
  PROVE  LET row == Ensured(c, b)
             new == [row EXCEPT !.reserved = @ + units[b]] IN
         /\ b \in Budgets
         /\ row \in IntRow /\ new \in IntRow
         /\ new.limit = row.limit
         /\ Total(new) = Total(row) + units[b]
<1> DEFINE row == Ensured(c, b)
           new == [row EXCEPT !.reserved = @ + units[b]]
<1>1. b \in Budgets /\ required[c][b] \in Nat /\ units[b] \in Nat
  BY BudgetsAssumption DEF Applicable, Shape, Limit
<1>2. ledger[b][Start(b, now)] \in IntRow
  BY <1>1, StartIsAPeriod DEF Shape, Ledgers
<1>3. row \in IntRow
  BY <1>1, <1>2 DEF Ensured, IntRow
<1>4. row.reserved + units[b] \in Int /\ row.reserved \in Int
      /\ row.consumed \in Int /\ row.estimated \in Int
  BY <1>1, <1>3 DEF IntRow
<1> HIDE DEF row
<1>5. /\ new \in IntRow
      /\ new.limit = row.limit
      /\ new.reserved = row.reserved + units[b]
      /\ new.consumed = row.consumed
      /\ new.estimated = row.estimated
  BY <1>3, <1>4 DEF IntRow
<1>6. Total(new) = Total(row) + units[b]
  BY <1>1, <1>4, <1>5 DEF Total
<1> QED BY <1>1, <1>3, <1>5, <1>6 DEF row

-----------------------------------------------------------------------------
(* Every step.                                                             *)

\* What the two action properties say of one step.
WithinTheLimitStep ==
  \A b \in Budgets, p \in Periods :
    Total(ledger[b][p]') > Total(ledger[b][p]) => Total(ledger[b][p]') <= ledger[b][p].limit'

EndsOnceStep ==
  \A t \in Tickets, b \in Budgets :
    hold[t][b] \in {"settled", "released", "expired"} => UNCHANGED hold[t][b]

Good == Shape' /\ WithinTheLimitStep /\ EndsOnceStep

\* A step that leaves every total, or every ledger, as it is grows nothing.
LEMMA NothingGrows ==
  ASSUME Shape,
         \A b \in Budgets, p \in Periods : Total(ledger[b][p]') <= Total(ledger[b][p]),
         ledger' \in Ledgers
  PROVE  WithinTheLimitStep
<1> SUFFICES ASSUME NEW b \in Budgets, NEW p \in Periods
             PROVE  ~(Total(ledger[b][p]') > Total(ledger[b][p]))
  BY DEF WithinTheLimitStep
<1>1. ledger[b][p] \in IntRow /\ ledger'[b][p] \in IntRow
  BY DEF Shape, Ledgers
<1>2. Total(ledger[b][p]) \in Int /\ Total(ledger[b][p]') \in Int
  BY <1>1 DEF Total, IntRow
<1> QED BY <1>2

\* The same where no ledger changes.
LEMMA NoLedgerChanges ==
  ASSUME Shape, UNCHANGED ledger
  PROVE  WithinTheLimitStep
<1>1. \A b \in Budgets, p \in Periods : Total(ledger[b][p]') <= Total(ledger[b][p])
  <2> SUFFICES ASSUME NEW b \in Budgets, NEW p \in Periods
               PROVE  Total(ledger[b][p]') <= Total(ledger[b][p])
    OBVIOUS
  <2>1. ledger[b][p] \in IntRow
    BY DEF Shape, Ledgers
  <2>2. Total(ledger[b][p]) \in Int
    BY <2>1 DEF Total, IntRow
  <2> QED BY <2>2 DEF Total
<1> QED BY <1>1, NothingGrows DEF Shape

\* An edited limit.
LEMMA SetLimitStep ==
  ASSUME Shape, NEW b \in Budgets, NEW limit \in Limits, SetLimit(b, limit)
  PROVE  Good
<1>1. Shape'
  BY SetLimitShape
<1>2. \A x \in Budgets, y \in Periods : Total(ledger[x][y]') <= Total(ledger[x][y])
  <2> SUFFICES ASSUME NEW x \in Budgets, NEW y \in Periods
               PROVE  Total(ledger[x][y]') <= Total(ledger[x][y])
    OBVIOUS
  <2>1. now \in Periods /\ ledger[x][y] \in IntRow /\ ledger \in Ledgers
    BY DEF Shape, Ledgers
  <2>2. \/ ledger'[x][y] = ledger[x][y]
        \/ ledger'[x][y] = [ledger[x][y] EXCEPT !.limit = limit]
    BY <2>1 DEF SetLimit, Ledgers
  <2>3. /\ ledger'[x][y].reserved = ledger[x][y].reserved
        /\ ledger'[x][y].consumed = ledger[x][y].consumed
        /\ ledger'[x][y].estimated = ledger[x][y].estimated
    BY <2>1, <2>2 DEF IntRow
  <2>4. /\ ledger[x][y].reserved \in Int
        /\ ledger[x][y].consumed \in Int
        /\ ledger[x][y].estimated \in Int
    BY <2>1 DEF IntRow
  <2> QED BY <2>3, <2>4 DEF Total
<1>3. WithinTheLimitStep
  BY <1>1, <1>2, NothingGrows DEF Shape
<1>4. EndsOnceStep
  BY DEF SetLimit, requestVars, EndsOnceStep
<1> QED BY <1>1, <1>3, <1>4 DEF Good

\* A granted request.
LEMMA AcquireStep ==
  ASSUME Shape, NEW c \in Collectors, NEW t \in Tickets, NEW units \in Requests,
         Acquire(c, t, units)
  PROVE  Good
<1> DEFINE A == Applicable(c, units)
           new(b) == [Ensured(c, b) EXCEPT !.reserved = @ + units[b]]
           next == [b \in Budgets |->
                      IF b \in A THEN [ledger[b] EXCEPT ![Start(b, now)] = new(b)]
                      ELSE ledger[b]]
<1>1. /\ ledger' = next
      /\ \A b \in A : HasRoom(c, b, units)
      /\ hold' = [hold EXCEPT ![t] = [b \in Budgets |-> IF b \in A THEN "held" ELSE "none"]]
      /\ Unused(t)
  BY DEF Acquire
<1>2. \A b \in A : /\ b \in Budgets
                   /\ new(b) \in IntRow
                   /\ Total(new(b)) <= new(b).limit
  <2> SUFFICES ASSUME NEW b \in A
               PROVE  b \in Budgets /\ new(b) \in IntRow /\ Total(new(b)) <= new(b).limit
    OBVIOUS
  <2>1. /\ b \in Budgets /\ new(b) \in IntRow
        /\ new(b).limit = Ensured(c, b).limit
        /\ Total(new(b)) = Total(Ensured(c, b)) + units[b]
    BY GrantedRow
  <2>2. Total(Ensured(c, b)) + units[b] <= Ensured(c, b).limit
    BY <1>1 DEF HasRoom
  <2> QED BY <2>1, <2>2
<1>3. now \in Periods /\ ledger \in Ledgers
  BY DEF Shape
<1> HIDE DEF A, new
<1>4. next \in Ledgers
  BY <1>2, <1>3 DEF Ledgers
<1>5. \A b \in Budgets, p \in Periods :
        next[b][p] = IF b \in A /\ p = Start(b, now) THEN new(b) ELSE ledger[b][p]
  BY <1>3 DEF Ledgers
<1>6. WithinTheLimitStep
  <2> SUFFICES ASSUME NEW b \in Budgets, NEW p \in Periods,
                      Total(ledger[b][p]') > Total(ledger[b][p])
               PROVE  Total(ledger[b][p]') <= ledger[b][p].limit'
    BY DEF WithinTheLimitStep
  <2>1. CASE b \in A /\ p = Start(b, now)
    <3>1. ledger'[b][p] = new(b)
      BY <1>1, <1>5, <2>1
    <3>2. Total(ledger[b][p]') = Total(new(b))
      BY <3>1 DEF Total
    <3> QED BY <1>2, <2>1, <3>1, <3>2
  <2>2. CASE ~(b \in A /\ p = Start(b, now))
    <3>1. ledger'[b][p] = ledger[b][p]
      BY <1>1, <1>5, <2>2
    <3>2. ledger[b][p] \in IntRow
      BY <1>3 DEF Ledgers
    <3>3. Total(ledger[b][p]') = Total(ledger[b][p]) /\ Total(ledger[b][p]) \in Int
      BY <3>1, <3>2 DEF Total, IntRow
    <3> QED BY <3>3
  <2> QED BY <2>1, <2>2
<1>7. EndsOnceStep
  BY <1>1 DEF EndsOnceStep, Unused, Shape
<1>8. Shape'
  <2>1. hold' \in [Tickets -> [Budgets -> Status]]
    BY <1>1 DEF Shape, Status
  <2>2. need' \in [Tickets -> [Budgets -> Nat]]
    BY BudgetsAssumption DEF Acquire, Shape
  <2>3. /\ at' \in [Collectors -> Step]
        /\ ticket' \in [Collectors -> Tickets \cup {NoTicket}]
        /\ \A d \in Collectors : InFlight(d)' => ticket'[d] \in Tickets
    BY DEF Acquire, Shape, Step, InFlight
  <2>4. since' \in [Tickets -> Periods]
    BY DEF Acquire, Shape
  <2> QED BY <1>1, <1>4, <2>1, <2>2, <2>3, <2>4 DEF Acquire, Shape
<1> QED BY <1>6, <1>7, <1>8 DEF Good

\* A settlement, on time or late.
LEMMA SettleStep ==
  ASSUME Shape, NEW c \in Collectors, Settle(c)
  PROVE  Good
<1> DEFINE t == ticket[c]
           s(b) == Start(b, since[t])
           old(b) == ledger[b][s(b)]
           new(b) == IF at[c] = "blocked" THEN Released(old(b), need[t][b])
                     ELSE IF IsEstimate(t, b) THEN Estimated(old(b), need[t][b])
                     ELSE Consumed(old(b), need[t][b])
           next == [b \in Budgets |-> IF b \notin Held(t) THEN ledger[b]
                                      ELSE [ledger[b] EXCEPT ![s(b)] = new(b)]]
<1>1. t \in Tickets /\ ledger \in Ledgers
  BY DEF Settle, Shape, InFlight
<1>2. ledger' = next
  BY DEF Settle
<1>3. \A b \in Budgets : /\ s(b) \in Periods
                         /\ old(b) \in IntRow
                         /\ new(b) \in IntRow
                         /\ Total(new(b)) <= Total(old(b))
  <2> SUFFICES ASSUME NEW b \in Budgets
               PROVE  /\ s(b) \in Periods
                      /\ old(b) \in IntRow
                      /\ new(b) \in IntRow
                      /\ Total(new(b)) <= Total(old(b))
    OBVIOUS
  <2>1. s(b) \in Periods /\ need[t][b] \in Nat
    BY <1>1, StartIsAPeriod DEF Shape
  <2>2. old(b) \in IntRow
    BY <1>1, <2>1 DEF Ledgers
  <2>3. Total(old(b)) \in Int
    BY <2>2 DEF Total, IntRow
  <2> HIDE DEF old, s, t
  <2> QED BY SMTT(40), <2>1, <2>2, <2>3, RowAfterEnd
<1> HIDE DEF new, s
<1>4. next \in Ledgers
  BY <1>1, <1>3 DEF Ledgers
<1>5. \A b \in Budgets, p \in Periods :
        next[b][p] = IF b \in Held(t) /\ p = s(b) THEN new(b) ELSE ledger[b][p]
  BY <1>1 DEF Ledgers
<1>6. \A b \in Budgets, p \in Periods : Total(ledger[b][p]') <= Total(ledger[b][p])
  <2> SUFFICES ASSUME NEW b \in Budgets, NEW p \in Periods
               PROVE  Total(ledger[b][p]') <= Total(ledger[b][p])
    OBVIOUS
  <2>1. ledger[b][p] \in IntRow /\ Total(ledger[b][p]) \in Int
    BY <1>1 DEF Ledgers, Total, IntRow
  <2>2. CASE b \in Held(t) /\ p = s(b)
    <3>1. ledger'[b][p] = new(b) /\ ledger[b][p] = old(b)
      BY <1>2, <1>5, <2>2
    <3>2. Total(ledger[b][p]') = Total(new(b)) /\ Total(ledger[b][p]) = Total(old(b))
      BY <3>1 DEF Total
    <3> QED BY <1>3, <3>2
  <2>3. CASE ~(b \in Held(t) /\ p = s(b))
    <3>1. ledger'[b][p] = ledger[b][p]
      BY <1>2, <1>5, <2>3
    <3>2. Total(ledger[b][p]') = Total(ledger[b][p])
      BY <3>1 DEF Total
    <3> QED BY <2>1, <3>2
  <2> QED BY <2>2, <2>3
<1>7. WithinTheLimitStep
  BY <1>2, <1>4, <1>6, NothingGrows
<1>8. hold' = [hold EXCEPT ![t] = [b \in Budgets |->
                 IF b \notin Held(t) THEN hold[t][b]
                 ELSE IF at[c] = "blocked" THEN "released" ELSE "settled"]]
  BY DEF Settle
<1>9. EndsOnceStep
  BY <1>1, <1>8 DEF EndsOnceStep, Held, Shape
<1>10. Shape'
  <2>1. hold' \in [Tickets -> [Budgets -> Status]]
    BY <1>1, <1>8 DEF Shape, Status
  <2>2. /\ at' \in [Collectors -> Step]
        /\ ticket' \in [Collectors -> Tickets \cup {NoTicket}]
        /\ \A d \in Collectors : InFlight(d)' => ticket'[d] \in Tickets
    BY DEF Settle, Shape, Step, InFlight
  <2> QED BY <1>2, <1>4, <2>1, <2>2 DEF Settle, Shape
<1> QED BY <1>7, <1>9, <1>10 DEF Good

\* An expired reservation.
LEMMA ExpireStep ==
  ASSUME Shape, NEW t \in Tickets, NEW b \in Budgets, Expire(t, b)
  PROVE  Good
<1> DEFINE s == Start(b, since[t])
           new == Estimated(ledger[b][s], need[t][b])
<1>1. s \in Periods /\ need[t][b] \in Nat /\ ledger \in Ledgers
  BY StartIsAPeriod DEF Shape
<1>2. ledger[b][s] \in IntRow
  BY <1>1 DEF Ledgers
<1>3. new \in IntRow /\ Total(new) = Total(ledger[b][s])
  BY <1>1, <1>2, RowAfterEnd
<1>4. ledger' = [ledger EXCEPT ![b][s] = new]
  BY DEF Expire
<1> HIDE DEF new, s
<1>5. /\ ledger' \in Ledgers
      /\ \A x \in Budgets, y \in Periods :
           ledger'[x][y] = IF x = b /\ y = s THEN new ELSE ledger[x][y]
  <2>1. ledger' \in Ledgers
    BY <1>1, <1>3, <1>4, LedgersUpdate
  <2>2. \A x \in Budgets, y \in Periods :
          ledger'[x][y] = IF x = b /\ y = s THEN new ELSE ledger[x][y]
    BY <1>1, <1>4 DEF Ledgers
  <2> QED BY <2>1, <2>2
<1>6. \A x \in Budgets, y \in Periods : Total(ledger[x][y]') <= Total(ledger[x][y])
  <2> SUFFICES ASSUME NEW x \in Budgets, NEW y \in Periods
               PROVE  Total(ledger[x][y]') <= Total(ledger[x][y])
    OBVIOUS
  <2>1. Total(ledger[x][y]) \in Int
    BY <1>1 DEF Ledgers, Total, IntRow
  <2>2. Total(ledger[x][y]') = Total(ledger[x][y])
    BY <1>3, <1>5 DEF Total
  <2> QED BY <2>1, <2>2
<1>7. WithinTheLimitStep
  BY <1>5, <1>6, NothingGrows
<1>8. EndsOnceStep
  BY DEF EndsOnceStep, Expire, Shape
<1>9. Shape'
  <2>1. hold' \in [Tickets -> [Budgets -> Status]]
    BY DEF Expire, Shape, Status
  <2> QED BY <1>5, <2>1 DEF Expire, Shape, workerVars, InFlight
<1> QED BY <1>7, <1>8, <1>9 DEF Good

\* The steps that touch no reservation, and of the ledgers the count of refusals at most.
LEMMA OtherSteps ==
  ASSUME Shape, NEW c \in Collectors
  PROVE  /\ ReadRequirements(c) => Good
         /\ \A units \in Requests : Refuse(c, units) => Good
         /\ Send(c) => Good
         /\ Restart(c) => Good
<1>1. ASSUME ReadRequirements(c) PROVE Good
  BY <1>1, NoLedgerChanges
  DEF Good, ReadRequirements, Shape, requestVars, InFlight, EndsOnceStep, Step
<1>2. ASSUME NEW units \in Requests, Refuse(c, units) PROVE Good
  <2>1. PICK b \in Applicable(c, units) :
          refusal' = [refusal EXCEPT ![c] =
                        IF ledger[b][Start(b, now)].exists THEN <<b, Start(b, now)>>
                        ELSE NoRefusal]
    BY <1>2 DEF Refuse
  <2>2. b \in Budgets /\ Start(b, now) \in Periods
    BY StartIsAPeriod DEF Applicable, Shape
  <2>3. refusal' \in [Collectors -> (Budgets \X Periods) \cup {NoRefusal}]
    BY <2>1, <2>2 DEF Shape
  <2> QED BY <1>2, <2>3, NoLedgerChanges
          DEF Good, Refuse, Shape, requestVars, InFlight, EndsOnceStep, Step
<1>3. ASSUME Send(c) PROVE Good
  BY <1>3, NoLedgerChanges DEF Good, Send, Shape, InFlight, EndsOnceStep, Step, Departure
<1>4. ASSUME Restart(c) PROVE Good
  BY <1>4, NoLedgerChanges DEF Good, Restart, Shape, requestVars, InFlight, EndsOnceStep, Step
<1> QED BY <1>1, <1>2, <1>3, <1>4

\* The second transaction of a refusal.
LEMMA RecordRefusalStep ==
  ASSUME Shape, NEW c \in Collectors, RecordRefusal(c)
  PROVE  Good
<1>1. ledger' \in Ledgers /\ WithinTheLimitStep
  <2>1. CASE refusal[c] = NoRefusal
    BY <2>1, NoLedgerChanges DEF RecordRefusal, Shape
  <2>2. CASE refusal[c] # NoRefusal
    <3>1. PICK x \in Budgets, y \in Periods : refusal[c] = <<x, y>>
      BY <2>2 DEF Shape
    <3> DEFINE new == [ledger[x][y] EXCEPT !.denied = @ + 1]
    <3>2. /\ ledger[x][y] \in IntRow /\ ledger \in Ledgers
          /\ ledger' = [ledger EXCEPT ![x][y] = new]
      BY <2>2, <3>1 DEF RecordRefusal, Shape, Ledgers
    <3>3. ledger[x][y].denied + 1 \in Nat
      BY <3>2 DEF IntRow
    <3>4. /\ new \in IntRow
          /\ new.reserved = ledger[x][y].reserved
          /\ new.consumed = ledger[x][y].consumed
          /\ new.estimated = ledger[x][y].estimated
      BY <3>2, <3>3 DEF IntRow
    <3>5. Total(new) = Total(ledger[x][y])
      BY <3>4 DEF Total
    <3> HIDE DEF new
    <3>6. /\ ledger' \in Ledgers
          /\ \A b \in Budgets, p \in Periods :
               ledger'[b][p] = IF b = x /\ p = y THEN new ELSE ledger[b][p]
      <4>1. ledger' \in Ledgers
        BY <3>2, <3>4, LedgersUpdate
      <4>2. \A b \in Budgets, p \in Periods :
              ledger'[b][p] = IF b = x /\ p = y THEN new ELSE ledger[b][p]
        BY <3>2 DEF Ledgers
      <4> QED BY <4>1, <4>2
    <3>7. ASSUME NEW b \in Budgets, NEW p \in Periods
          PROVE  Total(ledger[b][p]') <= Total(ledger[b][p])
      <4>1. Total(ledger[b][p]) \in Int
        BY <3>2 DEF Ledgers, Total, IntRow
      <4>2. Total(ledger[b][p]') = Total(ledger[b][p])
        BY <3>5, <3>6 DEF Total
      <4> QED BY <4>1, <4>2
    <3> QED BY <3>6, <3>7, NothingGrows
  <2> QED BY <2>1, <2>2
<1>2. EndsOnceStep
  BY DEF EndsOnceStep, RecordRefusal, requestVars
<1> QED BY <1>1, <1>2 DEF Good, RecordRefusal, Shape, requestVars, InFlight, Step

\* Every step, or stutter.
LEMMA EveryStep == Shape /\ [Next]_vars => Good
<1> SUFFICES ASSUME Shape, [Next]_vars PROVE Good
  OBVIOUS
<1>1. ASSUME NEW b \in Budgets, NEW limit \in Limits, SetLimit(b, limit) PROVE Good
  BY <1>1, SetLimitStep
<1>2. ASSUME BeginPeriod PROVE Good
  <2>1. now' \in Periods
    BY <1>2, BudgetsAssumption DEF BeginPeriod, Periods, Shape
  <2> QED BY <1>2, <2>1, NoLedgerChanges
          DEF Good, BeginPeriod, Shape, workerVars, requestVars, InFlight, EndsOnceStep
<1>3. ASSUME NEW c \in Collectors,
             \/ ReadRequirements(c) \/ RecordRefusal(c) \/ Send(c) \/ Settle(c) \/ Restart(c)
             \/ \E units \in Requests : \/ Refuse(c, units)
                                        \/ \E t \in Tickets : Acquire(c, t, units)
      PROVE  Good
  BY <1>3, OtherSteps, RecordRefusalStep, SettleStep, AcquireStep
<1>4. ASSUME NEW t \in Tickets, NEW b \in Budgets, Expire(t, b) PROVE Good
  BY <1>4, ExpireStep
<1>5. ASSUME UNCHANGED vars PROVE Good
  BY <1>5, NoLedgerChanges
  DEF Good, vars, workerVars, requestVars, Shape, InFlight, EndsOnceStep
<1> QED BY <1>1, <1>2, <1>3, <1>4, <1>5 DEF Next

-----------------------------------------------------------------------------
(* Units of several requests.                                              *)

Needs == [Tickets -> [Budgets -> Nat]]

\* The units of the requests in T, and how many they are.
Pool(f, T, b) == UNION {{t} \X (1 .. f[t][b]) : t \in T}
Size(f, T, b) == Cardinality(Pool(f, T, b))

\* A request has as many units as it needs.
LEMMA UnitsOfOne ==
  ASSUME NEW t, NEW n \in Nat
  PROVE  IsFiniteSet({t} \X (1 .. n)) /\ Cardinality({t} \X (1 .. n)) = n
<1>1. IsFiniteSet({t}) /\ Cardinality({t}) = 1
  BY FS_Singleton
<1>2. IsFiniteSet(1 .. n) /\ Cardinality(1 .. n) = n
  BY FS_Interval
<1>3. 1 * n = n
  OBVIOUS
<1> DEFINE I == 1 .. n
<1>4. IsFiniteSet(I) /\ Cardinality(I) = n
  BY <1>2
<1> HIDE DEF I
<1>5. IsFiniteSet({t} \X I) /\ Cardinality({t} \X I) = Cardinality({t}) * Cardinality(I)
  BY <1>1, <1>4, FS_Product
<1>6. Cardinality({t} \X I) = n
  BY <1>1, <1>3, <1>4, <1>5
<1> QED BY <1>5, <1>6 DEF I

\* Some of the requests have finitely many units.
LEMMA PoolIsFinite ==
  ASSUME NEW f \in Needs, NEW T \in SUBSET Tickets, NEW b \in Budgets
  PROVE  IsFiniteSet(Pool(f, T, b)) /\ Size(f, T, b) \in Nat
<1> DEFINE F == {{t} \X (1 .. f[t][b]) : t \in T}
           g == [t \in T |-> {t} \X (1 .. f[t][b])]
<1>1. IsFiniteSet(T)
  BY BudgetsAssumption, FS_Subset
<1>2. g \in Surjection(T, F)
  BY DEF Surjection
<1>3. \A x \in F : IsFiniteSet(x)
  <2>1. \A t \in T : f[t][b] \in Nat
    BY DEF Needs
  <2>2. \A t \in T : IsFiniteSet({t} \X (1 .. f[t][b]))
    BY <2>1, UnitsOfOne, Zenon
  <2> QED BY <2>2, Zenon
<1> HIDE DEF F, g
<1>4. IsFiniteSet(F)
  BY <1>1, <1>2, FS_Surjection
<1>5. IsFiniteSet(UNION F)
  BY <1>3, <1>4, FS_UNION
<1>6. IsFiniteSet(Pool(f, T, b))
  BY <1>5 DEF Pool, F
<1> QED BY <1>6, FS_CardinalityType DEF Size

\* One more request adds its units.
LEMMA SizeAdds ==
  ASSUME NEW f \in Needs, NEW T \in SUBSET Tickets, NEW b \in Budgets, NEW t \in Tickets, t \notin T
  PROVE  Size(f, T \cup {t}, b) = Size(f, T, b) + f[t][b]
<1> DEFINE U == {t} \X (1 .. f[t][b])
<1>1. f[t][b] \in Nat
  BY DEF Needs
<1>2. IsFiniteSet(U) /\ Cardinality(U) = f[t][b]
  BY <1>1, UnitsOfOne
<1>3. IsFiniteSet(Pool(f, T, b)) /\ Size(f, T, b) \in Nat
  BY PoolIsFinite
<1>4. Pool(f, T \cup {t}, b) = Pool(f, T, b) \cup U
  BY DEF Pool
<1>5. Pool(f, T, b) \cap U = {}
  BY DEF Pool
<1> HIDE DEF U
<1>6. Cardinality(Pool(f, T, b) \cup U)
        = Cardinality(Pool(f, T, b)) + Cardinality(U) - Cardinality(Pool(f, T, b) \cap U)
  BY <1>2, <1>3, FS_Union
<1>7. Cardinality(Pool(f, T, b) \cap U) = 0
  BY <1>5, FS_EmptySet
<1>8. Size(f, T \cup {t}, b) = Cardinality(Pool(f, T, b) \cup U)
  BY <1>4 DEF Size
<1>9. Cardinality(Pool(f, T, b)) = Size(f, T, b)
  BY DEF Size
<1> DEFINE x == Cardinality(Pool(f, T, b) \cup U)
           y == Cardinality(Pool(f, T, b) \cap U)
<1>10. x = Size(f, T, b) + f[t][b] - y /\ y = 0
  BY <1>2, <1>6, <1>7, <1>9
<1> HIDE DEF x, y
<1>11. x = Size(f, T, b) + f[t][b]
  BY <1>1, <1>3, <1>10
<1> QED BY <1>8, <1>11 DEF x

\* One fewer takes its units away.
LEMMA SizeRemoves ==
  ASSUME NEW f \in Needs, NEW T \in SUBSET Tickets, NEW b \in Budgets, NEW t \in T
  PROVE  Size(f, T \ {t}, b) = Size(f, T, b) - f[t][b]
<1>1. (T \ {t}) \cup {t} = T /\ t \notin T \ {t} /\ T \ {t} \in SUBSET Tickets /\ t \in Tickets
  OBVIOUS
<1>2. Size(f, (T \ {t}) \cup {t}, b) = Size(f, T \ {t}, b) + f[t][b]
  BY <1>1, SizeAdds
<1>3. f[t][b] \in Nat /\ Size(f, T \ {t}, b) \in Nat /\ Size(f, T, b) \in Nat
  BY <1>1, PoolIsFinite DEF Needs
<1>4. Size(f, T, b) = Size(f, T \ {t}, b) + f[t][b]
  BY <1>1, <1>2
<1> QED BY <1>3, <1>4

\* Only the needs of the requests in question count.
LEMMA SizeDepends ==
  ASSUME NEW f, NEW g, NEW T, NEW b, \A t \in T : f[t][b] = g[t][b]
  PROVE  Size(f, T, b) = Size(g, T, b)
<1>1. Pool(f, T, b) = Pool(g, T, b)
  BY DEF Pool
<1> QED BY <1>1 DEF Size

\* Requests that are among those of two sets have no more units than both have.
LEMMA SizeSplits ==
  ASSUME NEW f \in Needs, NEW S \in SUBSET Tickets, NEW T \in SUBSET Tickets, NEW b \in Budgets,
         NEW R, R \subseteq S \cup T
  PROVE  Size(f, R, b) <= Size(f, S, b) + Size(f, T, b)
<1>1. /\ IsFiniteSet(Pool(f, S, b)) /\ Size(f, S, b) \in Nat
      /\ IsFiniteSet(Pool(f, T, b)) /\ Size(f, T, b) \in Nat
  BY PoolIsFinite
<1>2. Pool(f, R, b) \subseteq Pool(f, S, b) \cup Pool(f, T, b)
  BY DEF Pool
<1> DEFINE A == Pool(f, S, b)
           B == Pool(f, T, b)
           C == Pool(f, R, b)
<1> HIDE DEF A, B, C
<1>3. IsFiniteSet(A) /\ IsFiniteSet(B) /\ C \in SUBSET (A \cup B)
      /\ Cardinality(A) \in Nat /\ Cardinality(B) \in Nat
  BY <1>1, <1>2 DEF A, B, C, Size
<1>4. /\ IsFiniteSet(A \cup B)
      /\ Cardinality(A \cup B) = Cardinality(A) + Cardinality(B) - Cardinality(A \cap B)
  BY <1>3, FS_Union
<1>5. Cardinality(A \cap B) \in Nat
  BY <1>3, FS_Intersection, FS_CardinalityType
<1>6. Cardinality(C) <= Cardinality(A \cup B) /\ Cardinality(C) \in Nat
  BY <1>3, <1>4, FS_Subset, FS_CardinalityType
<1> QED BY <1>3, <1>4, <1>5, <1>6 DEF Size, A, B, C
-----------------------------------------------------------------------------
(* What the counters add up to.                                            *)

\* The requests with a reservation held on a ledger, and those with one it was charged for.
HeldIn(b, p) == {t \in Tickets : hold[t][b] = "held" /\ Start(b, since[t]) = p}
EndedIn(b, p) ==
  {t \in Tickets : hold[t][b] \in {"settled", "expired"} /\ Start(b, since[t]) = p}

\* One ledger.
CellAddsUp(b, p) ==
  /\ ledger[b][p].reserved = Size(need, HeldIn(b, p), b)
  /\ ledger[b][p].consumed + ledger[b][p].estimated = Size(need, EndedIn(b, p), b)

AddsUp == \A b \in Budgets, p \in Periods : CellAddsUp(b, p)

\* A request in flight has a connector run of its own and reservations that were not given
\* back; one that left has none that was.
SentFollows ==
  /\ \A c \in Collectors : InFlight(c) =>
       /\ ~Unused(ticket[c])
       /\ \A b \in Budgets : hold[ticket[c]][b] # "released"
       /\ \A d \in Collectors : InFlight(d) /\ ticket[d] = ticket[c] => d = c
       /\ at[c] \in {"granted", "blocked"} => sent[ticket[c]] # "yes"
  /\ \A t \in Tickets : sent[t] = "yes" =>
       ~Unused(t) /\ \A b \in Budgets : hold[t][b] # "released"

\* The inductive invariant of the sums.
IInv == Shape /\ AddsUp /\ SentFollows

\* Two rows that have counted the same.
SameCount(old, new) ==
  /\ new.reserved = old.reserved
  /\ new.consumed = old.consumed
  /\ new.estimated = old.estimated

\* A ledger adds up after a step that changes neither its counters nor its reservations.
LEMMA CellStays ==
  ASSUME NEW b \in Budgets, NEW p \in Periods, CellAddsUp(b, p),
         SameCount(ledger[b][p], ledger'[b][p]),
         HeldIn(b, p)' = HeldIn(b, p), EndedIn(b, p)' = EndedIn(b, p),
         \A t \in HeldIn(b, p) \cup EndedIn(b, p) : need'[t][b] = need[t][b]
  PROVE  CellAddsUp(b, p)'
<1>1. /\ Size(need', HeldIn(b, p), b) = Size(need, HeldIn(b, p), b)
      /\ Size(need', EndedIn(b, p), b) = Size(need, EndedIn(b, p), b)
  BY SizeDepends
<1>2. /\ Size(need', HeldIn(b, p)', b) = Size(need, HeldIn(b, p), b)
      /\ Size(need', EndedIn(b, p)', b) = Size(need, EndedIn(b, p), b)
  BY <1>1
<1>3. /\ ledger[b][p].reserved = Size(need, HeldIn(b, p), b)
      /\ ledger[b][p].consumed + ledger[b][p].estimated = Size(need, EndedIn(b, p), b)
  BY DEF CellAddsUp
<1>4. /\ ledger'[b][p].reserved = ledger[b][p].reserved
      /\ ledger'[b][p].consumed = ledger[b][p].consumed
      /\ ledger'[b][p].estimated = ledger[b][p].estimated
  BY DEF SameCount
<1>5. /\ ledger'[b][p].reserved = Size(need', HeldIn(b, p)', b)
      /\ ledger'[b][p].consumed + ledger'[b][p].estimated = Size(need', EndedIn(b, p)', b)
  BY <1>2, <1>3, <1>4
<1> QED BY <1>5 DEF CellAddsUp

\* So does every ledger where no reservation changes and no row counts differently.
LEMMA CellsStay ==
  ASSUME AddsUp, UNCHANGED <<need, hold, since>>,
         \A b \in Budgets, p \in Periods : SameCount(ledger[b][p], ledger'[b][p])
  PROVE  AddsUp'
<1> SUFFICES ASSUME NEW b \in Budgets, NEW p \in Periods PROVE CellAddsUp(b, p)'
  BY DEF AddsUp
<1>1. HeldIn(b, p)' = HeldIn(b, p) /\ EndedIn(b, p)' = EndedIn(b, p)
  BY DEF HeldIn, EndedIn
<1>2. CellAddsUp(b, p)
  BY DEF AddsUp
<1> QED BY <1>1, <1>2, CellStays

\* A grant adds the same units to the counter and to the reservations held.
LEMMA AcquireAddsUp ==
  ASSUME Shape, AddsUp, NEW c \in Collectors, NEW t \in Tickets, NEW units \in Requests,
         Acquire(c, t, units)
  PROVE  AddsUp'
<1> DEFINE A == Applicable(c, units)
           new(b) == [Ensured(c, b) EXCEPT !.reserved = @ + units[b]]
<1>1. /\ need' = [need EXCEPT ![t] = units]
      /\ hold' = [hold EXCEPT ![t] = [b \in Budgets |-> IF b \in A THEN "held" ELSE "none"]]
      /\ since' = [since EXCEPT ![t] = now]
      /\ Unused(t)
  BY DEF Acquire
<1>2. /\ need \in Needs /\ units \in [Budgets -> Nat] /\ now \in Periods /\ ledger \in Ledgers
      /\ hold \in [Tickets -> [Budgets -> Status]] /\ since \in [Tickets -> Periods]
  BY BudgetsAssumption DEF Shape, Needs
<1>3. need' \in Needs
  BY <1>1, <1>2 DEF Needs
<1> SUFFICES ASSUME NEW b \in Budgets, NEW p \in Periods PROVE CellAddsUp(b, p)'
  BY DEF AddsUp
<1>4. CellAddsUp(b, p) /\ ledger[b][p] \in IntRow
  BY <1>2 DEF AddsUp, Ledgers
<1>5. ledger'[b][p] = IF b \in A /\ p = Start(b, now) THEN new(b) ELSE ledger[b][p]
  BY <1>2 DEF Acquire, Ledgers
<1> HIDE DEF A, new
<1>6. t \notin HeldIn(b, p) /\ t \notin EndedIn(b, p)
  BY <1>1 DEF Unused, HeldIn, EndedIn
<1>7. EndedIn(b, p)' = EndedIn(b, p)
  BY <1>1, <1>2, <1>6 DEF EndedIn
<1>8. \A u \in HeldIn(b, p) \cup EndedIn(b, p) : need'[u][b] = need[u][b]
  BY <1>1, <1>2, <1>6 DEF Needs, HeldIn, EndedIn
<1>9. CASE b \in A /\ p = Start(b, now)
  <2>1. HeldIn(b, p)' = HeldIn(b, p) \cup {t}
    BY <1>1, <1>2, <1>6, <1>9 DEF HeldIn
  <2>2. /\ HeldIn(b, p) \in SUBSET Tickets
        /\ Size(need', HeldIn(b, p), b) = Size(need, HeldIn(b, p), b)
        /\ Size(need', EndedIn(b, p), b) = Size(need, EndedIn(b, p), b)
    BY <1>8, SizeDepends DEF HeldIn
  <2>3. Size(need', HeldIn(b, p) \cup {t}, b) = Size(need', HeldIn(b, p), b) + need'[t][b]
    BY <1>3, <1>6, <2>2, SizeAdds
  <2>4. need'[t][b] = units[b]
    BY <1>1, <1>2 DEF Needs
  <2>5. /\ ledger'[b][p].reserved = ledger[b][p].reserved + units[b]
        /\ ledger'[b][p].consumed = ledger[b][p].consumed
        /\ ledger'[b][p].estimated = ledger[b][p].estimated
    BY <1>4, <1>5, <1>9 DEF new, Ensured, IntRow
  <2>6. ledger'[b][p].reserved = Size(need', HeldIn(b, p)', b)
    BY <1>4, <2>1, <2>2, <2>3, <2>4, <2>5 DEF CellAddsUp
  <2>7. ledger'[b][p].consumed + ledger'[b][p].estimated = Size(need', EndedIn(b, p)', b)
    BY <1>4, <1>7, <2>2, <2>5 DEF CellAddsUp
  <2> QED BY <2>6, <2>7 DEF CellAddsUp
<1>10. CASE ~(b \in A /\ p = Start(b, now))
  <2>1. HeldIn(b, p)' = HeldIn(b, p)
    BY <1>1, <1>2, <1>6, <1>10 DEF HeldIn
  <2>2. SameCount(ledger[b][p], ledger'[b][p])
    BY <1>5, <1>10 DEF SameCount
  <2> QED BY <1>4, <1>7, <1>8, <2>1, <2>2, CellStays
<1> QED BY <1>9, <1>10

\* A held reservation that ends on a ledger: its units leave the reserved ones, and unless it
\* is released they are charged.
LEMMA CellEnds ==
  ASSUME Shape, NEW b \in Budgets, NEW p \in Periods, CellAddsUp(b, p),
         NEW t \in HeldIn(b, p), NEW status \in {"settled", "released", "expired"},
         UNCHANGED <<need, since>>,
         \A u \in Tickets : hold'[u][b] = IF u = t THEN status ELSE hold[u][b],
         ledger'[b][p].reserved = ledger[b][p].reserved - need[t][b],
         ledger'[b][p].consumed + ledger'[b][p].estimated
           = ledger[b][p].consumed + ledger[b][p].estimated
             + (IF status = "released" THEN 0 ELSE need[t][b])
  PROVE  CellAddsUp(b, p)'
<1>1. /\ need \in Needs /\ t \in Tickets /\ t \notin EndedIn(b, p) /\ need[t][b] \in Nat
      /\ HeldIn(b, p) \in SUBSET Tickets /\ EndedIn(b, p) \in SUBSET Tickets
      /\ Start(b, since[t]) = p
  BY DEF Shape, Needs, HeldIn, EndedIn
<1>2. HeldIn(b, p)' = HeldIn(b, p) \ {t}
  BY <1>1 DEF HeldIn
<1>3. Size(need, HeldIn(b, p) \ {t}, b) = Size(need, HeldIn(b, p), b) - need[t][b]
  BY <1>1, SizeRemoves
<1>4. ledger'[b][p].reserved = Size(need', HeldIn(b, p)', b)
  BY <1>2, <1>3 DEF CellAddsUp
<1>5. CASE status = "released"
  <2>1. EndedIn(b, p)' = EndedIn(b, p)
    BY <1>1, <1>5 DEF EndedIn
  <2>2. Size(need, EndedIn(b, p), b) \in Nat
    BY <1>1, PoolIsFinite
  <2>3. ledger'[b][p].consumed + ledger'[b][p].estimated = Size(need, EndedIn(b, p), b)
    BY <1>5, <2>2 DEF CellAddsUp
  <2> QED BY <1>4, <2>1, <2>3 DEF CellAddsUp
<1>6. CASE status # "released"
  <2>1. EndedIn(b, p)' = EndedIn(b, p) \cup {t}
    BY <1>1, <1>6 DEF EndedIn
  <2>2. Size(need, EndedIn(b, p) \cup {t}, b) = Size(need, EndedIn(b, p), b) + need[t][b]
    BY <1>1, SizeAdds
  <2>3. ledger'[b][p].consumed + ledger'[b][p].estimated
          = Size(need, EndedIn(b, p), b) + need[t][b]
    BY <1>6 DEF CellAddsUp
  <2> QED BY <1>4, <2>1, <2>2, <2>3 DEF CellAddsUp
<1> QED BY <1>5, <1>6

\* A settlement gives back, or charges, exactly what its request still holds.
LEMMA SettleAddsUp ==
  ASSUME Shape, AddsUp, NEW c \in Collectors, Settle(c)
  PROVE  AddsUp'
<1> DEFINE t == ticket[c]
           new(old, b) == IF at[c] = "blocked" THEN Released(old, need[t][b])
                          ELSE IF IsEstimate(t, b) THEN Estimated(old, need[t][b])
                          ELSE Consumed(old, need[t][b])
           status == IF at[c] = "blocked" THEN "released" ELSE "settled"
<1>1. /\ t \in Tickets /\ ledger \in Ledgers /\ need \in [Tickets -> [Budgets -> Nat]]
      /\ hold \in [Tickets -> [Budgets -> Status]]
      /\ UNCHANGED <<need, since>>
  BY DEF Settle, Shape, InFlight
<1>2. hold' = [hold EXCEPT ![t] = [b \in Budgets |-> IF b \notin Held(t) THEN hold[t][b]
                                                     ELSE status]]
  BY DEF Settle
<1> SUFFICES ASSUME NEW b \in Budgets, NEW p \in Periods PROVE CellAddsUp(b, p)'
  BY DEF AddsUp
<1>3. CellAddsUp(b, p) /\ ledger[b][p] \in IntRow /\ need[t][b] \in Nat
  BY <1>1 DEF AddsUp, Ledgers
<1>4. ledger'[b][p] = IF b \in Held(t) /\ p = Start(b, since[t]) THEN new(ledger[b][p], b)
                      ELSE ledger[b][p]
  BY <1>1 DEF Settle, Ledgers
<1>5. \A u \in Tickets :
        hold'[u][b] = IF u = t /\ b \in Held(t) THEN status ELSE hold[u][b]
  BY <1>1, <1>2
<1>6. status \in {"settled", "released", "expired"}
  OBVIOUS
<1>7. CASE b \in Held(t) /\ p = Start(b, since[t])
  <2>1. t \in HeldIn(b, p)
    BY <1>1, <1>7 DEF Held, HeldIn
  <2>2. \A u \in Tickets : hold'[u][b] = IF u = t THEN status ELSE hold[u][b]
    BY <1>5, <1>7
  <2> DEFINE old == ledger[b][p]
             n == need[t][b]
  <2>3. old.reserved \in Int /\ old.consumed \in Nat /\ old.estimated \in Nat /\ n \in Nat
    BY <1>3 DEF IntRow
  <2>4. /\ Released(old, n).reserved = old.reserved - n
        /\ Released(old, n).consumed = old.consumed
        /\ Released(old, n).estimated = old.estimated
    BY <1>3 DEF Released, IntRow
  <2>5. /\ Consumed(old, n).reserved = old.reserved - n
        /\ Consumed(old, n).consumed = old.consumed + n
        /\ Consumed(old, n).estimated = old.estimated
    BY <1>3 DEF Consumed, IntRow
  <2>6. /\ Estimated(old, n).reserved = old.reserved - n
        /\ Estimated(old, n).consumed = old.consumed
        /\ Estimated(old, n).estimated = old.estimated + n
    BY <1>3 DEF Estimated, IntRow
  <2>7. ledger'[b][p] = IF at[c] = "blocked" THEN Released(old, n)
                        ELSE IF IsEstimate(t, b) THEN Estimated(old, n)
                        ELSE Consumed(old, n)
    BY <1>4, <1>7
  <2>8. (at[c] = "blocked") <=> (status = "released")
    OBVIOUS
  <2> HIDE DEF old, n, status
  <2>9. /\ ledger'[b][p].reserved = old.reserved - n
        /\ ledger'[b][p].consumed + ledger'[b][p].estimated
             = old.consumed + old.estimated + (IF status = "released" THEN 0 ELSE n)
    BY <2>3, <2>4, <2>5, <2>6, <2>7, <2>8
  <2> QED BY <1>1, <1>3, <1>6, <2>1, <2>2, <2>9, CellEnds DEF old, n
<1>8. CASE ~(b \in Held(t) /\ p = Start(b, since[t]))
  <2>1. HeldIn(b, p)' = HeldIn(b, p) /\ EndedIn(b, p)' = EndedIn(b, p)
    BY <1>1, <1>5, <1>8 DEF HeldIn, EndedIn, Held
  <2>2. SameCount(ledger[b][p], ledger'[b][p])
    BY <1>4, <1>8 DEF SameCount
  <2> QED BY <1>1, <1>3, <2>1, <2>2, CellStays
<1> QED BY <1>7, <1>8

\* So does an expiry.
LEMMA ExpireAddsUp ==
  ASSUME Shape, AddsUp, NEW t \in Tickets, NEW x \in Budgets, Expire(t, x)
  PROVE  AddsUp'
<1>1. /\ ledger \in Ledgers /\ need \in [Tickets -> [Budgets -> Nat]]
      /\ hold \in [Tickets -> [Budgets -> Status]] /\ Start(x, since[t]) \in Periods
      /\ UNCHANGED <<need, since>>
  BY StartIsAPeriod DEF Expire, Shape
<1> SUFFICES ASSUME NEW b \in Budgets, NEW p \in Periods PROVE CellAddsUp(b, p)'
  BY DEF AddsUp
<1>2. CellAddsUp(b, p) /\ ledger[b][p] \in IntRow /\ need[t][b] \in Nat
  BY <1>1 DEF AddsUp, Ledgers
<1>3. ledger'[b][p] = IF b = x /\ p = Start(x, since[t]) THEN Estimated(ledger[b][p], need[t][b])
                      ELSE ledger[b][p]
  BY <1>1 DEF Expire, Ledgers
<1>4. \A u \in Tickets : hold'[u][b] = IF u = t /\ b = x THEN "expired" ELSE hold[u][b]
  BY <1>1 DEF Expire
<1>5. CASE b = x /\ p = Start(x, since[t])
  <2>1. t \in HeldIn(b, p)
    BY <1>5 DEF Expire, HeldIn
  <2>2. \A u \in Tickets : hold'[u][b] = IF u = t THEN "expired" ELSE hold[u][b]
    BY <1>4, <1>5
  <2> DEFINE old == ledger[b][p]
             n == need[t][b]
  <2>3. old.reserved \in Int /\ old.consumed \in Nat /\ old.estimated \in Nat /\ n \in Nat
    BY <1>2 DEF IntRow
  <2>4. /\ ledger'[b][p].reserved = old.reserved - n
        /\ ledger'[b][p].consumed = old.consumed
        /\ ledger'[b][p].estimated = old.estimated + n
    BY <1>2, <1>3, <1>5 DEF Estimated, IntRow
  <2> HIDE DEF old, n
  <2>5. /\ ledger'[b][p].reserved = old.reserved - n
        /\ ledger'[b][p].consumed + ledger'[b][p].estimated
             = old.consumed + old.estimated + (IF "expired" = "released" THEN 0 ELSE n)
    BY <2>3, <2>4
  <2> QED BY <1>1, <1>2, <2>1, <2>2, <2>5, CellEnds DEF old, n
<1>6. CASE ~(b = x /\ p = Start(x, since[t]))
  <2>1. HeldIn(b, p)' = HeldIn(b, p) /\ EndedIn(b, p)' = EndedIn(b, p)
    BY <1>1, <1>4, <1>6 DEF HeldIn, EndedIn
  <2>2. SameCount(ledger[b][p], ledger'[b][p])
    BY <1>3, <1>6 DEF SameCount
  <2> QED BY <1>1, <1>2, <2>1, <2>2, CellStays
<1> QED BY <1>5, <1>6

\* Every step, or stutter.
LEMMA NextAddsUp ==
  ASSUME Shape, AddsUp, [Next]_vars
  PROVE  AddsUp'
<1>1. ledger \in Ledgers /\ now \in Periods
  BY DEF Shape
<1>2. UNCHANGED <<ledger, need, hold, since>> => AddsUp'
  BY CellsStay DEF SameCount
<1>3. ASSUME NEW b \in Budgets, NEW limit \in Limits, SetLimit(b, limit) PROVE AddsUp'
  <2>1. ASSUME NEW x \in Budgets, NEW y \in Periods
        PROVE  SameCount(ledger[x][y], ledger'[x][y])
    <3>1. ledger[x][y] \in IntRow
      BY <1>1 DEF Ledgers
    <3>2. \/ ledger'[x][y] = ledger[x][y]
          \/ ledger'[x][y] = [ledger[x][y] EXCEPT !.limit = limit]
      BY <1>1, <1>3 DEF SetLimit, Ledgers
    <3> QED BY <3>1, <3>2 DEF SameCount, IntRow
  <2> QED BY <1>3, <2>1, CellsStay DEF SetLimit, requestVars
<1>4. ASSUME NEW c \in Collectors, RecordRefusal(c) PROVE AddsUp'
  <2>1. ASSUME NEW x \in Budgets, NEW y \in Periods
        PROVE  SameCount(ledger[x][y], ledger'[x][y])
    <3>1. ledger[x][y] \in IntRow
      BY <1>1 DEF Ledgers
    <3>2. \/ ledger'[x][y] = ledger[x][y]
          \/ ledger'[x][y] = [ledger[x][y] EXCEPT !.denied = @ + 1]
      BY <1>1, <1>4 DEF RecordRefusal, Ledgers
    <3> QED BY <3>1, <3>2 DEF SameCount, IntRow
  <2> QED BY <1>4, <2>1, CellsStay DEF RecordRefusal, requestVars
<1>5. ASSUME NEW c \in Collectors, NEW units \in Requests,
             Refuse(c, units) \/ \E t \in Tickets : Acquire(c, t, units)
      PROVE  AddsUp'
  BY <1>2, <1>5, AcquireAddsUp DEF Refuse, requestVars
<1>6. ASSUME NEW c \in Collectors,
             ReadRequirements(c) \/ Send(c) \/ Settle(c) \/ Restart(c)
      PROVE  AddsUp'
  BY <1>2, <1>6, SettleAddsUp DEF ReadRequirements, Send, Restart, requestVars
<1>7. BeginPeriod \/ UNCHANGED vars => AddsUp'
  BY <1>2 DEF BeginPeriod, vars, requestVars
<1>8. ASSUME NEW t \in Tickets, NEW b \in Budgets, Expire(t, b) PROVE AddsUp'
  BY <1>8, ExpireAddsUp
<1> QED BY <1>3, <1>4, <1>5, <1>6, <1>7, <1>8 DEF Next

\* A new case has counted nothing.
LEMMA InitAddsUp == Init => AddsUp
<1> SUFFICES ASSUME Init, NEW b \in Budgets, NEW p \in Periods PROVE CellAddsUp(b, p)
  BY DEF AddsUp
<1>1. HeldIn(b, p) = {} /\ EndedIn(b, p) = {}
  BY DEF Init, HeldIn, EndedIn
<1>2. Pool(need, {}, b) = {}
  BY DEF Pool
<1>3. Size(need, {}, b) = 0
  BY <1>2, FS_EmptySet DEF Size
<1>4. /\ ledger[b][p].reserved = 0
      /\ ledger[b][p].consumed = 0
      /\ ledger[b][p].estimated = 0
  BY DEF Init, NoRow
<1> QED BY <1>1, <1>3, <1>4 DEF CellAddsUp

-----------------------------------------------------------------------------
(* Requests that left.                                                     *)

\* Connector runs that take up no request and end or keep theirs: the other cases of a step
\* that changes no reservation and sends nothing.
LEMMA NoRequestChanges ==
  ASSUME SentFollows, UNCHANGED <<hold, sent>>,
         \A c \in Collectors : InFlight(c)' =>
           InFlight(c) /\ ticket'[c] = ticket[c] /\ at'[c] = at[c]
  PROVE  SentFollows'
<1>1. \A t : Unused(t)' <=> Unused(t)
  BY DEF Unused
<1> QED BY <1>1 DEF SentFollows

\* A grant takes a request nobody has, and reserves something for it.
LEMMA AcquireFollows ==
  ASSUME Shape, SentFollows, NEW c \in Collectors, NEW t \in Tickets, NEW units \in Requests,
         Acquire(c, t, units)
  PROVE  SentFollows'
<1> DEFINE A == Applicable(c, units)
<1>1. /\ Unused(t) /\ A # {} /\ A \subseteq Budgets
      /\ hold' = [hold EXCEPT ![t] = [b \in Budgets |-> IF b \in A THEN "held" ELSE "none"]]
      /\ ticket' = [ticket EXCEPT ![c] = t]
      /\ at' = [at EXCEPT ![c] = "granted"]
      /\ sent' = sent
  BY DEF Acquire, Applicable
<1>2. hold \in [Tickets -> [Budgets -> Status]] /\ at \in [Collectors -> Step]
      /\ ticket \in [Collectors -> Tickets \cup {NoTicket}]
      /\ \A d \in Collectors : InFlight(d) => ticket[d] \in Tickets
  BY DEF Shape
<1> HIDE DEF A
<1>3. /\ \A u \in Tickets : u # t => hold'[u] = hold[u]
      /\ \A b \in Budgets : hold'[t][b] = IF b \in A THEN "held" ELSE "none"
  BY <1>1, <1>2
<1>4. ~Unused(t)' /\ \A b \in Budgets : hold'[t][b] # "released"
  BY <1>1, <1>3 DEF Unused
<1>5. \A u \in Tickets : u # t => (Unused(u)' <=> Unused(u))
  BY <1>3 DEF Unused
<1>6. \A d \in Collectors :
        IF d = c THEN ticket'[d] = t /\ at'[d] = "granted"
        ELSE ticket'[d] = ticket[d] /\ at'[d] = at[d]
  BY <1>1, <1>2
<1>7. sent[t] # "yes"
  BY <1>1 DEF SentFollows
<1>8. \A d \in Collectors : InFlight(d) => ticket[d] \in Tickets /\ ticket[d] # t
  BY <1>1, <1>2 DEF SentFollows
<1>9. ASSUME NEW d \in Collectors, InFlight(d)'
      PROVE  /\ ~Unused(ticket[d])'
             /\ \A b \in Budgets : hold'[ticket'[d]][b] # "released"
             /\ \A e \in Collectors : InFlight(e)' /\ ticket'[e] = ticket'[d] => e = d
             /\ at'[d] \in {"granted", "blocked"} => sent'[ticket'[d]] # "yes"
  <2>1. \A e \in Collectors : e # c /\ InFlight(e)' => InFlight(e)
    BY <1>6 DEF InFlight
  <2>2. CASE d = c
    <3>1. \A e \in Collectors : InFlight(e)' /\ ticket'[e] = ticket'[d] => e = d
      BY <1>6, <1>8, <2>1, <2>2
    <3>2. ticket'[d] = t /\ sent'[t] # "yes"
      BY <1>1, <1>6, <1>7, <2>2
    <3>3. ~Unused(ticket[d])'
      BY <1>4, <3>2 DEF Unused
    <3> QED BY <1>4, <3>1, <3>2, <3>3
  <2>3. CASE d # c
    <3>1. /\ InFlight(d) /\ ticket'[d] = ticket[d] /\ at'[d] = at[d]
          /\ ticket[d] \in Tickets /\ ticket[d] # t
      BY <1>6, <1>8, <1>9, <2>1, <2>3
    <3>2. /\ ~Unused(ticket[d])
          /\ \A b \in Budgets : hold[ticket[d]][b] # "released"
          /\ \A e \in Collectors : InFlight(e) /\ ticket[e] = ticket[d] => e = d
          /\ at[d] \in {"granted", "blocked"} => sent[ticket[d]] # "yes"
      BY <3>1 DEF SentFollows
    <3>3. hold'[ticket'[d]] = hold[ticket[d]]
      BY <1>3, <3>1
    <3>4. ~Unused(ticket[d])'
      BY <3>2, <3>3 DEF Unused
    <3>5. \A e \in Collectors : InFlight(e)' /\ ticket'[e] = ticket'[d] => e = d
      BY <1>6, <2>1, <3>1, <3>2
    <3> QED BY <1>1, <3>1, <3>2, <3>3, <3>4, <3>5
  <2> QED BY <2>2, <2>3
<1>10. ASSUME NEW u \in Tickets, sent'[u] = "yes"
       PROVE  ~Unused(u)' /\ \A b \in Budgets : hold'[u][b] # "released"
  BY <1>1, <1>3, <1>5, <1>7, <1>10 DEF SentFollows
<1> QED BY <1>9, <1>10 DEF SentFollows

\* A request that leaves has its reservations, and no other connector run has it.
LEMMA SendFollows ==
  ASSUME Shape, SentFollows, NEW c \in Collectors, Send(c)
  PROVE  SentFollows'
<1>1. /\ at[c] = "granted" /\ InFlight(c) /\ ticket[c] \in Tickets
      /\ UNCHANGED <<hold, ticket>>
      /\ at \in [Collectors -> Step] /\ sent \in [Tickets -> Departure]
      /\ \A d \in Collectors : InFlight(d) => ticket[d] \in Tickets
  BY DEF Send, InFlight, Shape
<1>2. \/ sent' = [sent EXCEPT ![ticket[c]] = "yes"] /\ at' = [at EXCEPT ![c] = "answered"]
      \/ sent' = sent /\ at' = [at EXCEPT ![c] = "blocked"]
      \/ sent' = [sent EXCEPT ![ticket[c]] = "redirected"] /\ at' = [at EXCEPT ![c] = "blocked"]
  BY DEF Send
<1>3. /\ ~Unused(ticket[c]) /\ sent[ticket[c]] # "yes"
      /\ \A b \in Budgets : hold[ticket[c]][b] # "released"
      /\ \A d \in Collectors : InFlight(d) /\ ticket[d] = ticket[c] => d = c
  BY <1>1 DEF SentFollows
<1>4. \A u \in Tickets : sent'[u] = "yes" => sent[u] = "yes" \/ u = ticket[c]
  BY <1>1, <1>2
<1>5. \A d \in Collectors : InFlight(d)' => InFlight(d)
  BY <1>1, <1>2 DEF InFlight
<1>6. \A u \in Tickets : Unused(u)' <=> Unused(u)
  BY <1>1 DEF Unused
<1>7. ASSUME NEW d \in Collectors, InFlight(d)'
      PROVE  /\ ~Unused(ticket[d])'
             /\ \A b \in Budgets : hold'[ticket'[d]][b] # "released"
             /\ \A e \in Collectors : InFlight(e)' /\ ticket'[e] = ticket'[d] => e = d
             /\ at'[d] \in {"granted", "blocked"} => sent'[ticket'[d]] # "yes"
  <2>1. /\ InFlight(d) /\ ticket[d] \in Tickets /\ ~Unused(ticket[d])
        /\ \A b \in Budgets : hold[ticket[d]][b] # "released"
        /\ \A e \in Collectors : InFlight(e) /\ ticket[e] = ticket[d] => e = d
        /\ at[d] \in {"granted", "blocked"} => sent[ticket[d]] # "yes"
    BY <1>1, <1>5, <1>7 DEF SentFollows
  <2>2. ~Unused(ticket[d])'
    BY <1>1, <2>1 DEF Unused
  <2>3. at'[d] \in {"granted", "blocked"} => sent'[ticket'[d]] # "yes"
    <3>1. CASE d = c
      BY <1>1, <1>2, <1>3, <3>1
    <3>2. CASE d # c
      <4>1. at'[d] = at[d] /\ ticket[d] # ticket[c]
        BY <1>1, <1>2, <1>3, <2>1, <3>2
      <4> QED BY <1>1, <1>4, <2>1, <4>1
    <3> QED BY <3>1, <3>2
  <2> QED BY <1>1, <1>5, <2>1, <2>2, <2>3
<1>8. ASSUME NEW u \in Tickets, sent'[u] = "yes"
      PROVE  ~Unused(u)' /\ \A b \in Budgets : hold'[u][b] # "released"
  BY <1>1, <1>3, <1>4, <1>6, <1>8 DEF SentFollows
<1> QED BY <1>7, <1>8 DEF SentFollows

\* A settlement gives back only the reservations of a request that did not leave.
LEMMA SettleFollows ==
  ASSUME Shape, SentFollows, NEW c \in Collectors, Settle(c)
  PROVE  SentFollows'
<1> DEFINE t == ticket[c]
           status == IF at[c] = "blocked" THEN "released" ELSE "settled"
<1>1. /\ InFlight(c) /\ t \in Tickets /\ sent' = sent
      /\ at' = [at EXCEPT ![c] = "ready"] /\ ticket' = [ticket EXCEPT ![c] = NoTicket]
      /\ at \in [Collectors -> Step] /\ ticket \in [Collectors -> Tickets \cup {NoTicket}]
      /\ hold \in [Tickets -> [Budgets -> Status]]
      /\ \A d \in Collectors : InFlight(d) => ticket[d] \in Tickets
  BY DEF Settle, InFlight, Shape
<1>2. hold' = [hold EXCEPT ![t] = [b \in Budgets |-> IF b \notin Held(t) THEN hold[t][b]
                                                     ELSE status]]
  BY DEF Settle
<1>3. /\ \A u \in Tickets : u # t => hold'[u] = hold[u]
      /\ \A b \in Budgets : hold'[t][b] = IF b \notin Held(t) THEN hold[t][b] ELSE status
  BY <1>1, <1>2
<1>4. ~Unused(t) /\ \A b \in Budgets : hold[t][b] # "released"
  BY <1>1 DEF SentFollows
<1>5. \A u \in Tickets : ~Unused(u) => ~Unused(u)'
  <2> SUFFICES ASSUME NEW u \in Tickets, ~Unused(u) PROVE ~Unused(u)'
    OBVIOUS
  <2>1. PICK b \in Budgets : hold[u][b] # "none"
    BY DEF Unused
  <2>2. hold'[u][b] # "none"
    BY <1>3, <2>1
  <2> QED BY <2>2 DEF Unused
<1>6. \A d \in Collectors : InFlight(d)' =>
        d # c /\ InFlight(d) /\ ticket'[d] = ticket[d] /\ at'[d] = at[d]
  BY <1>1 DEF InFlight
<1>7. ASSUME NEW d \in Collectors, InFlight(d)'
      PROVE  /\ ~Unused(ticket[d])'
             /\ \A b \in Budgets : hold'[ticket'[d]][b] # "released"
             /\ \A e \in Collectors : InFlight(e)' /\ ticket'[e] = ticket'[d] => e = d
             /\ at'[d] \in {"granted", "blocked"} => sent'[ticket'[d]] # "yes"
  <2>1. /\ d # c /\ InFlight(d) /\ ticket'[d] = ticket[d] /\ at'[d] = at[d]
        /\ ticket[d] \in Tickets
    BY <1>1, <1>6, <1>7
  <2>2. /\ ~Unused(ticket[d])
        /\ \A b \in Budgets : hold[ticket[d]][b] # "released"
        /\ \A e \in Collectors : InFlight(e) /\ ticket[e] = ticket[d] => e = d
        /\ at[d] \in {"granted", "blocked"} => sent[ticket[d]] # "yes"
    BY <2>1 DEF SentFollows
  <2>3. ticket[d] # t
    BY <1>1, <2>1, <2>2
  <2>4. ~Unused(ticket[d])'
    BY <1>5, <2>1, <2>2 DEF Unused
  <2> QED BY <1>1, <1>3, <1>6, <2>1, <2>2, <2>3, <2>4
<1>8. ASSUME NEW u \in Tickets, sent'[u] = "yes"
      PROVE  ~Unused(u)' /\ \A b \in Budgets : hold'[u][b] # "released"
  <2>1. sent[u] = "yes" /\ ~Unused(u)' /\ \A b \in Budgets : hold[u][b] # "released"
    BY <1>1, <1>5, <1>8 DEF SentFollows
  <2>2. CASE u # t
    BY <1>3, <2>1, <2>2
  <2>3. CASE u = t
    <3>1. status # "released"
      BY <1>1, <2>1, <2>3 DEF SentFollows
    <3> QED BY <1>3, <2>1, <2>3, <3>1
  <2> QED BY <2>2, <2>3
<1> QED BY <1>7, <1>8 DEF SentFollows

\* An expired reservation was not given back.
LEMMA ExpireFollows ==
  ASSUME Shape, SentFollows, NEW t \in Tickets, NEW x \in Budgets, Expire(t, x)
  PROVE  SentFollows'
<1>1. /\ hold \in [Tickets -> [Budgets -> Status]]
      /\ UNCHANGED <<at, ticket, sent>>
      /\ \A c \in Collectors : InFlight(c) => ticket[c] \in Tickets
  BY DEF Expire, Shape, workerVars
<1>2. \A u \in Tickets, b \in Budgets :
        hold'[u][b] = IF u = t /\ b = x THEN "expired" ELSE hold[u][b]
  BY <1>1 DEF Expire
<1>3. \A u \in Tickets : ~Unused(u) => ~Unused(u)'
  <2> SUFFICES ASSUME NEW u \in Tickets, ~Unused(u) PROVE ~Unused(u)'
    OBVIOUS
  <2>1. PICK b \in Budgets : hold[u][b] # "none"
    BY DEF Unused
  <2>2. hold'[u][b] # "none"
    BY <1>2, <2>1
  <2> QED BY <2>2 DEF Unused
<1>4. \A u \in Tickets : (\A b \in Budgets : hold[u][b] # "released")
                            => \A b \in Budgets : hold'[u][b] # "released"
  BY <1>2
<1>5. \A c \in Collectors : InFlight(c)' => InFlight(c)
  BY <1>1 DEF InFlight
<1>6. ASSUME NEW c \in Collectors, InFlight(c)'
      PROVE  /\ ~Unused(ticket[c])'
             /\ \A b \in Budgets : hold'[ticket'[c]][b] # "released"
             /\ \A d \in Collectors : InFlight(d)' /\ ticket'[d] = ticket'[c] => d = c
             /\ at'[c] \in {"granted", "blocked"} => sent'[ticket'[c]] # "yes"
  <2>1. /\ ticket[c] \in Tickets /\ ~Unused(ticket[c])
        /\ \A b \in Budgets : hold[ticket[c]][b] # "released"
        /\ \A d \in Collectors : InFlight(d) /\ ticket[d] = ticket[c] => d = c
        /\ at[c] \in {"granted", "blocked"} => sent[ticket[c]] # "yes"
    BY <1>1, <1>5, <1>6 DEF SentFollows
  <2>2. ~Unused(ticket[c])'
    BY <1>1, <1>3, <2>1 DEF Unused
  <2> QED BY <1>1, <1>4, <1>5, <2>1, <2>2
<1>7. ASSUME NEW u \in Tickets, sent'[u] = "yes"
      PROVE  ~Unused(u)' /\ \A b \in Budgets : hold'[u][b] # "released"
  BY <1>1, <1>3, <1>4, <1>7 DEF SentFollows
<1> QED BY <1>6, <1>7 DEF SentFollows

\* Every step, or stutter.
LEMMA NextFollows ==
  ASSUME Shape, SentFollows, [Next]_vars
  PROVE  SentFollows'
<1>1. at \in [Collectors -> Step] /\ ticket \in [Collectors -> Tickets \cup {NoTicket}]
  BY DEF Shape
<1>2. UNCHANGED <<at, ticket, hold, sent>> => SentFollows'
  BY NoRequestChanges DEF InFlight
<1>3. ASSUME NEW c \in Collectors, UNCHANGED <<ticket, hold, sent>>,
             \E step \in {"ready", "refused", "over"} : at' = [at EXCEPT ![c] = step]
      PROVE  SentFollows'
  <2>1. \A d \in Collectors : InFlight(d)' =>
          InFlight(d) /\ ticket'[d] = ticket[d] /\ at'[d] = at[d]
    BY <1>1, <1>3 DEF InFlight
  <2> QED BY <1>3, <2>1, NoRequestChanges
<1>4. ASSUME NEW b \in Budgets, NEW limit \in Limits, SetLimit(b, limit) PROVE SentFollows'
  BY <1>2, <1>4 DEF SetLimit, workerVars, requestVars
<1>5. BeginPeriod \/ UNCHANGED vars => SentFollows'
  BY <1>2 DEF BeginPeriod, vars, workerVars, requestVars
<1>6. ASSUME NEW c \in Collectors, ReadRequirements(c) PROVE SentFollows'
  BY <1>3, <1>6 DEF ReadRequirements, requestVars
<1>7. ASSUME NEW c \in Collectors, RecordRefusal(c) PROVE SentFollows'
  BY <1>3, <1>7 DEF RecordRefusal, requestVars
<1>8. ASSUME NEW c \in Collectors, NEW units \in Requests, Refuse(c, units) PROVE SentFollows'
  BY <1>3, <1>8 DEF Refuse, requestVars
<1>9. ASSUME NEW c \in Collectors, Restart(c) PROVE SentFollows'
  <2>1. \A d \in Collectors : InFlight(d)' =>
          InFlight(d) /\ ticket'[d] = ticket[d] /\ at'[d] = at[d]
    BY <1>1, <1>9 DEF Restart, InFlight
  <2> QED BY <1>9, <2>1, NoRequestChanges DEF Restart, requestVars
<1>10. ASSUME NEW c \in Collectors,
              \/ Send(c) \/ Settle(c)
              \/ \E units \in Requests, t \in Tickets : Acquire(c, t, units)
       PROVE  SentFollows'
  BY <1>10, SendFollows, SettleFollows, AcquireFollows
<1>11. ASSUME NEW t \in Tickets, NEW b \in Budgets, Expire(t, b) PROVE SentFollows'
  BY <1>11, ExpireFollows
<1> QED BY <1>4, <1>5, <1>6, <1>7, <1>8, <1>9, <1>10, <1>11 DEF Next

-----------------------------------------------------------------------------
(* The theorems.                                                           *)

\* The types of everything but the sign of the counters, and every connector run between
\* grant and settlement has its request.
THEOREM ShapeAlways == Spec => []Shape
<1>1. Shape /\ [Next]_vars => Shape'
  BY EveryStep DEF Good
<1> QED BY InitShape, <1>1, PTL DEF Spec

\* However many connector runs ask at once, and whatever limits they read when: acquire
\* grants units only where the ledger, with what is reserved on it, has room for them.
THEOREM WithinTheLimitAlways == Spec => WithinTheLimit
<1>1. Shape /\ [Next]_vars => [WithinTheLimitStep]_vars
  BY EveryStep DEF Good
<1> QED BY ShapeAlways, <1>1, PTL DEF Spec, WithinTheLimit, WithinTheLimitStep

\* A reservation that was settled, released or expired is never changed again: a settlement
\* after the expiry, or a second one, does nothing.
THEOREM EndsOnceAlways == Spec => EndsOnce
<1>1. Shape /\ [Next]_vars => [EndsOnceStep]_vars
  BY EveryStep DEF Good
<1> QED BY ShapeAlways, <1>1, PTL DEF Spec, EndsOnce, EndsOnceStep

\* IInv is an invariant.
LEMMA IInvAlways == Spec => []IInv
<1>1. Init => IInv
  BY InitShape, InitAddsUp DEF IInv, SentFollows, Init, InFlight
<1>2. IInv /\ [Next]_vars => IInv'
  BY EveryStep, NextAddsUp, NextFollows DEF IInv, Good
<1> QED BY <1>1, <1>2, PTL DEF Spec

\* Every counter of every ledger is the sum of the reservations that count there: whatever
\* was granted, settled, given back or expired, in whatever order and however late.
THEOREM LedgersAddUpAlways == Spec => []LedgersAddUp
<1>1. ASSUME NEW b \in Budgets, NEW p \in Periods
      PROVE  /\ UnitsOf({t \in Tickets : hold[t][b] = "held"}, b, p)
                  = Size(need, HeldIn(b, p), b)
             /\ UnitsOf({t \in Tickets : hold[t][b] \in {"settled", "expired"}}, b, p)
                  = Size(need, EndedIn(b, p), b)
  <2>1. {u \in {t \in Tickets : hold[t][b] = "held"} :
           hold[u][b] # "none" /\ Start(b, since[u]) = p} = HeldIn(b, p)
    BY DEF HeldIn
  <2>2. {u \in {t \in Tickets : hold[t][b] \in {"settled", "expired"}} :
           hold[u][b] # "none" /\ Start(b, since[u]) = p} = EndedIn(b, p)
    BY DEF EndedIn
  <2> QED BY <2>1, <2>2 DEF UnitsOf, Size, Pool
<1>2. IInv => LedgersAddUp
  BY <1>1 DEF IInv, AddsUp, CellAddsUp, LedgersAddUp
<1> QED BY IInvAlways, <1>2, PTL

\* Every variable has its type at every step: with the sums, no counter is ever negative.
THEOREM TypeCorrect == Spec => []TypeOK
<1>1. IInv => TypeOK
  <2> SUFFICES ASSUME IInv PROVE TypeOK
    OBVIOUS
  <2>1. Shape /\ AddsUp
    BY DEF IInv
  <2>2. ASSUME NEW b \in Budgets, NEW p \in Periods PROVE ledger[b][p] \in Row
    <3>1. ledger[b][p] \in IntRow /\ need \in Needs
      BY <2>1 DEF Shape, Ledgers, Needs
    <3>2. HeldIn(b, p) \in SUBSET Tickets
      BY DEF HeldIn
    <3>3. ledger[b][p].reserved \in Nat
      BY <2>1, <3>1, <3>2, PoolIsFinite DEF AddsUp, CellAddsUp
    <3> QED BY <3>1, <3>3 DEF IntRow, Row
  <2>3. ledger \in [Budgets -> [Periods -> Row]]
    BY <2>1, <2>2 DEF Shape, Ledgers
  <2> QED BY <2>1, <2>3 DEF Shape, TypeOK
<1> QED BY IInvAlways, <1>1, PTL

\* A request that left the installation stays counted in the period of its grant, as reserved
\* until it is charged, whatever crashed meanwhile.
THEOREM SentIsCountedAlways == Spec => []SentIsCounted
<1>1. IInv => SentIsCounted
  <2> SUFFICES ASSUME IInv, NEW b \in Budgets, NEW p \in Periods
               PROVE  UnitsOf({t \in Tickets : sent[t] = "yes"}, b, p) <= Total(ledger[b][p])
    BY DEF SentIsCounted
  <2> DEFINE R == {u \in {t \in Tickets : sent[t] = "yes"} :
                     hold[u][b] # "none" /\ Start(b, since[u]) = p}
  <2>1. /\ need \in Needs /\ ledger[b][p] \in IntRow /\ CellAddsUp(b, p) /\ SentFollows
        /\ hold \in [Tickets -> [Budgets -> Status]]
        /\ HeldIn(b, p) \in SUBSET Tickets /\ EndedIn(b, p) \in SUBSET Tickets
    BY DEF IInv, Shape, Ledgers, Needs, AddsUp, HeldIn, EndedIn
  <2>2. R \subseteq HeldIn(b, p) \cup EndedIn(b, p)
    BY <2>1 DEF SentFollows, HeldIn, EndedIn, Status
  <2>3. UnitsOf({t \in Tickets : sent[t] = "yes"}, b, p) = Size(need, R, b)
    BY DEF UnitsOf, Size, Pool
  <2> HIDE DEF R
  <2>4. Size(need, R, b) <= Size(need, HeldIn(b, p), b) + Size(need, EndedIn(b, p), b)
    BY <2>1, <2>2, SizeSplits
  <2>5. Total(ledger[b][p]) = ledger[b][p].reserved
                                + (ledger[b][p].consumed + ledger[b][p].estimated)
    BY <2>1 DEF Total, IntRow
  <2> QED BY <2>1, <2>3, <2>4, <2>5 DEF CellAddsUp
<1> QED BY IInvAlways, <1>1, PTL
================================================================================
