---------------------------- MODULE Monitors_proofs ----------------------------
(***************************************************************************)
(* Monitors for every interval, grace, retention and number of schedulers  *)
(* and requests.  An execution is created only while none is unfinished    *)
(* and with the definition that is pinned.  The slots: since the monitor   *)
(* was enabled, its next slot is as many intervals later as occurrences    *)
(* account for; a late scheduler moves both by the slots it skips and the  *)
(* one it runs.                                                            *)
(***************************************************************************)
EXTENDS Monitors, FiniteSetTheorems, TLAPS

\* The next slot of an enabled monitor lies behind every occurrence, and as many intervals after the
\* first as are accounted for.
SlotsFollow ==
  /\ anchor <= now
  /\ \A s \in Schedulers : seen[s] # NoTime => seen[s] <= now
  /\ \A o \in occurrences : o.slot <= now
  /\ status = "enabled" =>
       /\ since >= anchor /\ (since - anchor) % Every = 0
       /\ nextRun = since + Every * accounted
       /\ \A o \in occurrences : o.slot < nextRun

IInv == TypeOK /\ SlotsFollow /\ OneActiveRun

-----------------------------------------------------------------------------
(* Quotients and the arithmetic of slots.                                  *)

\* A larger multiple is larger by the factor at least.
LEMMA Multiples ==
  ASSUME NEW E \in Nat \ {0}, NEW a \in Nat, NEW b \in Nat, a < b
  PROVE  E * a + E <= E * b
<1>1. PICK d \in Nat : b = a + 1 + d
  <2>1. b - (a + 1) \in Nat /\ b = a + 1 + (b - (a + 1))
    OBVIOUS
  <2> QED BY <2>1
<1>2. E * (a + 1 + d) = E * a + E + E * d /\ E * d \in Nat /\ E * a \in Nat
  OBVIOUS
<1> QED BY <1>1, <1>2

\* What \div and % compute is determined by what they compute.
LEMMA Division ==
  ASSUME NEW E \in Nat \ {0}, NEW q \in Nat, NEW x \in 0 .. E - 1, NEW n \in Nat, n = E * q + x
  PROVE  n \div E = q /\ n % E = x
<1> DEFINE p == n \div E
           y == n % E
<1>1. p \in Nat /\ y \in 0 .. E - 1 /\ n = E * p + y
  OBVIOUS
<1>2. E * p \in Nat /\ E * q \in Nat
  BY <1>1
<1> HIDE DEF p, y
<1>3. CASE p < q
  BY <1>1, <1>2, <1>3, Multiples
<1>4. CASE q < p
  BY <1>1, <1>2, <1>4, Multiples
<1>5. CASE p = q
  BY <1>1, <1>2, <1>5 DEF p, y
<1> QED BY <1>1, <1>3, <1>4, <1>5

\* Every time after the anchor lies in one interval.
LEMMA InInterval ==
  ASSUME NEW E \in Nat \ {0}, NEW a \in Nat, NEW t \in Nat, a <= t
  PROVE  \E q \in Nat, x \in 0 .. E - 1 :
           /\ t = a + E * q + x
           /\ (t - a) \div E = q
           /\ (t - a) % E = x
<1> DEFINE n == t - a
<1>1. n \in Nat /\ t = a + n
  OBVIOUS
<1> HIDE DEF n
<1>2. n \div E \in Nat /\ n % E \in 0 .. E - 1 /\ n = E * (n \div E) + (n % E)
  BY <1>1
<1>3. E * (n \div E) \in Nat
  BY <1>2
<1>4. t = a + E * (n \div E) + (n % E)
  BY <1>1, <1>2, <1>3
<1> QED BY <1>2, <1>4 DEF n

\* The larger of two.
LEMMA LargerOf ==
  ASSUME NEW i \in Int, NEW j \in Int
  PROVE  Max({i, j}) = IF i >= j THEN i ELSE j
<1> DEFINE m == IF i >= j THEN i ELSE j
<1>1. m \in {i, j} /\ \A y \in {i, j} : m >= y
  OBVIOUS
<1>2. \A z \in {i, j} : (\A y \in {i, j} : z >= y) => z = m
  OBVIOUS
<1> QED BY <1>1, <1>2 DEF Max

\* The slot after a time lies in the interval that begins there.
LEMMA NextSlots ==
  ASSUME NEW a \in Nat, NEW t \in Nat, a <= t
  PROVE  /\ NextSlot(a, t) \in t + 1 .. t + Every
         /\ NextSlot(a, t) >= a /\ (NextSlot(a, t) - a) % Every = 0
<1>0. Every \in Nat \ {0}
  BY MonitorsAssumption
<1>1. PICK q \in Nat, x \in 0 .. Every - 1 :
         t = a + Every * q + x /\ (t - a) \div Every = q /\ (t - a) % Every = x
  BY <1>0, InInterval
<1>2. NextSlot(a, t) = a + Every * (q + 1)
  BY <1>0, <1>1 DEF NextSlot, NextAfter, Plan, Interval
<1>3. Every * (q + 1) = Every * q + Every /\ Every * q \in Nat /\ Every * (q + 1) \in Nat
  BY <1>0
<1>4. (Every * (q + 1)) % Every = 0
  BY <1>0, <1>3, Division, q + 1 \in Nat, 0 \in 0 .. Every - 1, Every * (q + 1) = Every * (q + 1) + 0
<1>5. NextSlot(a, t) - a = Every * (q + 1)
  BY <1>2, <1>3
<1> QED BY <1>0, <1>1, <1>2, <1>3, <1>4, <1>5

\* A scheduler that comes at n runs one slot, counts the ones it missed, and goes on with the
\* slot that follows all of them.
LEMMA Turn ==
  ASSUME NEW a \in Nat, NEW due \in Nat, NEW n \in Nat, a <= due, due <= n, (due - a) % Every = 0
  PROVE  LET turn == SlotToRun(Plan, UTC, a, Grace, due, n)
             next == FollowingSlot(Plan, UTC, a, turn.slot, n)
         IN  /\ turn.slot \in due .. n
             /\ turn.missed \in Nat
             /\ next \in n + 1 .. n + Every
             /\ next = due + Every * (turn.missed + 1)
<1>0. Every \in Nat \ {0} /\ Grace \in Nat
  BY MonitorsAssumption
<1>1. PICK p \in Nat : due = a + Every * p
  <2>1. PICK q \in Nat, x \in 0 .. Every - 1 :
           due = a + Every * q + x /\ (due - a) \div Every = q /\ (due - a) % Every = x
    BY <1>0, InInterval
  <2> QED BY <1>0, <2>1
<1>2. PICK b \in Nat, x \in 0 .. Every - 1 :
         n = a + Every * b + x /\ (n - a) \div Every = b /\ (n - a) % Every = x
  BY <1>0, InInterval
<1>3. Every * p \in Nat /\ Every * b \in Nat /\ Every * (b + 1) = Every * b + Every
  BY <1>0
<1>4. p <= b
  BY <1>0, <1>1, <1>2, <1>3, Multiples
<1> DEFINE latest == a + Every * b
<1>5. latest \in Nat /\ due <= latest /\ latest <= n /\ n < latest + Every
  <2>1. p < b => Every * p + Every <= Every * b
    BY <1>0, Multiples
  <2> QED BY <1>0, <1>1, <1>2, <1>3, <1>4, <2>1
<1>6. Max({AtOrBefore(Plan, UTC, a, n), due}) = latest
  <2>1. AtOrBefore(Plan, UTC, a, n) = latest
    BY <1>2 DEF AtOrBefore, Plan, Interval
  <2> HIDE DEF latest
  <2> QED BY <1>5, <2>1, LargerOf
<1>7. NextAfter(Plan, UTC, a, n) = latest + Every
  BY <1>0, <1>2, <1>3 DEF NextAfter, Plan, Interval
<1> DEFINE turn == SlotToRun(Plan, UTC, a, Grace, due, n)
           next == FollowingSlot(Plan, UTC, a, turn.slot, n)
<1>8. \A m \in due .. n : FollowingSlot(Plan, UTC, a, m, n) = latest + Every
  <2> SUFFICES ASSUME NEW m \in due .. n PROVE FollowingSlot(Plan, UTC, a, m, n) = latest + Every
    OBVIOUS
  <2>1. Max({m, n}) = n
    BY LargerOf
  <2> QED BY <1>7, <2>1 DEF FollowingSlot
<1>9. CASE OnTime(Plan, Grace, n - due)
  <2>1. 2 * (n - due) <= Every
    BY <1>9 DEF OnTime, Plan, Interval
  <2>2. p = b
    <3>1. p < b => Every * p + Every <= Every * b
      BY <1>0, Multiples
    <3> QED BY <1>0, <1>1, <1>2, <1>3, <1>4, <2>1, <3>1
  <2>3. turn.slot = due /\ turn.missed = 0
    BY <1>9 DEF SlotToRun
  <2> HIDE DEF turn
  <2>4. next = latest + Every
    BY <1>8, <2>3
  <2>5. Every * (0 + 1) = Every /\ latest = due
    BY <1>0, <1>1, <2>2
  <2> HIDE DEF next, latest
  <2>6. next \in n + 1 .. n + Every /\ next = due + Every * (turn.missed + 1)
    BY <1>0, <1>5, <2>3, <2>4, <2>5
  <2> QED BY <2>3, <2>6 DEF turn, next
<1>10. CASE ~OnTime(Plan, Grace, n - due)
  <2>1. turn.slot = latest /\ turn.missed = CountBetween(Plan, UTC, a, due, latest)
    BY <1>6, <1>10 DEF SlotToRun
  <2>2. CountBetween(Plan, UTC, a, due, latest) = b - p
    <3>1. CASE b = p
      <4>1. latest <= due
        BY <1>1, <1>3, <3>1
      <4> QED BY <3>1, <4>1 DEF CountBetween
    <3>2. CASE p < b
      <4>1. PICK d \in Nat : b = p + 1 + d
        <5>1. b - (p + 1) \in Nat /\ b = p + 1 + (b - (p + 1))
          BY <3>2
        <5> QED BY <5>1
      <4>2. Every * (p + 1 + d) = Every * p + Every + Every * d /\ Every * d \in Nat
        BY <1>0
      <4>3. latest - due - 1 = Every * d + (Every - 1)
        BY <1>0, <1>1, <1>3, <4>1, <4>2
      <4>4. (latest - due - 1) \div Every = d
        <5>1. Every - 1 \in 0 .. Every - 1 /\ Every * d + (Every - 1) \in Nat
          BY <1>0, <4>2
        <5> QED BY <1>0, <4>3, <5>1, Division
      <4>5. ~(latest <= due)
        BY <1>0, <1>1, <1>3, <4>1, <4>2
      <4> HIDE DEF latest
      <4>6. CountBetween(Plan, UTC, a, due, latest) = (latest - due - 1) \div Every + 1
        BY <1>5, <4>5 DEF CountBetween, Plan, Interval
      <4> QED BY <4>1, <4>4, <4>6
    <3> QED BY <1>4, <3>1, <3>2
  <2>3. turn.missed = b - p /\ b - p \in Nat
    BY <1>4, <2>1, <2>2
  <2> HIDE DEF turn
  <2>4. next = latest + Every
    BY <1>5, <1>8, <2>1
  <2>5. Every * (b - p + 1) = Every * b - Every * p + Every
    BY <1>0, <1>3
  <2>6. latest + Every = due + Every * (b - p + 1)
    BY <1>0, <1>1, <1>3, <2>3, <2>5
  <2> HIDE DEF next, latest
  <2>7. next \in n + 1 .. n + Every /\ next = due + Every * (turn.missed + 1)
    BY <1>0, <1>5, <2>3, <2>4, <2>6
  <2>8. turn.slot \in due .. n
    BY <1>5, <2>1
  <2> QED BY <2>3, <2>7, <2>8 DEF turn, next
<1> QED BY <1>9, <1>10

\* A whole number of intervals holds as many slots.
LEMMA SlotsOfARange ==
  ASSUME NEW a \in Nat, NEW first \in Nat, NEW n \in Nat, a <= first, (first - a) % Every = 0
  PROVE  Cardinality(Occurrences(Plan, UTC, a, first .. first + Every * n - 1)) = n
<1>0. Every \in Nat \ {0}
  BY MonitorsAssumption
<1>1. PICK p \in Nat : first = a + Every * p
  <2>1. PICK q \in Nat, x \in 0 .. Every - 1 :
           first = a + Every * q + x /\ (first - a) \div Every = q /\ (first - a) % Every = x
    BY <1>0, InInterval
  <2> QED BY <1>0, <2>1
<1> DEFINE T == {t \in first .. first + Every * n - 1 : t >= a /\ (t - a) % Every = 0}
           f == [i \in 1 .. n |-> first + Every * (i - 1)]
<1>2. Occurrences(Plan, UTC, a, first .. first + Every * n - 1) = T
  BY DEF Occurrences, Plan, Interval
<1>3. \A i \in 1 .. n : /\ Every * (i - 1) \in Nat /\ Every * i = Every * (i - 1) + Every
                        /\ Every * i <= Every * n
  <2> SUFFICES ASSUME NEW i \in 1 .. n
               PROVE  /\ Every * (i - 1) \in Nat /\ Every * i = Every * (i - 1) + Every
                      /\ Every * i <= Every * n
    OBVIOUS
  <2>1. i - 1 \in Nat /\ i \in Nat
    OBVIOUS
  <2>2. Every * (i - 1) \in Nat /\ Every * i = Every * (i - 1) + Every
    BY <1>0, <2>1
  <2>3. i < n => Every * i <= Every * n
    <3>1. i < n => Every * i + Every <= Every * n
      BY <1>0, <2>1, Multiples
    <3>2. Every * i \in Nat /\ Every * n \in Nat
      BY <1>0, <2>1
    <3> QED BY <1>0, <3>1, <3>2
  <2> QED BY <1>0, <2>2, <2>3
<1>4. f \in [1 .. n -> T]
  <2> SUFFICES ASSUME NEW i \in 1 .. n PROVE first + Every * (i - 1) \in T
    OBVIOUS
  <2>1. PICK j \in Nat : j = i - 1
    OBVIOUS
  <2>2. /\ Every * (p + j) = Every * p + Every * j /\ p + j \in Nat /\ Every * (p + j) \in Nat
        /\ Every * p \in Nat /\ Every * j \in Nat /\ 0 \in 0 .. Every - 1
    BY <1>0
  <2>3. (first + Every * j) - a = Every * (p + j) /\ first + Every * j \in Nat
        /\ first + Every * j >= a
    BY <1>1, <2>2
  <2>4. (Every * (p + j)) % Every = 0
    BY <1>0, <2>2, Division, Every * (p + j) = Every * (p + j) + 0
  <2>5. first + Every * (i - 1) \in first .. first + Every * n - 1
    <3>1. Every * n \in Nat
      BY <1>0
    <3> QED BY <1>0, <1>3, <3>1
  <2> QED BY <2>1, <2>3, <2>4, <2>5
<1>5. \A i, j \in 1 .. n : f[i] = f[j] => i = j
  <2> SUFFICES ASSUME NEW i \in 1 .. n, NEW j \in 1 .. n, i < j PROVE f[i] < f[j]
    BY SMTT(40), <1>3
  <2>1. Every * (i - 1) + Every <= Every * (j - 1)
    BY <1>0, Multiples, i - 1 \in Nat, j - 1 \in Nat, i - 1 < j - 1
  <2> QED BY <1>0, <1>3, <2>1
<1>6. \A t \in T : \E i \in 1 .. n : f[i] = t
  <2> SUFFICES ASSUME NEW t \in T PROVE \E i \in 1 .. n : f[i] = t
    OBVIOUS
  <2>1. t \in Nat /\ first <= t /\ t < first + Every * n /\ (t - a) % Every = 0 /\ a <= t
    BY <1>0
  <2>2. PICK q \in Nat : t = a + Every * q
    <3>1. PICK q \in Nat, x \in 0 .. Every - 1 :
             t = a + Every * q + x /\ (t - a) \div Every = q /\ (t - a) % Every = x
      BY <1>0, <2>1, InInterval
    <3> QED BY <1>0, <2>1, <3>1
  <2>3. Every * q \in Nat /\ Every * p \in Nat /\ Every * (p + n) = Every * p + Every * n /\ Every * n \in Nat
    BY <1>0
  <2>4. p <= q
    BY <1>0, <1>1, <2>1, <2>2, <2>3, Multiples
  <2>5. q < p + n
    <3>1. p + n < q => Every * (p + n) + Every <= Every * q
      BY <1>0, Multiples
    <3> QED BY <1>0, <1>1, <2>1, <2>2, <2>3, <3>1
  <2>6. q - p + 1 \in 1 .. n
    BY <2>4, <2>5
  <2>7. Every * ((q - p + 1) - 1) = Every * q - Every * p
    BY <1>0
  <2>8. f[q - p + 1] = t
    BY <1>1, <2>2, <2>3, <2>6, <2>7
  <2> QED BY <2>6, <2>8
<1>7. f \in Bijection(1 .. n, T)
  <2> HIDE DEF f, T
  <2> QED BY <1>4, <1>5, <1>6 DEF Bijection, Injection, Surjection, IsInjective
<1>8. IsFiniteSet(1 .. n) /\ Cardinality(1 .. n) = n
  BY FS_Interval
<1> HIDE DEF T, f
<1>9. Cardinality(T) = Cardinality(1 .. n)
  BY <1>7, <1>8, FS_Bijection DEF ExistsBijection
<1> QED BY <1>2, <1>8, <1>9

-----------------------------------------------------------------------------
(* Steps.                                                                  *)

\* What keeps the slots as they are, or ends them together with the status.
SlotsRest ==
  /\ UNCHANGED <<now, anchor, seen, history>>
  /\ occurrences' \subseteq occurrences
  /\ \/ UNCHANGED <<status, nextRun>>
     \/ status' # "enabled" /\ nextRun' = NoTime

\* The actions of a step.
SlotsMove ==
  \/ \E s \in Schedulers : FindDue(s) \/ ScheduleOne(s) \/ AlreadyHandled(s)
  \/ Resume \/ EditSchedule \/ Tick

\* Only a scheduler, a resume, another schedule and the clock move slots.
LEMMA OthersRest ==
  ASSUME TypeOK, [Next]_vars
  PROVE  SlotsRest \/ SlotsMove
<1> USE DEF SlotsRest, TypeOK, Becomes, vars, monitorVars, history
<1>1. CASE LoadRunNow \/ LoadResume \/ LoadArchive \/ Restore \/ ChangeAccess
  BY <1>1 DEF LoadRunNow, LoadResume, LoadArchive, Restore, ChangeAccess
<1>2. CASE RunNow
  <2>1. UNCHANGED <<now, anchor, seen, history, occurrences>>
    BY <1>2 DEF RunNow
  <2>2. UNCHANGED <<status, nextRun>> \/ (status' # "enabled" /\ nextRun' = NoTime)
    BY <1>2 DEF RunNow
  <2> QED BY <2>1, <2>2
<1>3. CASE Pause \/ Disable \/ Delete
  BY <1>3 DEF Pause, Disable, Delete
<1>4. CASE UpdateQuery \/ Archive
  BY <1>4 DEF UpdateQuery, Archive
<1>5. ASSUME NEW v \in Versions, NEW o \in {"failed", "completed", "canceled"},
             StartRun(v) \/ FinishRun(v, o)
      PROVE  SlotsRest
  BY <1>5 DEF StartRun, FinishRun
<1>6. CASE PruneOccurrences
  BY <1>6 DEF PruneOccurrences
<1>7. CASE UNCHANGED vars
  BY <1>7
<1> HIDE DEF SlotsRest
<1> QED BY <1>1, <1>2, <1>3, <1>4, <1>5, <1>6, <1>7 DEF Next, SchedulerStep, SlotsMove

\* A dispatch that nothing blocks has no execution before it and the definition that is pinned.
LEMMA Unblocked ==
  ASSUME NEW caseIs, NEW trouble \in Troubles
  PROVE  /\ Blocker(caseIs, trouble) \in Reasons \cup {"overlap", "budget_exhausted"}
         /\ Blocker(caseIs, trouble) = "none" => ~Active /\ query = pinned
         /\ PausesFor(Blocker(caseIs, trouble)) => Blocker(caseIs, trouble) \in Reasons
BY DEF Blocker, Troubles, Reasons, PausesFor

\* The slot that a scheduler handles lies behind every recorded one, so that it is always recorded
\* and the next one is as many intervals later as are accounted for.
LEMMA Scheduled ==
  ASSUME TypeOK, SlotsFollow, NEW s \in Schedulers, ScheduleOne(s)
  PROVE  \E slot \in nextRun .. now, missed \in Nat, d \in BOOLEAN :
           /\ occurrences' = occurrences \cup
                {[slot |-> slot, dispatched |-> d, missed |-> missed, created |-> now]}
           /\ accounted' = accounted + missed + 1
           /\ \/ /\ status' = "enabled" /\ reason' = reason
                 /\ nextRun' = nextRun + Every * (missed + 1)
                 /\ nextRun' \in seen[s] + 1 .. seen[s] + Every
                 /\ nextRun' > slot
              \/ status' = "paused" /\ nextRun' = NoTime /\ reason' \in Reasons
           /\ \/ runs' = runs
              \/ ~Active /\ query = pinned /\ runs' = [runs EXCEPT ![<<"queued", query>>] = @ + 1]
<1> DEFINE n == seen[s]
           turn == SlotToRun(Plan, UTC, anchor, Grace, nextRun, n)
           next == FollowingSlot(Plan, UTC, anchor, turn.slot, n)
           BlockerOf(trouble) == IF turn.late /\ policy = "skip" THEN "missed"
                                 ELSE Blocker(caseStatus, trouble)
<1>0. Every \in Nat \ {0} /\ MaxTime \in Nat
  BY MonitorsAssumption
<1>1. /\ status = "enabled" /\ n # NoTime /\ n \in Times /\ nextRun <= n /\ nextRun \in Times
      /\ anchor \in Nat /\ nextRun \in Nat /\ n \in Nat /\ now \in Nat /\ n <= now
  BY <1>0 DEF ScheduleOne, StillDue, TypeOK, SlotsFollow, Times
<1>2. anchor <= nextRun /\ (nextRun - anchor) % Every = 0
  <2>1. since \in Nat /\ accounted \in Nat /\ since >= anchor /\ (since - anchor) % Every = 0
        /\ nextRun = since + Every * accounted
    BY <1>0, <1>1 DEF SlotsFollow, TypeOK, Times
  <2>2. PICK q \in Nat, x \in 0 .. Every - 1 :
           /\ since = anchor + Every * q + x
           /\ (since - anchor) \div Every = q
           /\ (since - anchor) % Every = x
    <3>1. anchor \in Nat /\ since \in Nat /\ anchor <= since /\ Every \in Nat \ {0}
      BY <1>0, <1>1, <2>1
    <3> QED BY ONLY <3>1, InInterval
  <2>3. Every * (q + accounted) = Every * q + Every * accounted /\ Every * q \in Nat /\ Every * accounted \in Nat
        /\ Every * (q + accounted) \in Nat /\ q + accounted \in Nat /\ 0 \in 0 .. Every - 1
    BY <1>0, <2>1
  <2>4. nextRun - anchor = Every * (q + accounted)
    BY <1>0, <1>1, <2>1, <2>2, <2>3
  <2>5. (Every * (q + accounted)) % Every = 0
    BY <1>0, <2>3, Division, Every * (q + accounted) = Every * (q + accounted) + 0
  <2> QED BY <1>0, <1>1, <2>1, <2>3, <2>4, <2>5
<1>3. /\ turn.slot \in nextRun .. n /\ turn.missed \in Nat
      /\ next \in n + 1 .. n + Every
      /\ next = nextRun + Every * (turn.missed + 1)
  <2> HIDE DEF n
  <2> QED BY <1>1, <1>2, Turn
<1>4. ~Recorded(turn.slot)
  <2>1. \A o \in occurrences : o.slot < nextRun /\ o.slot \in Nat
    BY <1>0, <1>1 DEF SlotsFollow, TypeOK, Times
  <2> HIDE DEF turn
  <2> QED BY <1>1, <1>3, <2>1 DEF Recorded
<1>5. PICK trouble \in Troubles :
         /\ occurrences' = occurrences \cup
              {[slot |-> turn.slot, dispatched |-> BlockerOf(trouble) = "none",
                missed |-> turn.missed, created |-> now]}
         /\ accounted' = accounted + turn.missed + 1
         /\ NewRun(BlockerOf(trouble))
         /\ IF PausesFor(BlockerOf(trouble)) THEN Becomes("paused", BlockerOf(trouble), NoTime)
            ELSE Becomes("enabled", reason, next)
  <2> HIDE DEF n
  <2> QED BY <1>4 DEF ScheduleOne, n
<1> DEFINE blocker == BlockerOf(trouble)
<1>6. /\ blocker = "none" => ~Active /\ query = pinned
      /\ PausesFor(blocker) => blocker \in Reasons
  BY Unblocked DEF PausesFor
<1> HIDE DEF turn, next, blocker, n, BlockerOf
<1>7. \/ runs' = runs
      \/ ~Active /\ query = pinned /\ runs' = [runs EXCEPT ![<<"queued", query>>] = @ + 1]
  BY <1>5, <1>6 DEF NewRun, blocker
<1>8. \/ /\ status' = "enabled" /\ reason' = reason /\ nextRun' = next
      \/ status' = "paused" /\ nextRun' = NoTime /\ reason' \in Reasons
  BY <1>5, <1>6 DEF Becomes, blocker
<1>9. (blocker = "none") \in BOOLEAN /\ turn.slot \in nextRun .. now /\ next > turn.slot
  BY <1>0, <1>1, <1>3
<1>10. \/ /\ status' = "enabled" /\ reason' = reason
          /\ nextRun' = nextRun + Every * (turn.missed + 1)
          /\ nextRun' \in n + 1 .. n + Every
          /\ nextRun' > turn.slot
       \/ status' = "paused" /\ nextRun' = NoTime /\ reason' \in Reasons
  BY <1>3, <1>8, <1>9
<1>11. /\ occurrences' = occurrences \cup
            {[slot |-> turn.slot, dispatched |-> blocker = "none",
              missed |-> turn.missed, created |-> now]}
       /\ accounted' = accounted + turn.missed + 1
  BY <1>5 DEF blocker
<1> QED BY <1>3, <1>7, <1>9, <1>10, <1>11 DEF n

\* How the unfinished executions change: one is created while none is unfinished, queued ones end
\* together, and one is started or finished.
RunsMove ==
  \/ runs' = runs
  \/ ~Active /\ query = pinned /\ runs' = [runs EXCEPT ![<<"queued", query>>] = @ + 1]
  \/ runs' = WithoutQueued
  \/ \E v \in Versions :
       /\ runs[<<"queued", v>>] > 0
       /\ runs' = [runs EXCEPT ![<<"queued", v>>] = @ - 1, ![<<"running", v>>] = @ + 1]
  \/ \E v \in Versions :
       /\ runs[<<"running", v>>] > 0
       /\ runs' = [runs EXCEPT ![<<"running", v>>] = @ - 1]

\* Every step changes them in one of these ways.
LEMMA RunKindsMove == ASSUME TypeOK, SlotsFollow, [Next]_vars PROVE RunsMove
<1>1. CASE UNCHANGED runs
  BY <1>1 DEF RunsMove
<1>2. ASSUME NEW s \in Schedulers, FindDue(s) \/ AlreadyHandled(s) PROVE UNCHANGED runs
  BY <1>2 DEF FindDue, AlreadyHandled
<1>3. ASSUME NEW s \in Schedulers, ScheduleOne(s) PROVE RunsMove
  BY <1>3, Scheduled DEF RunsMove
<1>4. CASE RunNow
  <2>1. \/ UNCHANGED runs
        \/ \E trouble \in Troubles : NewRun(Blocker("active", trouble))
    BY <1>4 DEF RunNow
  <2>2. ASSUME NEW trouble \in Troubles, NewRun(Blocker("active", trouble)) PROVE RunsMove
    BY <2>2, Unblocked DEF NewRun, RunsMove
  <2> QED BY <1>1, <2>1, <2>2
<1>5. CASE \/ LoadRunNow \/ Pause \/ LoadResume \/ Resume \/ EditSchedule \/ Delete \/ UpdateQuery
           \/ LoadArchive \/ Archive \/ Restore \/ ChangeAccess \/ PruneOccurrences \/ Tick
  <2>1. UNCHANGED runs
    BY <1>5 DEF LoadRunNow, Pause, LoadResume, Resume, EditSchedule, Delete, UpdateQuery,
                LoadArchive, Archive, Restore, ChangeAccess, PruneOccurrences, Tick
  <2> QED BY <1>1, <2>1
<1>6. CASE Disable
  BY <1>6 DEF Disable, RunsMove
<1>7. ASSUME NEW v \in Versions, StartRun(v) PROVE RunsMove
  BY <1>7 DEF StartRun, RunsMove
<1>8. ASSUME NEW v \in Versions, NEW o \in {"failed", "completed", "canceled"}, FinishRun(v, o)
      PROVE  RunsMove
  BY <1>8 DEF FinishRun, RunsMove
<1>9. CASE UNCHANGED vars
  BY <1>1, <1>9 DEF vars
<1> QED BY <1>1, <1>2, <1>3, <1>4, <1>5, <1>6, <1>7, <1>8, <1>9 DEF Next, SchedulerStep

\* The kinds of executions, and the definition that the query has.
LEMMA Kinds ==
  ASSUME TypeOK
  PROVE  /\ \A v \in Versions : <<"queued", v>> \in RunKinds /\ <<"running", v>> \in RunKinds
         /\ query \in Versions /\ runs \in [RunKinds -> Nat]
         /\ \A k \in RunKinds : k[1] \in {"queued", "running"} /\ k[2] \in Versions
BY DEF TypeOK, RunKinds

\* One execution at most stays unfinished.
LEMMA OneActiveStep ==
  ASSUME TypeOK, OneActiveRun, RunsMove
  PROVE  runs' \in [RunKinds -> Nat] /\ OneActiveRun'
<1>0. /\ \A v \in Versions : <<"queued", v>> \in RunKinds /\ <<"running", v>> \in RunKinds
      /\ query \in Versions /\ runs \in [RunKinds -> Nat]
  BY Kinds
<1>1. CASE runs' = runs
  BY <1>0, <1>1 DEF OneActiveRun
<1>2. CASE ~Active /\ runs' = [runs EXCEPT ![<<"queued", query>>] = @ + 1]
  <2>1. \A k \in RunKinds : runs[k] = 0
    BY <1>0, <1>2 DEF Active
  <2>2. <<"queued", query>> \in RunKinds
    BY <1>0
  <2> HIDE DEF RunKinds
  <2> QED BY <1>0, <1>2, <2>1, <2>2 DEF OneActiveRun
<1>3. CASE runs' = WithoutQueued
  <2>1. \A k \in RunKinds : WithoutQueued[k] = runs[k] \/ WithoutQueued[k] = 0
    BY DEF WithoutQueued
  <2>2. WithoutQueued \in [RunKinds -> Nat]
    BY <1>0 DEF WithoutQueued
  <2> QED BY <1>0, <1>3, <2>1, <2>2 DEF OneActiveRun
<1>4. ASSUME NEW v \in Versions, runs[<<"queued", v>>] > 0,
             runs' = [runs EXCEPT ![<<"queued", v>>] = @ - 1, ![<<"running", v>>] = @ + 1]
      PROVE  runs' \in [RunKinds -> Nat] /\ OneActiveRun'
  <2> DEFINE i == <<"queued", v>>
             j == <<"running", v>>
  <2>1. i \in RunKinds /\ j \in RunKinds /\ i # j
    BY <1>0
  <2>2. /\ runs[i] > 0 /\ runs' = [runs EXCEPT ![i] = runs[i] - 1, ![j] = runs[j] + 1]
    BY <1>4, <2>1
  <2> HIDE DEF i, j
  <2>3. runs[i] = 1 /\ \A k \in RunKinds : k # i => runs[k] = 0
    BY <1>0, <2>1, <2>2 DEF OneActiveRun
  <2>4. runs' \in [RunKinds -> Nat]
    BY <1>0, <2>1, <2>2, <2>3
  <2>5. \A k \in RunKinds : runs'[k] = IF k = j THEN 1 ELSE 0
    BY <1>0, <2>1, <2>2, <2>3
  <2> QED BY <2>4, <2>5 DEF OneActiveRun
<1>5. ASSUME NEW v \in Versions, runs[<<"running", v>>] > 0,
             runs' = [runs EXCEPT ![<<"running", v>>] = @ - 1]
      PROVE  runs' \in [RunKinds -> Nat] /\ OneActiveRun'
  <2> DEFINE j == <<"running", v>>
  <2>1. j \in RunKinds /\ runs[j] > 0 /\ runs' = [runs EXCEPT ![j] = runs[j] - 1]
    BY <1>0, <1>5
  <2> HIDE DEF j
  <2>2. runs[j] = 1 /\ \A k \in RunKinds : k # j => runs[k] = 0
    BY <1>0, <2>1 DEF OneActiveRun
  <2>3. runs' \in [RunKinds -> Nat] /\ \A k \in RunKinds : runs'[k] = 0
    BY <1>0, <2>1, <2>2
  <2> QED BY <2>3 DEF OneActiveRun
<1> QED BY <1>1, <1>2, <1>3, <1>4, <1>5 DEF RunsMove

\* The slots follow each other through every step.
LEMMA SlotsStep ==
  ASSUME TypeOK, SlotsFollow, [Next]_vars
  PROVE  SlotsFollow'
<1>0. /\ Every \in Nat \ {0} /\ MaxTime \in Nat /\ NoTime \notin Nat
      /\ now \in Nat /\ anchor \in Nat /\ since \in Nat /\ accounted \in Nat
      /\ seen \in [Schedulers -> Times \cup {NoTime}]
      /\ \A o \in occurrences : o.slot \in Nat
      /\ status = "enabled" => nextRun \in Nat
      /\ anchor <= now
      /\ \A s \in Schedulers : seen[s] # NoTime => seen[s] \in Nat /\ seen[s] <= now
  BY MonitorsAssumption DEF TypeOK, SlotsFollow, Times
<1>1. CASE SlotsRest
  BY <1>1 DEF SlotsRest, SlotsFollow, history
<1>2. ASSUME NEW s \in Schedulers, FindDue(s) \/ AlreadyHandled(s) PROVE SlotsFollow'
  <2>1. /\ UNCHANGED <<now, anchor, status, nextRun, occurrences, since, accounted>>
        /\ seen' = [seen EXCEPT ![s] = now] \/ seen' = [seen EXCEPT ![s] = NoTime]
    BY <1>2 DEF FindDue, AlreadyHandled, monitorVars, history
  <2>2. \A z \in Schedulers : seen'[z] # NoTime => seen'[z] <= now'
    BY <1>0, <2>1
  <2> QED BY <2>1, <2>2 DEF SlotsFollow
<1>3. ASSUME NEW s \in Schedulers, ScheduleOne(s) PROVE SlotsFollow'
  <2>1. PICK slot \in nextRun .. now, missed \in Nat, d \in BOOLEAN :
           /\ occurrences' = occurrences \cup
                {[slot |-> slot, dispatched |-> d, missed |-> missed, created |-> now]}
           /\ accounted' = accounted + missed + 1
           /\ \/ /\ status' = "enabled"
                 /\ nextRun' = nextRun + Every * (missed + 1)
                 /\ nextRun' > slot
              \/ status' = "paused"
    BY <1>3, Scheduled
  <2>2. /\ status = "enabled" /\ UNCHANGED <<now, anchor, since>>
        /\ seen' = [seen EXCEPT ![s] = NoTime]
    BY <1>3 DEF ScheduleOne, StillDue
  <2>3. \A z \in Schedulers : seen'[z] # NoTime => seen'[z] <= now'
    BY <1>0, <2>2
  <2>4. \A o \in occurrences' : o \in occurrences \/ o.slot = slot
    BY <2>1
  <2>5. nextRun \in Nat /\ slot \in Nat /\ nextRun <= slot /\ slot <= now
    BY <1>0, <2>2
  <2>6. \A o \in occurrences' : o.slot <= now'
    BY <1>0, <2>2, <2>4, <2>5 DEF SlotsFollow
  <2>7. ASSUME status' = "enabled"
        PROVE  nextRun' = since' + Every * accounted' /\ \A o \in occurrences' : o.slot < nextRun'
    <3>1. nextRun' = nextRun + Every * (missed + 1) /\ nextRun' > slot
      BY <2>1, <2>7
    <3>2. /\ Every * (accounted + (missed + 1)) = Every * accounted + Every * (missed + 1)
          /\ Every * (missed + 1) \in Nat /\ Every * accounted \in Nat
      BY <1>0
    <3>3. accounted' = accounted + (missed + 1)
      BY <1>0, <2>1
    <3>4. nextRun' = since' + Every * accounted'
      BY <1>0, <2>2, <3>1, <3>2, <3>3 DEF SlotsFollow
    <3>5. \A o \in occurrences : o.slot < nextRun'
      BY <1>0, <2>2, <2>5, <3>1, <3>2 DEF SlotsFollow
    <3> QED BY <2>4, <3>1, <3>4, <3>5
  <2> QED BY <2>2, <2>3, <2>6, <2>7 DEF SlotsFollow
<1>4. CASE Resume
  <2>1. /\ UNCHANGED <<now, anchor, occurrences, seen>>
        /\ nextRun' = NextSlot(anchor, now) /\ since' = NextSlot(anchor, now) /\ accounted' = 0
    BY <1>4 DEF Resume, Becomes, Restarted
  <2>2. /\ NextSlot(anchor, now) \in now + 1 .. now + Every
        /\ NextSlot(anchor, now) >= anchor /\ (NextSlot(anchor, now) - anchor) % Every = 0
    BY <1>0, NextSlots
  <2>3. Every * 0 = 0
    BY <1>0
  <2> QED BY <1>0, <2>1, <2>2, <2>3 DEF SlotsFollow
<1>5. CASE EditSchedule
  <2>1. UNCHANGED <<now, status, occurrences, seen>> /\ anchor' = now
    BY <1>5 DEF EditSchedule
  <2>2. status = "enabled" =>
          nextRun' = NextSlot(now, now) /\ since' = NextSlot(now, now) /\ accounted' = 0
    BY <1>5 DEF EditSchedule, Restarted
  <2>3. /\ NextSlot(now, now) \in now + 1 .. now + Every
        /\ NextSlot(now, now) >= now /\ (NextSlot(now, now) - now) % Every = 0
    BY <1>0, now <= now, NextSlots
  <2>4. Every * 0 = 0
    BY <1>0
  <2>5. CASE status = "enabled"
    BY <1>0, <2>1, <2>2, <2>3, <2>4, <2>5 DEF SlotsFollow
  <2>6. CASE status # "enabled"
    BY <1>0, <2>1, <2>6 DEF SlotsFollow
  <2> QED BY <2>5, <2>6
<1>6. CASE Tick
  <2>1. now' = now + 1 /\ UNCHANGED <<anchor, status, nextRun, occurrences, seen, since, accounted>>
    BY <1>6 DEF Tick, monitorVars, history
  <2> QED BY <1>0, <2>1 DEF SlotsFollow
<1> QED BY <1>1, <1>2, <1>3, <1>4, <1>5, <1>6, OthersRest DEF SlotsMove

\* The smaller of two.
LEMMA SmallerOf ==
  ASSUME NEW i \in Int, NEW j \in Int
  PROVE  Min({i, j}) = IF i <= j THEN i ELSE j
<1> DEFINE m == IF i <= j THEN i ELSE j
<1>1. m \in {i, j} /\ \A y \in {i, j} : m <= y
  OBVIOUS
<1>2. \A z \in {i, j} : (\A y \in {i, j} : z <= y) => z = m
  OBVIOUS
<1> QED BY <1>1, <1>2 DEF Min

\* The types of the row of the monitor.
RowTypes ==
  /\ status \in {"enabled", "paused", "disabled", "deleted"}
  /\ reason \in Reasons
  /\ nextRun \in Times \cup {NoTime}
  /\ status # "enabled" <=> nextRun = NoTime
  /\ anchor \in Times
  /\ pinned \in Versions
  /\ policy \in MissedRunPolicies
  /\ failures \in 0 .. MaxFailures

\* A row whose status changes, with the next slot that goes with it.
LEMMA RowBecomes ==
  ASSUME RowTypes, NEW s \in {"enabled", "paused", "disabled", "deleted"}, NEW why \in Reasons,
         NEW next, s = "enabled" => next \in Times, Becomes(s, why, next)
  PROVE  /\ status' \in {"enabled", "paused", "disabled", "deleted"}
         /\ reason' \in Reasons
         /\ nextRun' \in Times \cup {NoTime}
         /\ status' # "enabled" <=> nextRun' = NoTime
<1>1. NoTime \notin Times
  BY MonitorsAssumption DEF Times
<1> QED BY <1>1 DEF Becomes

\* Every step keeps the types of the row.
LEMMA RowTypesStep ==
  ASSUME TypeOK, SlotsFollow, [Next]_vars
  PROVE  RowTypes'
<1>0. RowTypes
  BY DEF TypeOK, RowTypes
<1> DEFINE Row == /\ status' \in {"enabled", "paused", "disabled", "deleted"}
                  /\ reason' \in Reasons
                  /\ nextRun' \in Times \cup {NoTime}
                  /\ status' # "enabled" <=> nextRun' = NoTime
<1>1. /\ now \in Nat /\ anchor \in Nat /\ anchor <= now /\ NoTime \notin Times
      /\ \A t \in now + 1 .. now + Every : t \in Times
      /\ now \in Times /\ Every \in Nat \ {0} /\ MaxFailures \in Nat \ {0}
      /\ \A s \in Schedulers : seen[s] # NoTime => seen[s] \in Nat /\ seen[s] <= now
  BY MonitorsAssumption DEF TypeOK, SlotsFollow, Times
<1>2. UNCHANGED <<status, reason, nextRun>> => Row
  BY <1>0 DEF RowTypes
<1>3. \A why \in Reasons : Becomes("paused", why, NoTime) => Row
  BY <1>0, RowBecomes
<1>4. UNCHANGED monitorVars => RowTypes'
  BY <1>0 DEF RowTypes, monitorVars
<1>5. Row /\ UNCHANGED <<anchor, pinned, policy, failures>> => RowTypes'
  BY <1>0 DEF RowTypes
<1>6. {"manual", "case_archived", "query_changed", "repeated_failures", "none"} \subseteq Reasons
  BY DEF Reasons
<1>7. \/ UNCHANGED monitorVars
      \/ \E s \in Schedulers : ScheduleOne(s)
      \/ RunNow \/ Pause \/ Resume \/ EditSchedule \/ Disable \/ Delete \/ UpdateQuery \/ Archive
      \/ \E v \in Versions, o \in {"failed", "completed", "canceled"} : FinishRun(v, o)
  <2>1. ASSUME NEW s \in Schedulers, SchedulerStep(s) PROVE UNCHANGED monitorVars \/ ScheduleOne(s)
    BY <2>1 DEF SchedulerStep, FindDue, AlreadyHandled
  <2>2. CASE LoadRunNow \/ LoadResume \/ LoadArchive \/ Restore \/ ChangeAccess
    BY <2>2 DEF LoadRunNow, LoadResume, LoadArchive, Restore, ChangeAccess
  <2>3. ASSUME NEW v \in Versions, StartRun(v) PROVE UNCHANGED monitorVars
    BY <2>3 DEF StartRun
  <2>4. CASE PruneOccurrences \/ Tick \/ UNCHANGED vars
    BY <2>4 DEF PruneOccurrences, Tick, vars
  <2> QED BY <2>1, <2>2, <2>3, <2>4 DEF Next
<1>8. ASSUME NEW s \in Schedulers, ScheduleOne(s) PROVE RowTypes'
  <2>1. UNCHANGED <<anchor, pinned, policy, failures>> /\ reason \in Reasons
    BY <1>0, <1>8 DEF ScheduleOne, RowTypes
  <2>2. \/ /\ status' = "enabled" /\ reason' = reason
           /\ nextRun' \in seen[s] + 1 .. seen[s] + Every
        \/ status' = "paused" /\ nextRun' = NoTime /\ reason' \in Reasons
    <3>1. PICK slot \in nextRun .. now, missed \in Nat, d \in BOOLEAN :
            \/ /\ status' = "enabled" /\ reason' = reason
               /\ nextRun' \in seen[s] + 1 .. seen[s] + Every
            \/ status' = "paused" /\ nextRun' = NoTime /\ reason' \in Reasons
      BY <1>8, Scheduled
    <3> QED BY <3>1
  <2>3. \A t \in seen[s] + 1 .. seen[s] + Every : t \in Times
    <3>1. seen[s] # NoTime
      BY <1>8 DEF ScheduleOne
    <3>2. now \in 0 .. MaxTime /\ MaxTime \in Nat
      BY MonitorsAssumption DEF TypeOK
    <3> QED BY <1>1, <3>1, <3>2 DEF Times
  <2>4. Row
    BY <1>1, <2>1, <2>2, <2>3
  <2> QED BY <1>5, <2>1, <2>4
<1>9. CASE RunNow
  <2>1. \/ UNCHANGED <<status, reason, nextRun>>
        \/ \E trouble \in Troubles :
             PausesFor(Blocker("active", trouble)) /\ Becomes("paused", Blocker("active", trouble), NoTime)
    BY <1>9 DEF RunNow
  <2>2. Row
    BY <1>2, <1>3, <2>1, Unblocked
  <2> QED BY <1>5, <1>9, <2>2 DEF RunNow
<1>10. CASE Pause \/ UpdateQuery \/ Archive
  <2>1. /\ UNCHANGED <<anchor, pinned, policy, failures>>
        /\ \/ UNCHANGED <<status, reason, nextRun>>
           \/ \E why \in {"manual", "case_archived", "query_changed"} : Becomes("paused", why, NoTime)
    BY <1>10 DEF Pause, UpdateQuery, Archive
  <2> QED BY <1>2, <1>3, <1>5, <1>6, <2>1
<1>11. CASE Resume
  <2>1. NextSlot(anchor, now) \in Times
    BY <1>1, NextSlots
  <2>2. Becomes("enabled", "none", NextSlot(anchor, now))
    BY <1>11 DEF Resume
  <2>3. Row
    BY <1>0, <1>6, <2>1, <2>2, RowBecomes
  <2>4. loaded.resume \in Versions
    BY <1>11 DEF Resume, RowIsFree, TypeOK
  <2> QED BY <1>0, <1>1, <1>11, <2>3, <2>4 DEF RowTypes, Resume
<1>12. CASE EditSchedule
  <2>1. NextSlot(now, now) \in Times
    BY <1>1, now <= now, NextSlots
  <2>2. Row
    BY <1>0, <1>1, <1>12, <2>1 DEF EditSchedule, RowTypes
  <2> QED BY <1>0, <1>1, <1>12, <2>2 DEF EditSchedule, RowTypes
<1>13. CASE Disable
  <2>1. Row
    BY <1>0, <1>6, <1>13, RowBecomes DEF Disable
  <2> QED BY <1>5, <1>13, <2>1 DEF Disable
<1>14. CASE Delete
  BY <1>0, <1>14 DEF Delete, RowTypes
<1>15. ASSUME NEW v \in Versions, NEW o \in {"failed", "completed", "canceled"}, FinishRun(v, o)
       PROVE  RowTypes'
  <2>1. Row
    BY <1>2, <1>3, <1>6, <1>15 DEF FinishRun
  <2>2. FailuresAfter(o) \in Nat
    BY <1>0, <1>1 DEF FailuresAfter, RowTypes
  <2>3. failures' \in 0 .. MaxFailures
    BY <1>1, <1>15, <2>2, SmallerOf DEF FinishRun
  <2> QED BY <1>0, <1>15, <2>1, <2>3 DEF FinishRun, RowTypes
<1> QED BY <1>4, <1>7, <1>8, <1>9, <1>10, <1>11, <1>12, <1>13, <1>14, <1>15

\* The types of the case, the query and the requests.
OtherTypes ==
  /\ now \in 0 .. MaxTime
  /\ caseStatus \in {"active", "archived"}
  /\ access \in BOOLEAN
  /\ query \in Versions
  /\ loaded \in [request : Requests, resume : Versions \cup {NotResuming}]
  /\ edits \in Nat /\ manual \in 0 .. MaxManual

\* Every step keeps them.
LEMMA OtherTypesStep == ASSUME OtherTypes, [Next]_vars PROVE OtherTypes'
<1> USE DEF OtherTypes
<1>1. /\ {MaxTime, MaxEdits, MaxManual} \subseteq Nat
      /\ \A r \in Requests : [loaded EXCEPT !.request = r] \in
                               [request : Requests, resume : Versions \cup {NotResuming}]
      /\ \A v \in Versions \cup {NotResuming} : [loaded EXCEPT !.resume = v] \in
                               [request : Requests, resume : Versions \cup {NotResuming}]
      /\ {"none", "run_now", "archive"} \subseteq Requests
  BY MonitorsAssumption DEF Requests
<1>2. ASSUME NEW s \in Schedulers, SchedulerStep(s) PROVE OtherTypes'
  BY <1>2 DEF SchedulerStep, FindDue, ScheduleOne, AlreadyHandled, caseVars, bounds
<1>3. CASE LoadRunNow \/ LoadArchive
  BY <1>1, <1>3 DEF LoadRunNow, LoadArchive, caseVars, bounds
<1>4. CASE RunNow
  <2>1. UNCHANGED <<now, caseVars, bounds>> /\ loaded' = [loaded EXCEPT !.request = "none"]
    BY <1>4 DEF RunNow
  <2> QED BY <1>1, <2>1 DEF caseVars, bounds
<1>5. CASE Pause \/ Disable \/ Delete
  BY <1>5 DEF Pause, Disable, Delete, caseVars, bounds
<1>6. CASE LoadResume \/ Resume
  <2>1. /\ UNCHANGED <<now, caseVars, bounds>>
        /\ \/ loaded' = [loaded EXCEPT !.resume = query]
           \/ loaded' = [loaded EXCEPT !.resume = NotResuming]
    BY <1>6 DEF LoadResume, Resume
  <2> QED BY <1>1, <2>1 DEF caseVars, bounds
<1>7. CASE EditSchedule
  BY <1>7 DEF EditSchedule, caseVars
<1>8. CASE UpdateQuery
  <2>1. /\ edits < MaxEdits /\ edits' = edits + 1 /\ query' = edits + 1
        /\ UNCHANGED <<now, caseStatus, access, loaded, manual>>
    BY <1>8 DEF UpdateQuery
  <2>2. query' \in Versions /\ edits' \in Nat
    BY <1>1, <2>1 DEF Versions
  <2> QED BY <2>1, <2>2
<1>9. CASE Archive
  <2>1. /\ UNCHANGED <<now, access, query, bounds>> /\ caseStatus' = "archived"
        /\ loaded' = [loaded EXCEPT !.request = "none"]
    BY <1>9 DEF Archive
  <2> QED BY <1>1, <2>1 DEF bounds
<1>10. CASE Restore \/ ChangeAccess
  BY <1>10 DEF Restore, ChangeAccess, bounds
<1>11. ASSUME NEW v \in Versions, NEW o \in {"failed", "completed", "canceled"},
              StartRun(v) \/ FinishRun(v, o)
       PROVE  OtherTypes'
  BY <1>11 DEF StartRun, FinishRun, caseVars, bounds
<1>12. CASE PruneOccurrences \/ UNCHANGED vars
  BY <1>12 DEF PruneOccurrences, vars, caseVars, bounds
<1>13. CASE Tick
  BY <1>1, <1>13 DEF Tick, caseVars, bounds
<1> QED BY <1>2, <1>3, <1>4, <1>5, <1>6, <1>7, <1>8, <1>9, <1>10, <1>11, <1>12, <1>13 DEF Next

\* The types of what schedulers and the history keep.
SlotTypes ==
  /\ occurrences \subseteq [slot : Times, dispatched : BOOLEAN, missed : Nat, created : Times]
  /\ seen \in [Schedulers -> Times \cup {NoTime}]
  /\ since \in Times /\ accounted \in Nat

\* Every step keeps them.
LEMMA SlotTypesStep ==
  ASSUME TypeOK, SlotsFollow, [Next]_vars
  PROVE  SlotTypes'
<1>0. SlotTypes
  BY DEF TypeOK, SlotTypes
<1>1. /\ now \in Times /\ anchor \in Nat /\ now \in Nat /\ anchor <= now /\ 0 \in Nat
      /\ \A t \in now + 1 .. now + Every : t \in Times
      /\ \A t \in Nat : t <= now => t \in Times
      /\ status = "enabled" => nextRun \in Nat
  BY MonitorsAssumption DEF TypeOK, SlotsFollow, Times
<1>2. CASE SlotsRest
  BY <1>0, <1>2 DEF SlotsRest, SlotTypes, history
<1>3. ASSUME NEW s \in Schedulers, FindDue(s) \/ AlreadyHandled(s) PROVE SlotTypes'
  BY <1>0, <1>1, <1>3 DEF FindDue, AlreadyHandled, SlotTypes, history
<1>4. ASSUME NEW s \in Schedulers, ScheduleOne(s) PROVE SlotTypes'
  <2>1. PICK slot \in nextRun .. now, missed \in Nat, d \in BOOLEAN :
           /\ occurrences' = occurrences \cup
                {[slot |-> slot, dispatched |-> d, missed |-> missed, created |-> now]}
           /\ accounted' = accounted + missed + 1
    BY <1>4, Scheduled
  <2>2. status = "enabled" /\ UNCHANGED since /\ seen' = [seen EXCEPT ![s] = NoTime]
    BY <1>4 DEF ScheduleOne, StillDue
  <2>3. slot \in Times
    BY <1>1, <2>2
  <2>4. [slot |-> slot, dispatched |-> d, missed |-> missed, created |-> now] \in
          [slot : Times, dispatched : BOOLEAN, missed : Nat, created : Times]
    BY <1>1, <2>3
  <2>5. accounted' \in Nat
    BY <1>0, <2>1 DEF SlotTypes
  <2> QED BY <1>0, <2>1, <2>2, <2>4, <2>5 DEF SlotTypes
<1>5. CASE Resume
  <2>1. NextSlot(anchor, now) \in Times
    BY <1>1, NextSlots
  <2> QED BY <1>0, <1>5, <2>1 DEF Resume, Restarted, SlotTypes
<1>6. CASE EditSchedule
  <2>1. NextSlot(now, now) \in Times
    BY <1>1, now <= now, NextSlots
  <2>2. UNCHANGED <<occurrences, seen>> /\ since' \in Times /\ accounted' \in Nat
    BY <1>0, <1>6, <2>1 DEF EditSchedule, Restarted, SlotTypes, history
  <2> QED BY <1>0, <2>2 DEF SlotTypes
<1>7. CASE Tick
  BY <1>0, <1>7 DEF Tick, SlotTypes, history
<1> QED BY <1>2, <1>3, <1>4, <1>5, <1>6, <1>7, OthersRest DEF SlotsMove

-----------------------------------------------------------------------------
(* The theorems.                                                           *)

\* The invariant holds at first.
LEMMA InitIInv == Init => IInv
<1> SUFFICES ASSUME Init PROVE IInv
  OBVIOUS
<1>1. /\ Every \in Nat \ {0} /\ MaxFailures \in Nat \ {0} /\ {MaxTime, MaxEdits, MaxManual} \subseteq Nat
      /\ NoTime \notin Nat
  BY MonitorsAssumption
<1>2. 0 \in Times /\ 0 \in 0 .. MaxTime /\ 0 \in Versions /\ 0 \in 0 .. MaxFailures /\ 0 \in 0 .. MaxManual
  BY <1>1 DEF Times, Versions
<1>3. RowTypes
  BY <1>2 DEF Init, RowTypes, Reasons
<1>4. OtherTypes
  BY <1>2 DEF Init, OtherTypes, Requests
<1>5. SlotTypes
  BY <1>2 DEF Init, SlotTypes
<1>6. runs \in [RunKinds -> Nat] /\ OneActiveRun
  BY DEF Init, OneActiveRun
<1>7. TypeOK
  BY <1>3, <1>4, <1>5, <1>6 DEF TypeOK, RowTypes, OtherTypes, SlotTypes
<1>8. SlotsFollow
  BY DEF Init, SlotsFollow
<1> QED BY <1>6, <1>7, <1>8 DEF IInv

\* Every step keeps it.
LEMMA InvStep == IInv /\ [Next]_vars => IInv'
<1> SUFFICES ASSUME IInv, [Next]_vars PROVE IInv'
  OBVIOUS
<1>1. TypeOK /\ SlotsFollow /\ OneActiveRun /\ OtherTypes
  BY DEF IInv, TypeOK, OtherTypes
<1>2. RunsMove
  BY <1>1, RunKindsMove
<1>3. runs' \in [RunKinds -> Nat] /\ OneActiveRun'
  BY <1>1, <1>2, OneActiveStep
<1>4. RowTypes' /\ OtherTypes' /\ SlotTypes'
  BY <1>1, RowTypesStep, OtherTypesStep, SlotTypesStep
<1>5. TypeOK'
  BY <1>3, <1>4 DEF TypeOK, RowTypes, OtherTypes, SlotTypes
<1>6. SlotsFollow'
  BY <1>1, SlotsStep
<1> QED BY <1>3, <1>5, <1>6 DEF IInv

\* The invariant always holds.
LEMMA Invariance == Spec => []IInv
<1> QED BY InitIInv, InvStep, PTL DEF Spec

\* The types of the variables.
THEOREM TypeCorrect == Spec => []TypeOK
<1>1. IInv => TypeOK
  BY DEF IInv
<1> QED BY <1>1, Invariance, PTL

\* However many schedulers and analysts start executions, one at most is unfinished.
THEOREM OneActiveRunAlways == Spec => []OneActiveRun
<1>1. IInv => OneActiveRun
  BY DEF IInv
<1> QED BY <1>1, Invariance, PTL

\* While a monitor is enabled, the slots from the first one on to its next one are as many as
\* occurrences account for: none is lost and none counted twice.
THEOREM SlotsAreAccountedAlways == Spec => []SlotsAreAccounted
<1>1. IInv => SlotsAreAccounted
  <2> SUFFICES ASSUME IInv, status = "enabled"
               PROVE  accounted = Cardinality(Occurrences(Plan, UTC, anchor, since .. nextRun - 1))
    BY DEF SlotsAreAccounted
  <2>1. anchor \in Nat /\ since \in Nat /\ accounted \in Nat
    BY MonitorsAssumption DEF IInv, TypeOK, Times
  <2>2. anchor <= since /\ (since - anchor) % Every = 0 /\ nextRun = since + Every * accounted
    BY <2>1 DEF IInv, SlotsFollow
  <2>3. Cardinality(Occurrences(Plan, UTC, anchor, since .. since + Every * accounted - 1)) = accounted
    BY <2>1, <2>2, SlotsOfARange
  <2>4. since .. nextRun - 1 = since .. since + Every * accounted - 1
    <3>1. since + Every * accounted \in Int /\ Every \in Nat
      BY <2>1, MonitorsAssumption
    <3> QED BY <2>1, <2>2, <3>1
  <2> DEFINE range == since .. since + Every * accounted - 1
  <2>5. since .. nextRun - 1 = range /\ Cardinality(Occurrences(Plan, UTC, anchor, range)) = accounted
    BY <2>3, <2>4
  <2> HIDE DEF range
  <2> QED BY ONLY <2>5
<1> QED BY <1>1, Invariance, PTL

\* No execution is created with another definition than the one that is pinned.
THEOREM ReviewedDefinitionAlways == Spec => ReviewedDefinition
<1> DEFINE Reviewed == \A v \in Versions : runs'[<<"queued", v>>] > runs[<<"queued", v>>] => v = pinned
<1>1. ASSUME IInv, [Next]_vars PROVE Reviewed
  <2> SUFFICES ASSUME NEW v \in Versions, runs'[<<"queued", v>>] > runs[<<"queued", v>>]
               PROVE  v = pinned
    OBVIOUS
  <2> DEFINE k == <<"queued", v>>
  <2>1. TypeOK /\ SlotsFollow
    BY <1>1 DEF IInv
  <2>2. RunsMove
    BY <1>1, <2>1, RunKindsMove
  <2>3. runs \in [RunKinds -> Nat] /\ k \in RunKinds /\ query \in Versions
    BY <2>1, Kinds
  <2>4. runs' # runs
    BY <2>3
  <2>5. runs' # WithoutQueued
    BY <2>3 DEF WithoutQueued
  <2>6. ASSUME NEW u \in Versions, runs' = [runs EXCEPT ![<<"running", u>>] = @ - 1] PROVE FALSE
    <3>1. <<"running", u>> # k
      OBVIOUS
    <3>2. runs'[k] = runs[k]
      BY <2>3, <2>6, <3>1
    <3> QED BY <2>3, <3>2
  <2>7. ASSUME NEW u \in Versions,
               runs' = [runs EXCEPT ![<<"queued", u>>] = @ - 1, ![<<"running", u>>] = @ + 1]
        PROVE  FALSE
    <3>1. <<"running", u>> # k
      OBVIOUS
    <3>2. runs'[k] = runs[k] \/ runs'[k] = runs[k] - 1
      BY <2>3, <2>7, <3>1
    <3> QED BY <2>3, <3>2
  <2>8. query = pinned /\ runs' = [runs EXCEPT ![<<"queued", query>>] = @ + 1]
    BY <2>2, <2>4, <2>5, <2>6, <2>7 DEF RunsMove
  <2>9. CASE v # query
    <3>1. <<"queued", query>> # k
      BY <2>9
    <3>2. runs'[k] = runs[k]
      BY <2>3, <2>8, <3>1
    <3> QED BY <2>3, <3>2
  <2> QED BY <2>8, <2>9
<1>2. IInv /\ [Next]_vars => [Reviewed]_vars
  BY <1>1
<1> QED BY <1>2, Invariance, PTL DEF Spec, ReviewedDefinition
================================================================================
