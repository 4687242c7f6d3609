-------------------------------- MODULE Schedule --------------------------------
(***************************************************************************)
(* Occurrence times of a monitor's schedule, in ticks of a clock in UTC,   *)
(* and the slot that a scheduler runs when it comes late.                  *)
(*                                                                         *)
(* A zone is one change of its offset: until the instant change the local  *)
(* clock shows t + before, from then on t + after.                         *)
(***************************************************************************)
EXTENDS Integers, FiniteSets, FiniteSetsExt

CONSTANTS
  Day,          \* ticks of a day
  WeekDays,     \* days of a week
  ScanDays      \* bound of the loops over days

ASSUME ScheduleAssumption == {Day, WeekDays, ScanDays} \subseteq Nat \ {0}

Interval(every) == [kind |-> "interval", every |-> every, at |-> 0, weekdays |-> {}]
Daily(at) == [kind |-> "daily", every |-> 0, at |-> at, weekdays |-> 0 .. WeekDays - 1]
Weekly(at, weekdays) == [kind |-> "weekly", every |-> 0, at |-> at, weekdays |-> weekdays]

LocalDay(zone, t) == (t + IF t < zone.change THEN zone.before ELSE zone.after) \div Day

\* Mutant: of two equal wall times the second, and the offset after a jump.
LocalOccurrenceLater(s, zone, day) ==
  LET wall == day * Day + s.at
      last == zone.change + Min({zone.before, zone.after})
  IN  wall - IF wall < last THEN zone.before ELSE zone.after

\* local_occurrence: with fold = 0 a wall time that the clock jumps over, and the first of two
\* equal ones, has the offset before the change.
LocalOccurrence(s, zone, day) ==
  LET wall == day * Day + s.at
      last == zone.change + Max({zone.before, zone.after})
  IN  wall - IF wall < last THEN zone.before ELSE zone.after

OnDay(s, day) == day % WeekDays \in s.weekdays

\* next_after: the days from the one before `after` on, until an occurrence is later.
NextAfter(s, zone, anchor, after) ==
  IF s.kind = "interval"
  THEN IF after < anchor THEN anchor
       ELSE anchor + s.every * ((after - anchor) \div s.every + 1)
  ELSE LET first == LocalDay(zone, after) - 1
           days == {d \in first .. first + ScanDays - 1 :
                      OnDay(s, d) /\ LocalOccurrence(s, zone, d) > after}
       IN  LocalOccurrence(s, zone, Min(days))

\* at_or_before: backwards from the day after `moment`.
AtOrBefore(s, zone, anchor, moment) ==
  IF s.kind = "interval"
  THEN anchor + s.every * ((moment - anchor) \div s.every)
  ELSE LET last == LocalDay(zone, moment) + 1
           days == {d \in last - ScanDays + 1 .. last :
                      OnDay(s, d) /\ LocalOccurrence(s, zone, d) <= moment}
       IN  LocalOccurrence(s, zone, Max(days))

\* count_between: from just before start on, occurrence by occurrence, until end.
CountBetween(s, zone, anchor, start, end) ==
  IF end <= start THEN 0
  ELSE IF s.kind = "interval"
  THEN LET first == IF (start - anchor) % s.every = 0 THEN start
                    ELSE NextAfter(s, zone, anchor, start)
       IN  IF first >= end THEN 0 ELSE (end - first - 1) \div s.every + 1
  ELSE LET count[cursor \in start - 1 .. end] ==
             LET next == NextAfter(s, zone, anchor, cursor)
             IN  IF next >= end THEN 0 ELSE 1 + count[next]
       IN  count[start - 1]

\* _slot_to_run: within the grace a slot is on time.  The grace is the setting, and at most half
\* of the nominal interval.
OnTime(s, setting, lateness) ==
  /\ lateness <= setting
  /\ CASE s.kind = "interval" -> 2 * lateness <= s.every
       [] s.kind = "daily" -> 2 * lateness <= Day
       [] s.kind = "weekly" -> 2 * lateness * Cardinality(s.weekdays) <= WeekDays * Day

\* The slot, how many were missed before it, and whether it was missed itself.
SlotToRun(s, zone, anchor, setting, due, now) ==
  LET latest == Max({AtOrBefore(s, zone, anchor, now), due})
  IN  IF OnTime(s, setting, now - due) THEN [slot |-> due, missed |-> 0, late |-> FALSE]
      ELSE [slot |-> latest, missed |-> CountBetween(s, zone, anchor, due, latest),
            late |-> ~OnTime(s, setting, now - latest)]

\* schedule_one: the next slot after one was handled.
FollowingSlot(s, zone, anchor, slot, now) == NextAfter(s, zone, anchor, Max({slot, now}))

-----------------------------------------------------------------------------
(* What the times should be.                                               *)

\* The instants in a range of ticks at which schedule s has an occurrence.
Occurrences(s, zone, anchor, range) ==
  IF s.kind = "interval"
  THEN {t \in range : t >= anchor /\ (t - anchor) % s.every = 0}
  ELSE {t \in range :
          \E d \in LocalDay(zone, t) - 1 .. LocalDay(zone, t) + 1 :
            OnDay(s, d) /\ LocalOccurrence(s, zone, d) = t}

\* The instant that is meant by a local time on a day: the first at which the clock shows it; when it
\* shows it never, the clock that had not been changed would (monitoring/schedule.py:7-11).
Meant(s, zone, day) ==
  LET wall == day * Day + s.at
      Shown(t) == t + IF t < zone.change THEN zone.before ELSE zone.after
      told == {t \in {wall - zone.before, wall - zone.after} : Shown(t) = wall}
  IN  IF told = {} THEN wall - zone.before ELSE Min(told)

\* A scheduler that comes at some time after a slot was due runs the last slot until then, counts
\* each one it passes over, and goes on with the first slot to come, also across a change of the
\* zone's offset: no slot is run twice or lost (monitoring/scheduler.py:57-73, 100-131).  The grace is
\* less than the distance of any two slots, as its default of five minutes is.
SlotsAreTold(s, zone, setting, due, now) ==
  LET days == {d \in LocalDay(zone, due) - 2 .. LocalDay(zone, now) + ScanDays : OnDay(s, d)}
      slots == {Meant(s, zone, d) : d \in days}
      run == SlotToRun(s, zone, 0, setting, due, now)
  IN  /\ run.slot \in slots /\ run.slot \in due .. now
      /\ Cardinality({t \in slots : due <= t /\ t <= now}) = run.missed + 1
      /\ run.late <=> (now - due > setting /\ now - run.slot > setting)
      /\ FollowingSlot(s, zone, 0, run.slot, now) = Min({t \in slots : t > now})
================================================================================
