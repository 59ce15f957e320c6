-------------------------- MODULE RecurringSchedule --------------------------
(***************************************************************************)
(* The recurring schedule of a scenario: how a configuration is normalised,*)
(* the next run shown to its readers, and the occurrences that are due.    *)
(*                                                                         *)
(* Times are counted in units of UTC time; an hour and a day have a few.   *)
(* A time zone is its distance from UTC (it does not change with the       *)
(* seasons here), and months are given by their lengths.                   *)
(***************************************************************************)
EXTENDS Integers, Sequences, FiniteSets

CONSTANTS Hour, Day,     \* units
          MonthDays,     \* the lengths of the months; day 0 is the first of month 1
          Moments,       \* times of the readers and of the materialisation
          Requests,      \* the configurations that clients send
          Catchup        \* maxRecurringCatchupOccurrences

VARIABLES now, schedule, made

scheduleVars == <<now, schedule, made>>

Weekdays == 0..6
Frequencies == {"hourly", "daily", "weekly", "monthly"}
Disabled == [enabled |-> FALSE]
-----------------------------------------------------------------------------
(* Calendar.  Days are counted from the first of the first month.          *)

Months == DOMAIN MonthDays
MonthStart[m \in Months] == IF m = 1 THEN 0 ELSE MonthStart[m - 1] + MonthDays[m - 1]
MonthOf(day) == CHOOSE m \in Months : MonthStart[m] <= day /\ day < MonthStart[m] + MonthDays[m]
DayOfMonth(day) == day - MonthStart[MonthOf(day)] + 1

\* AddDate(0, n, 0): the same number in another month, normalised.
AddMonths(day, n) == MonthStart[MonthOf(day) + n] + DayOfMonth(day) - 1

LocalDay(t, cfg) == (t + cfg.zone) \div Day
Weekday(day) == day % 7

\* time.Date of a local day at the schedule's time of day.
Date(day, cfg) == day * Day + cfg.time - cfg.zone
-----------------------------------------------------------------------------
\* NormalizeRecurringScheduleConfig: fields that the frequency does not use
\* are cleared, and what is not acceptable is refused.
Accepted(cfg) ==
  cfg.enabled =>
    /\ cfg.frequency \in Frequencies \cup {""}
    /\ cfg.frequency = "hourly" => cfg.minute \in 0..Hour - 1
    /\ cfg.frequency # "hourly" => cfg.time \in 0..Day - 1
    /\ cfg.frequency = "weekly" => cfg.weekday \in Weekdays
    /\ cfg.frequency = "monthly" => cfg.dom \in 1..31
Normalize(cfg) ==
  IF ~cfg.enabled THEN Disabled
  ELSE LET f == IF cfg.frequency = "" THEN "daily" ELSE cfg.frequency
       IN [enabled |-> TRUE, frequency |-> f, zone |-> cfg.zone,
           minute |-> IF f = "hourly" THEN cfg.minute ELSE 0,
           time |-> IF f = "hourly" THEN 0 ELSE cfg.time,
           weekday |-> IF f = "weekly" THEN cfg.weekday ELSE 0,
           dom |-> IF f = "monthly" THEN cfg.dom ELSE 0]

Smaller(a, b) == IF a < b THEN a ELSE b
DayIn(month, cfg) == MonthStart[month] + Smaller(cfg.dom, MonthDays[month]) - 1
ThisHour(t, cfg) == t - ((t + cfg.zone) % Hour) + cfg.minute

\* nextScheduledTime: the occurrence that is due.  The weekday is that of now
\* in UTC, the date that of now in the time zone.
nextScheduledTime(t, cfg) ==
  LET today == LocalDay(t, cfg)
  IN CASE cfg.frequency = "hourly" ->
            IF ThisHour(t, cfg) > t THEN ThisHour(t, cfg) - Hour ELSE ThisHour(t, cfg)
       [] cfg.frequency = "weekly" ->
            LET candidate == Date(today - ((Weekday(t \div Day) - cfg.weekday + 7) % 7), cfg)
            IN IF candidate > t THEN candidate - 7 * Day ELSE candidate
       [] cfg.frequency = "monthly" ->
            LET candidate == Date(DayIn(MonthOf(today), cfg), cfg)
            IN IF candidate > t THEN Date(DayIn(MonthOf(AddMonths(today, -1)), cfg), cfg) ELSE candidate
       [] OTHER -> IF Date(today, cfg) > t THEN Date(today - 1, cfg) ELSE Date(today, cfg)

previousScheduledTime(t, cfg) ==
  CASE cfg.frequency = "hourly" -> t - Hour
    [] cfg.frequency = "weekly" -> t - 7 * Day
    [] cfg.frequency = "monthly" -> Date(DayIn(MonthOf(AddMonths(LocalDay(t, cfg), -1)), cfg), cfg)
    [] OTHER -> t - Day

\* (Mutant: an occurrence at this very moment is taken for a past one.)
nextAfterScheduledTime(t, cfg) ==
  LET today == LocalDay(t, cfg)
  IN CASE cfg.frequency = "hourly" -> IF ThisHour(t, cfg) <= t THEN ThisHour(t, cfg) + Hour ELSE ThisHour(t, cfg)
       [] cfg.frequency = "daily" -> IF Date(today, cfg) <= t THEN Date(today + 1, cfg) ELSE Date(today, cfg)
       [] OTHER -> Date(today, cfg)

\* nextFutureScheduledTime: the next run that readers are shown.
nextFutureScheduledTime(t, cfg) ==
  LET today == LocalDay(t, cfg)
  IN CASE cfg.frequency = "hourly" ->
            IF ThisHour(t, cfg) < t THEN ThisHour(t, cfg) + Hour ELSE ThisHour(t, cfg)
       [] cfg.frequency = "weekly" ->
            LET candidate == Date(today + ((cfg.weekday - Weekday(t \div Day) + 7) % 7), cfg)
            IN IF candidate < t THEN candidate + 7 * Day ELSE candidate
       [] cfg.frequency = "monthly" ->
            LET candidate == Date(DayIn(MonthOf(today), cfg), cfg)
            IN IF candidate < t THEN Date(DayIn(MonthOf(AddMonths(today, 1)), cfg), cfg) ELSE candidate
       [] OTHER -> IF Date(today, cfg) < t THEN Date(today + 1, cfg) ELSE Date(today, cfg)

\* dueRecurringScheduleTimes: walks back from the occurrence that is due and
\* collects Catchup occurrences that do not exist; a step that does not lead
\* back ends the walk.
dueRecurringScheduleTimes(t, cfg, existing) ==
  LET last == Catchup + Cardinality(existing)
      Walk[k \in 0..last] ==
        IF k = 0 THEN nextScheduledTime(t, cfg)
        ELSE LET prev == previousScheduledTime(Walk[k - 1], cfg)
             IN IF prev < Walk[k - 1] THEN prev ELSE Walk[k - 1]
      Missing(k) == {Walk[i] : i \in 0..k} \ existing
  IN UNION {Missing(k) : k \in {i \in 0..last : Cardinality(Missing(i)) <= Catchup}}
-----------------------------------------------------------------------------
ScheduleInit == now \in Moments /\ schedule = Disabled /\ made = {}

\* UpdateRecurringSchedule: stored with the live iteration, or refused.
UpdateRecurringSchedule ==
  /\ schedule = Disabled
  /\ \E cfg \in Requests : Accepted(cfg) /\ schedule' = Normalize(cfg)
  /\ UNCHANGED <<now, made>>

\* Executions exist for some of the last occurrences.
Materialized ==
  /\ schedule # Disabled
  /\ made = {}
  /\ LET due == dueRecurringScheduleTimes(now, schedule, {})
     IN made' \in {S \in SUBSET due : Cardinality(S) \in 1..2}
  /\ UNCHANGED <<now, schedule>>

ScheduleNext == UpdateRecurringSchedule \/ Materialized
-----------------------------------------------------------------------------
(* The schedule as its reader understands it: an occurrence is a local     *)
(* time; a month that is too short has its occurrence on its last day.     *)

Occurs(t, cfg) ==
  LET local == t + cfg.zone  day == local \div Day
  IN CASE cfg.frequency = "hourly" -> local % Hour = cfg.minute
       [] cfg.frequency = "daily" -> local % Day = cfg.time
       [] cfg.frequency = "weekly" -> local % Day = cfg.time /\ Weekday(day) = cfg.weekday
       [] cfg.frequency = "monthly" ->
            local % Day = cfg.time /\ DayOfMonth(day) = Smaller(cfg.dom, MonthDays[MonthOf(day)])
FirstFrom(t, u, cfg) == Occurs(u, cfg) /\ \A v \in t..u - 1 : ~Occurs(v, cfg)

\* The weekday of now differs between UTC and the time zone.
OtherWeekday(t, cfg) == cfg.frequency = "weekly" /\ LocalDay(t, cfg) # t \div Day
\* The other month has no day with the number of today.
NoSuchDay(t, cfg, n) ==
  LET day == LocalDay(t, cfg) IN cfg.frequency = "monthly" /\ DayOfMonth(day) > MonthDays[MonthOf(day) + n]

\* The day before or after an occurrence.
BesideOccurrence(t, cfg) == Occurs(t - Day, cfg) \/ Occurs(t + Day, cfg)

\* (Part of OccurrencesAgree.)  The next run that a reader is shown is never in the
\* past, and is the first occurrence from now on, for every frequency and time
\* zone, with two exceptions (nextFutureScheduledTime).  While it is another day of
\* the week in UTC, a weekly schedule shows the day beside its occurrence, no more;
\* and on a day that the next month does not have, a monthly one passes over one
\* occurrence, no more.
NextRunIsFirst ==
  schedule # Disabled =>
    LET next == nextFutureScheduledTime(now, schedule)
        passed == {v \in now..next - 1 : Occurs(v, schedule)}
    IN /\ next >= now
       /\ CASE OtherWeekday(now, schedule) -> BesideOccurrence(next, schedule) /\ next - now <= 7 * Day
            [] NoSuchDay(now, schedule, 1) -> Occurs(next, schedule) /\ Cardinality(passed) <= 1
            [] OTHER -> FirstFrom(now, next, schedule)

\* (Part of OccurrencesAgree.)  What is due are the latest occurrences that have no
\* execution, as many as the catch-up allows, none twice and none ahead of time,
\* with the same two exceptions: the first moves them all by a day, and the second
\* cuts the walk short and may start it at the coming occurrence
\* (dueRecurringScheduleTimes).
DueAreLatestMissing ==
  schedule # Disabled =>
    LET due == dueRecurringScheduleTimes(now, schedule, made)
        oldest == CHOOSE t \in due : \A u \in due : t <= u
    IN /\ due \cap made = {}
       /\ CASE OtherWeekday(now, schedule) -> \A t \in due : t <= now /\ BesideOccurrence(t, schedule)
            [] schedule.frequency = "monthly" /\ schedule.dom > 28 ->
              (\A t \in due : Occurs(t, schedule)) /\ Cardinality({t \in due : t > now}) <= 1
            [] OTHER -> /\ Cardinality(due) = Catchup /\ \A t \in due : t <= now
                        /\ \A t \in oldest..now : Occurs(t, schedule) <=> t \in due \cup made

\* The two walks over the calendar, forward for readers and backward for the
\* materialisation, agree with the schedule that the configuration states.
OccurrencesAgree == NextRunIsFirst /\ DueAreLatestMissing
=============================================================================
