------------------------------ MODULE Schedule ------------------------------
(***************************************************************************)
(* The schedule builder.  A task is defined by a chain of calls, such as   *)
(* .dailyAt("03:00").timezone("America/Chicago"); each frequency helper    *)
(* replaces the cron expression of the one before it, and one whose        *)
(* arguments are out of range throws.                                      *)
(*                                                                         *)
(* A call is a record: n is the minute, or N of everyNMinutes, h the hour  *)
(* (of "timezone": how many hours the zone is ahead of UTC), d the weekday *)
(* or the day of the month; what a helper has no argument for is 0.  The   *)
(* raw expressions of "cron" are those of the form "n h * * d", in and out *)
(* of range.  An expression is the set of values each of its fields        *)
(* matches; the month field is "*" in all of them.  The time is counted in *)
(* minutes since Sunday, the first of February 2026, and ends in March.    *)
(***************************************************************************)
EXTENDS Naturals, Sequences

FrequencyHelpers == {"everyMinutes", "hourlyAt", "dailyAt", "weeklyOn",
                     "monthlyOn", "weekdays", "weekends", "cron"}

Call == [helper : FrequencyHelpers \cup {"timezone"},
         n : Nat, h : Nat, d : Nat]

Minutes == 0..59
Hours == 0..23
MonthDays == 1..31
Weekdays == 0..6

Intervals == {1, 2, 5, 10, 15, 30}

-----------------------------------------------------------------------------
(* The arguments.                                                          *)

TimeIsValid(c) == c.h \in Hours /\ c.n \in Minutes

(* What parseTime and the assert functions let pass.  everyMinutes stands  *)
(* for six helpers without arguments.                                      *)
ArgumentsAreValid(c) ==
  [everyMinutes |-> c.n \in Intervals,
   hourlyAt     |-> c.n \in Minutes,
   dailyAt      |-> TimeIsValid(c),
   weeklyOn     |-> c.d \in Weekdays /\ TimeIsValid(c),
   monthlyOn    |-> c.d \in MonthDays /\ TimeIsValid(c),
   weekdays     |-> TRUE, weekends |-> TRUE,
   cron         |-> TRUE, timezone |-> TRUE][c.helper]

(* The chain throws, and with it defineSchedule.                           *)
Throws(chain) == \E k \in DOMAIN chain : ~ArgumentsAreValid(chain[k])

-----------------------------------------------------------------------------
(* The draft a chain leaves.                                               *)

FrequencyCalls(chain) ==
  {k \in DOMAIN chain : chain[k].helper \in FrequencyHelpers}

Missing(chain) == FrequencyCalls(chain) = {}

(* Variant: a frequency that is set is kept. *)
FirstFrequency(chain) ==
  chain[CHOOSE k \in FrequencyCalls(chain) :
          \A j \in FrequencyCalls(chain) : k <= j]

LastFrequency(chain) ==
  chain[CHOOSE k \in FrequencyCalls(chain) :
          \A j \in FrequencyCalls(chain) : j <= k]

(* The builder takes any raw expression; node-cron looks at the one that   *)
(* is left, and takes 0 and 7 for Sunday.                                  *)
Refused(chain) ==
  /\ ~Missing(chain)
  /\ LastFrequency(chain).helper = "cron"
  /\ ~(TimeIsValid(LastFrequency(chain)) /\ LastFrequency(chain).d \in 0..7)

(* The last timezone of the chain; without one, the host's, taken as UTC.  *)
Ahead(chain) ==
  LET zones == {k \in DOMAIN chain : chain[k].helper = "timezone"} IN
  IF zones = {} THEN 0
  ELSE chain[CHOOSE k \in zones : \A j \in zones : j <= k].h

-----------------------------------------------------------------------------
(* When a task is due.                                                     *)

Fields(minutes, hours, days, weekdays) ==
  [minute |-> minutes, hour |-> hours, day |-> days, weekday |-> weekdays]

(* The expression a helper writes. *)
Expression(c) ==
  [everyMinutes |-> Fields({c.n * k : k \in Minutes} \cap Minutes, Hours,
                           MonthDays, Weekdays),
   hourlyAt     |-> Fields({c.n}, Hours, MonthDays, Weekdays),
   dailyAt      |-> Fields({c.n}, {c.h}, MonthDays, Weekdays),
   weeklyOn     |-> Fields({c.n}, {c.h}, MonthDays, {c.d}),
   monthlyOn    |-> Fields({c.n}, {c.h}, {c.d}, Weekdays),
   weekdays     |-> Fields({0}, {0}, MonthDays, 1..5),
   weekends     |-> Fields({0}, {0}, MonthDays, {0, 6}),
   cron         |-> Fields({c.n}, {c.h}, MonthDays, {c.d % 7})][c.helper]

Day(time) == time \div 1440

DayOfMonth(time) == IF Day(time) < 28 THEN Day(time) + 1 ELSE Day(time) - 27

(* node-cron runs a task in each minute all fields match.                  *)
Due(chain, utc) ==
  LET e == Expression(LastFrequency(chain))
      time == utc + 60 * Ahead(chain)
  IN  /\ time % 60 \in e.minute
      /\ (time \div 60) % 24 \in e.hour
      /\ DayOfMonth(time) \in e.day
      /\ Day(time) % 7 \in e.weekday

(* What the name of a helper says of a minute of its zone, in the words of *)
(* docs/scheduled-commands.md and in minutes, without a cron expression.   *)
Named(c, time) ==
  LET at == 60 * c.h + c.n IN
  CASE c.helper = "everyMinutes" -> time % c.n = 0
    [] c.helper = "hourlyAt" -> time % 60 = c.n
    [] c.helper = "dailyAt" -> time % 1440 = at
    [] c.helper = "weeklyOn" -> time % 10080 = 1440 * c.d + at
    [] c.helper = "cron" -> time % 10080 = 1440 * (c.d % 7) + at
    [] c.helper = "monthlyOn" ->
         \E first \in {0, 40320} : /\ time = first + 1440 * (c.d - 1) + at
                                   /\ first = 0 => c.d <= 28
    [] c.helper = "weekdays" -> time % 10080 \in {1440 * d : d \in 1..5}
    [] c.helper = "weekends" -> time % 10080 \in {0, 6 * 1440}

=============================================================================
