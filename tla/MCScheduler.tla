---------------------------- MODULE MCScheduler ----------------------------
(* Small instances of Scheduler.                                           *)
EXTENDS Scheduler

MCCall(helper, n, h, d) == [helper |-> helper, n |-> n, h |-> h, d |-> d]
MCDailyAt(h, n) == MCCall("dailyAt", n, h, 0)
MCZone(h) == MCCall("timezone", 0, h, 0)

MCKind == <<"database", "job", "unknown", "callback">>

(* Daily, in a zone and not; within the hour; weekly; monthly; raw; and    *)
(* every way to get a definition wrong.                                    *)
MCChains ==
  << {<<MCDailyAt(3, 0)>>,
      <<MCCall("weekdays", 0, 0, 0), MCDailyAt(3, 0), MCZone(2)>>,
      <<MCDailyAt(24, 0)>>},
     {<<MCCall("everyMinutes", 30, 0, 0)>>,
      <<MCCall("everyMinutes", 10, 0, 0), MCCall("weekdays", 0, 0, 0)>>,
      <<MCZone(2)>>},
     {<<MCCall("weeklyOn", 0, 3, 6)>>, <<MCCall("hourlyAt", 30, 0, 0)>>},
     {<<MCCall("monthlyOn", 0, 3, 31)>>, <<MCCall("cron", 30, 3, 6)>>,
      <<MCCall("cron", 60, 3, 6)>>} >>

(* 01:00, 03:00 and 03:30 of Saturday the 28th of February, midnight of    *)
(* the first and 03:00 of the 31st of March.                               *)
MCInstants == {1440 * 27 + 60, 1440 * 27 + 180, 1440 * 27 + 210, 1440 * 28,
               1440 * 58 + 180}

(* The schedule of defineSchedule, on three days.                          *)
MCDefaultKind == <<"database">>
MCDefaultChains == <<{<<MCDailyAt(3, 0)>>}>>
MCDefaultInstants == {1440 * d + 180 : d \in 0..2}
=============================================================================
