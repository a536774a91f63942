------------------------------ MODULE Schedule ------------------------------
(***************************************************************************)
(* trading_common.scheduler: the delay until a calendar slot, and the loop *)
(* of a PeriodicTask.  Time is counted in half hours from a Monday, 00:00. *)
(* The assumptions at the end are what the jobs aligned with it rely on    *)
(* (the weekly revalidation of backtest), over every half hour of a week.  *)
(***************************************************************************)
EXTENDS Integers, Sequences

Hours(n) == 2 * n
Days(n) == Hours(24) * n
WeekdayOf(time) == (time \div Days(1)) % 7
Midnight(time) == time - (time % Days(1))

\* A slot that is now, or is past, is the next week's (the next day's).
UntilWeekdayHour(now, weekday, hour) ==
  LET slot == Midnight(now) + Days((weekday - WeekdayOf(now)) % 7) + Hours(hour)
  IN  (IF slot <= now THEN slot + Days(7) ELSE slot) - now
UntilHour(now, hour) ==
  LET slot == Midnight(now) + Hours(hour)
  IN  (IF slot <= now THEN slot + Days(1) ELSE slot) - now

\* PeriodicTask._loop: when run k starts, from the time each run takes.  The
\* interval is slept after the run, whether it failed or not.
RunStart(start, initialDelay, interval, duration) ==
  LET at[k \in 1..Len(duration)] ==
        IF k = 1 THEN start + initialDelay ELSE at[k - 1] + duration[k - 1] + interval
  IN  at

-----------------------------------------------------------------------------
\* The delay ends on the slot, and on no later one: it is never zero, so that a
\* job started at its own time does not fire twice.
ASSUME DelaysEndOnTheSlot ==
  \A now \in 0..Days(7) - 1 :
    /\ \A weekday \in 0..6, hour \in {0, 6, 23} :
         LET delay == UntilWeekdayHour(now, weekday, hour)
         IN  /\ delay \in 1..Days(7)
             /\ WeekdayOf(now + delay) = weekday /\ (now + delay) % Days(1) = Hours(hour)
    /\ \A hour \in 0..23 :
         /\ UntilHour(now, hour) \in 1..Days(1)
         /\ (now + UntilHour(now, hour)) % Days(1) = Hours(hour)

\* A job is never started while its last run goes on.  The price is that the
\* time runs take is lost to the calendar: an aligned weekly job starts on its
\* slot once and then later by all the runs so far, and back only by a restart.
ASSUME RunsDoNotOverlap ==
  \A now \in {0, Days(3), Days(5) + Hours(6)}, duration \in [1..4 -> {0, 1, Hours(5)}] :
    LET at == RunStart(now, UntilWeekdayHour(now, 5, 6), Days(7), duration)
        late(k) == (at[k] - at[1]) % Days(7)
    IN  /\ \A k \in 2..4 : at[k] >= at[k - 1] + duration[k - 1] + Days(7)
        /\ late(4) = duration[1] + duration[2] + duration[3]
=============================================================================
