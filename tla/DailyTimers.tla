---------------------------- MODULE DailyTimers ----------------------------
(***************************************************************************)
(* The wall clock that the daily tasks share.  It stands at one of a few   *)
(* hours of a UTC day at a time; what takes seconds happens between them.  *)
(***************************************************************************)
EXTENDS Naturals, Sequences

CONSTANTS
  Hours,        \* the hours of a day the clock stands at, ascending
  TradingDays,  \* the days the exchange is open
  MaxDay        \* bound: the last day

PerDay == Len(Hours)

ASSUME TimersAssumption ==
  /\ Hours \in Seq(0..23) /\ PerDay > 0
  /\ \A i, j \in DOMAIN Hours : i < j => Hours[i] < Hours[j]
  /\ TradingDays \subseteq Nat /\ MaxDay \in Nat

VARIABLE now  \* moments since the first day began

Moments == 0..((MaxDay + 1) * PerDay - 1)
Day(t) == t \div PerDay
HourOfDay(t) == Hours[(t % PerDay) + 1]
Hour(t) == 24 * Day(t) + HourOfDay(t)

\* The clock moves on, unless a task is due: a timer fires within the moment.
TimePasses(due) == ~due /\ now + 1 \in Moments /\ now' = now + 1
=============================================================================
