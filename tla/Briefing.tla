------------------------------ MODULE Briefing ------------------------------
(***************************************************************************)
(* The advisor's briefing loop: one briefing at start-up, then one per     *)
(* trading day at briefing_hour_utc, or earlier when a refresh is asked    *)
(* for.  Briefings are cached in memory by date, and the loop skips a date *)
(* that has one.  A briefing takes calls of a model and of a second one    *)
(* when the first fails; both may fail, in some seconds.  What it says is   *)
(* left out.                                                               *)
(***************************************************************************)
EXTENDS DailyTimers

CONSTANTS
  BriefingHour,  \* briefing_hour_utc
  EtHours,       \* New York is that many hours behind UTC
  MaxRefreshes   \* bound: POST /api/advisor/refresh

ASSUME BriefingAssumption ==
  BriefingHour \in 1..23 /\ EtHours \in 0..23 /\ MaxRefreshes \in Nat

VARIABLES
  loop,       \* "off" before the loop is spawned, or where it is
  wake,       \* the hour its sleep ends
  notified,   \* the permit of its Notify
  asked,      \* when it last woke, or was spawned
  cache,      \* the date on the briefing cached for a date
  failed,     \* history: the days on which an attempt ended without a briefing
  refreshes

briefingVars == <<now, loop, wake, notified, asked, cache, failed, refreshes>>

today == Day(asked)  \* the date it took before it called the models

Loops == {"off", "startup", "wait", "check", "generate"}

BriefingInit ==
  /\ now \in {t \in Moments : Day(t) = 0}
  /\ loop = "off" /\ wake = 0 /\ notified = FALSE /\ asked = 0
  /\ cache = <<>> /\ failed = {} /\ refreshes = 0

\* market_state: the trading day is that of New York.
IsTradingDay == Hour(now) >= EtHours /\ (Hour(now) - EtHours) \div 24 \in TradingDays

\* compute_next_briefing_ts.
NextBriefing ==
  IF HourOfDay(now) >= BriefingHour THEN 24 * (Day(now) + 1) + BriefingHour
  ELSE 24 * Day(now) + BriefingHour

\* Mutant: a briefing of any date will do.
cached_AnyDate(d) == DOMAIN cache # {}

cached(d) == d \in DOMAIN cache

cache_briefing(d, for_date) ==
  cache' = [x \in DOMAIN cache \cup {d} |-> IF x = d THEN for_date ELSE cache[x]]

\* main spawns the loop, which generates at once.
SpawnLoop ==
  /\ loop = "off"
  /\ loop' = "startup" /\ asked' = now
  /\ UNCHANGED <<now, wake, notified, cache, failed, refreshes>>

\* The sleep until the next hour begins.
Waits == loop' = "wait" /\ wake' = NextBriefing

\* The answer is parsed and dated when it comes: at start-up that date is the key,
\* in the loop it is the one taken before the calls.
BriefingComes ==
  /\ loop \in {"startup", "generate"}
  /\ cache_briefing(IF loop = "startup" THEN Day(now) ELSE today, Day(now))
  /\ Waits
  /\ UNCHANGED <<now, notified, asked, failed, refreshes>>

\* Both failed, or the context or the answer cannot be used: logged, nothing kept.
BriefingFails ==
  /\ loop \in {"startup", "generate"}
  /\ failed' = failed \cup {Day(now), IF loop = "startup" THEN Day(now) ELSE today}
  /\ Waits
  /\ UNCHANGED <<now, notified, asked, cache, refreshes>>

\* The sleep and the notification are selected from; what is not taken remains.
Wakes ==
  /\ loop = "wait"
  /\ \/ Hour(now) >= wake /\ UNCHANGED notified
     \/ notified /\ notified' = FALSE
  /\ loop' = "check" /\ asked' = now
  /\ UNCHANGED <<now, wake, cache, failed, refreshes>>

ChecksDay ==
  /\ loop = "check"
  /\ IF IsTradingDay /\ ~cached(today)
     THEN loop' = "generate" /\ UNCHANGED wake
     ELSE Waits
  /\ UNCHANGED <<now, notified, asked, cache, failed, refreshes>>

\* refresh() keeps one permit, whatever the loop does.
Refresh ==
  /\ loop # "off" /\ refreshes < MaxRefreshes
  /\ refreshes' = refreshes + 1 /\ notified' = TRUE
  /\ UNCHANGED <<now, loop, wake, asked, cache, failed>>

\* The cache is memory only, and a restart does not read the log.
AdvisorRestarts ==
  /\ loop # "off"
  /\ loop' = "off" /\ wake' = 0 /\ notified' = FALSE /\ asked' = 0
  /\ cache' = <<>> /\ failed' = {} /\ UNCHANGED <<now, refreshes>>

\* The clock waits for a wake-up, and for calls that an earlier moment began.
BriefingClock ==
  /\ TimePasses(\/ loop = "wait" /\ (Hour(now) >= wake \/ notified)
                \/ loop = "check"
                \/ loop \in {"startup", "generate"} /\ now > asked)
  /\ UNCHANGED <<loop, wake, notified, asked, cache, failed, refreshes>>

BriefingNext ==
  \/ BriefingClock \/ SpawnLoop \/ BriefingComes \/ BriefingFails
  \/ Wakes \/ ChecksDay \/ Refresh \/ AdvisorRestarts

BriefingSpec == BriefingInit /\ [][BriefingNext]_briefingVars

\* A configured hour at which New York has the date of UTC, and models that answer
\* between midnight and that hour when they were asked before midnight.
SuitableHours == EtHours <= BriefingHour /\ HourOfDay(0) < BriefingHour
-----------------------------------------------------------------------------
\* A trading day whose briefing hour has passed has a briefing under its date,
\* or an attempt of that day failed: neither refreshes nor failures of another day
\* cost a day its briefing.  A briefing carries the date it is cached for, or the
\* next when it was asked for before midnight.
EveryDayBriefed ==
  /\ loop = "wait" /\ wake > Hour(now) /\ HourOfDay(now) >= BriefingHour /\ IsTradingDay =>
       Day(now) \in DOMAIN cache \cup failed
  /\ \A d \in DOMAIN cache : cache[d] \in {d, d + 1}
=============================================================================
