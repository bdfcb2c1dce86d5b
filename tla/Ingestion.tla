----------------------------- MODULE Ingestion -----------------------------
(***************************************************************************)
(* How candles come into equity_candles: the backfill before the engine    *)
(* starts its tasks, the daily top-up, the requests that fetch from Yahoo, *)
(* and the retention task.  Moomoo is asked first and Yahoo when it fails. *)
(* A candle is known by its symbol and timestamp: Moomoo stamps a day with *)
(* midnight, Yahoo with an hour of its own.  Prices are left out,          *)
(* so an upsert adds a timestamp.  The scheduler is the reader here: it    *)
(* evaluates the newest candle of the target once per life.                *)
(***************************************************************************)
EXTENDS DailyTimers, FiniteSets

CONSTANTS
  Symbols,     \* EQUITY_SYMBOLS, in order
  Target,      \* the symbol that is traded
  BarHours,    \* hours that Yahoo's bar of a day may carry
  MinCandles,  \* fewer than these make a fetch
  KeepDays,    \* retention and range, in days
  MaxBackoff,  \* doublings until the backoff is at its maximum
  MaxRequests, \* bound: requests that backfill the target
  MaxRestarts  \* bound

Loaded == {Symbols[i] : i \in DOMAIN Symbols}
Vix == "^VIX"  \* Yahoo's series, whose candles are not followed
Callers == {"task", "request"}
Providers == {"moomoo", "yahoo"}
BootStale == 72
TopUpStale == 18
RequestStale == {0, 12}  \* /api/equity/backfill and /api/chart
TargetHours == {22, 7}   \* POST_CLOSE_SECS and PRE_OPEN_SECS

ASSUME IngestionAssumption ==
  /\ Len(Symbols) > 0 /\ Symbols \in Seq(Loaded) /\ Target \in Loaded /\ Vix \notin Loaded
  /\ BarHours \subseteq 1..23 /\ BarHours # {} /\ MinCandles \in Nat /\ KeepDays \in Nat
  /\ MaxBackoff \in Nat \ {0} /\ MaxRequests \in Nat /\ MaxRestarts \in Nat

VARIABLES
  started,    \* when main started
  booting,    \* the backfill before the tasks start is not over
  due,        \* when the top-up ticks next
  runs,       \* top-ups since the start: 0, 1 or more
  late,       \* history: a tick fired after its time
  at,         \* where each caller of a backfill is
  call,       \* its symbol and stale_threshold_secs, in hours
  backoff,    \* doublings of its backoff in fetch_chart
  opend,      \* OpenD could be reached when the task's backfill started
  rows,       \* timestamps stored of each symbol
  cboe,       \* $VIX has rows
  deliveries, \* history: how often each provider delivered the target, up to 2
  evaluated,  \* timestamps the scheduler evaluated in this life
  requests, restarts

vars == <<now, started, booting, due, runs, late, at, call, backoff, opend, rows, cboe, deliveries,
          evaluated, requests, restarts>>
timing == <<started, booting, due, runs, late>>
calls == <<at, call, backoff, opend>>
table == <<rows, cboe, deliveries, evaluated>>
bounds == <<requests, restarts>>

NoCall == [pos |-> 1, stale |-> BootStale]
AtStart == [p \in Callers |-> IF p = "task" THEN "start" ELSE "idle"]

Init ==
  /\ now \in {t \in Moments : Day(t) = 0}
  /\ started = now /\ booting = TRUE /\ due = now /\ runs = 0 /\ late = FALSE
  /\ at = AtStart /\ call = [p \in Callers |-> NoCall]
  /\ backoff = [p \in Callers |-> 0] /\ opend = FALSE
  /\ rows = [s \in Loaded |-> {}] /\ cboe = FALSE /\ evaluated = {}
  /\ deliveries = [p \in Providers |-> 0]
  /\ requests = 0 /\ restarts = 0

SymbolOf(p) ==
  IF p = "request" THEN Target
  ELSE IF call[p].pos \in DOMAIN Symbols THEN Symbols[call[p].pos] ELSE Vix

\* No timestamp when there is no candle.
Newest(s) == {t \in rows[s] : \A u \in rows[s] : u <= t}
-----------------------------------------------------------------------------
(* What the providers have (external): a bar of every trading day that has *)
(* opened, back to the start of the range.                                 *)

Days ==
  {d \in TradingDays : /\ \E h \in BarHours : 24 * d + h <= Hour(now)
                       /\ 24 * d + 24 * KeepDays >= Hour(now)}

\* Mutant: parse_time_key takes midnight for that of New York.
MoomooStamp_Eastern(d) == 24 * d + 5

\* Yahoo's time is stored as it comes.
MoomooStamp(d) == 24 * d
YahooStamps(d) == {24 * d + h : h \in {k \in BarHours : 24 * d + k <= Hour(now)}}

MoomooBars == {MoomooStamp(d) : d \in Days}

\* One bar of each day, whose time may be another in the next answer.
YahooCharts ==
  {bars \in SUBSET UNION {YahooStamps(d) : d \in Days} :
     \A d \in Days : \E t \in bars : bars \cap YahooStamps(d) = {t}}

\* Oldest first; an upsert that fails ends the backfill.
Upserted(bars) == {b \in SUBSET bars : \A t \in b, u \in bars : u <= t => u \in b}

Store(p, provider, bars) ==
  /\ rows' = [s \in Loaded |-> IF s = SymbolOf(p) THEN rows[s] \cup bars ELSE rows[s]]
  /\ deliveries' =
       IF SymbolOf(p) = Target /\ bars # {} /\ deliveries[provider] < 2
       THEN [deliveries EXCEPT ![provider] = @ + 1] ELSE deliveries
-----------------------------------------------------------------------------
(* backfill_equities: the symbols one after another.  An error of one is   *)
(* logged and the next is tried; one of counting $VIX is not.              *)

Goes(p, place) == at' = [at EXCEPT ![p] = place]

\* Where a caller goes when it is through with a symbol.
Through(p) ==
  IF p = "request" \/ call[p].pos > Len(Symbols) THEN Goes(p, "end") /\ UNCHANGED call
  ELSE /\ call' = [call EXCEPT ![p].pos = @ + 1]
       /\ Goes(p, IF call[p].pos = Len(Symbols) THEN "vix" ELSE IF opend THEN "moomoo" ELSE "check")

IsAvailable ==
  /\ at["task"] = "start"
  /\ opend' \in BOOLEAN
  /\ Goes("task", IF opend' THEN "moomoo" ELSE "check")
  /\ UNCHANGED <<now, timing, call, backoff, table, bounds>>

\* moomoo::backfill with get_kline.py: all rows, or an error and Yahoo.  The script
\* is waited for without a timeout.
MoomooBackfill ==
  /\ at["task"] = "moomoo"
  /\ \/ Store("task", "moomoo", MoomooBars) /\ Through("task")
     \/ /\ \E bars \in Upserted(MoomooBars) : Store("task", "moomoo", bars)
        /\ Goes("task", "check") /\ UNCHANGED call
  /\ UNCHANGED <<now, timing, backoff, opend, cboe, evaluated, bounds>>

CboeBackfill ==
  /\ at["task"] = "vix"
  /\ \/ cboe' = TRUE /\ Goes("task", "end")
     \/ UNCHANGED cboe /\ Goes("task", IF cboe THEN "end" ELSE "check")
     \/ UNCHANGED cboe /\ Goes("task", "error")
  /\ UNCHANGED <<now, timing, call, backoff, opend, rows, deliveries, evaluated, bounds>>

IsFresh(p) ==
  LET s == SymbolOf(p) IN
  /\ Cardinality(rows[s]) >= MinCandles /\ call[p].stale > 0
  /\ \E t \in rows[s] : t + call[p].stale >= Hour(now)

\* yahoo::backfill: no request when there are enough candles and they are fresh.
\* Reading them may fail.
YahooCheck(p) ==
  /\ at[p] = "check"
  /\ \/ Through(p)
     \/ (SymbolOf(p) \in Loaded => ~IsFresh(p)) /\ Goes(p, "fetch") /\ UNCHANGED call
  /\ UNCHANGED <<now, timing, backoff, opend, table, bounds>>

\* Bars, all or some of them stored; or another status than 429, an empty chart or
\* an error of the database: the symbol is through.
YahooAnswers(p) ==
  /\ at[p] = "fetch"
  /\ \E chart \in YahooCharts : \E bars \in Upserted(chart) : Store(p, "yahoo", bars)
  /\ Through(p) /\ backoff' = [backoff EXCEPT ![p] = 0]
  /\ UNCHANGED <<now, timing, opend, cboe, evaluated, bounds>>

\* Mutant: the backoff is not capped.
NextBackoff_Uncapped(p) == backoff[p] + 1

NextBackoff(p) == IF backoff[p] + 1 < MaxBackoff THEN backoff[p] + 1 ELSE MaxBackoff

\* 429: asked again after the backoff, for as long as it takes.
RateLimited(p) ==
  /\ at[p] = "fetch"
  /\ backoff' = [backoff EXCEPT ![p] = NextBackoff(p)]
  /\ UNCHANGED <<now, timing, at, call, opend, table, bounds>>

\* Mutant: at its maximum the backoff starts over.
RequestFails_StartsOver(p) ==
  /\ at[p] = "fetch"
  /\ backoff' = [backoff EXCEPT ![p] = IF NextBackoff(p) = MaxBackoff THEN 0 ELSE NextBackoff(p)]
  /\ UNCHANGED <<now, timing, at, call, opend, table, bounds>>

\* No answer: asked again until the backoff has reached its maximum.
RequestFails(p) ==
  /\ at[p] = "fetch"
  /\ IF NextBackoff(p) = MaxBackoff
     THEN Through(p) /\ backoff' = [backoff EXCEPT ![p] = 0]
     ELSE backoff' = [backoff EXCEPT ![p] = NextBackoff(p)] /\ UNCHANGED <<at, call>>
  /\ UNCHANGED <<now, timing, opend, table, bounds>>
-----------------------------------------------------------------------------
(* The engine. *)

\* main starts the tasks after its backfill; the first top-up is due at once.
BackfillReturns ==
  /\ at["task"] = "end" \/ (at["task"] = "error" /\ ~booting)
  /\ Goes("task", "idle") /\ call' = [call EXCEPT !["task"] = NoCall]
  /\ booting' = FALSE /\ opend' = FALSE
  /\ due' = IF booting THEN now ELSE due
  /\ UNCHANGED <<now, started, runs, late, backoff, table, bounds>>

\* Mutant: a tick outside of the hours is not skipped.
InTargetWindow_Always == TRUE

InTargetWindow == HourOfDay(now) \in TargetHours

TopUpDue == ~booting /\ at["task"] = "idle" /\ now >= due

\* Ticks are 24 hours apart.  One that was missed fires as soon as the task is
\* back, and all but the first are skipped outside of the target windows.
TopUpTick ==
  /\ TopUpDue
  /\ due' = due + PerDay
  /\ late' = (late \/ now > due)
  /\ \/ /\ runs = 0 \/ InTargetWindow
        /\ runs' = IF runs = 0 THEN 1 ELSE 2
        /\ Goes("task", "start")
        /\ call' = [call EXCEPT !["task"].stale = TopUpStale]
     \/ runs > 0 /\ ~InTargetWindow /\ UNCHANGED <<runs, at, call>>
  /\ UNCHANGED <<now, started, booting, backoff, opend, table, bounds>>

\* The retention task, at the hour the engine started.
Prune ==
  /\ ~booting /\ now % PerDay = started % PerDay
  /\ rows' = [s \in Loaded |-> {t \in rows[s] : t + 24 * KeepDays >= Hour(now)}]
  /\ UNCHANGED <<now, timing, calls, cboe, deliveries, evaluated, bounds>>

Request ==
  /\ ~booting /\ at["request"] = "idle" /\ requests < MaxRequests
  /\ requests' = requests + 1
  /\ Goes("request", "check")
  /\ \E hours \in RequestStale : call' = [call EXCEPT !["request"].stale = hours]
  /\ UNCHANGED <<now, timing, backoff, opend, table, restarts>>

Respond ==
  /\ at["request"] = "end"
  /\ Goes("request", "idle") /\ call' = [call EXCEPT !["request"] = NoCall]
  /\ UNCHANGED <<now, timing, backoff, opend, table, bounds>>

\* EquityScheduler::run and a process() that succeeds; TradingCycle has the rest.
Evaluate ==
  /\ ~booting
  /\ \E newest \in Newest(Target) :
       /\ \A t \in evaluated : t < newest
       /\ evaluated' = evaluated \cup {newest}
  /\ UNCHANGED <<now, timing, calls, rows, cboe, deliveries, bounds>>

\* A stop at any time, or the exit of main when its backfill fails; the container
\* is started again.
Restart ==
  /\ restarts < MaxRestarts \/ (booting /\ at["task"] = "error")
  /\ restarts' = IF restarts < MaxRestarts THEN restarts + 1 ELSE restarts
  /\ started' = now /\ booting' = TRUE /\ due' = now /\ runs' = 0 /\ late' = FALSE
  /\ at' = AtStart /\ call' = [p \in Callers |-> NoCall]
  /\ backoff' = [p \in Callers |-> 0] /\ opend' = FALSE
  /\ evaluated' = {} /\ UNCHANGED <<now, rows, cboe, deliveries, requests>>

\* What waits for no provider takes no time.
Clock ==
  /\ TimePasses(TopUpDue \/ \E p \in Callers : at[p] \notin {"idle", "moomoo", "fetch"})
  /\ UNCHANGED <<timing, calls, table, bounds>>

\* What ends by itself, or after a timeout of its own.
TaskGoesOn ==
  \/ IsAvailable \/ CboeBackfill \/ BackfillReturns \/ TopUpTick
  \/ YahooCheck("task") \/ RequestFails("task") \/ YahooAnswers("task")
TaskStep == MoomooBackfill \/ TaskGoesOn
RequestStep ==
  Respond \/ YahooCheck("request") \/ RequestFails("request") \/ YahooAnswers("request")

Next ==
  \/ Clock \/ TaskStep \/ RequestStep \/ \E p \in Callers : RateLimited(p)
  \/ Prune \/ Request \/ Evaluate \/ Restart

\* Both callers go on, except while get_kline.py does not return.  Yahoo may refuse
\* any number of times, but not forever: the loop around a 429 has no other end.
Fairness ==
  /\ WF_vars(TaskGoesOn) /\ WF_vars(RequestStep)
  /\ \A p \in Callers : SF_vars(RequestFails(p) \/ YahooAnswers(p))

Spec == Init /\ [][Next]_vars /\ Fairness
-----------------------------------------------------------------------------
(* Properties. *)

TypeOK ==
  /\ started \in Moments /\ booting \in BOOLEAN /\ due \in Nat /\ runs \in 0..2 /\ late \in BOOLEAN
  /\ at \in [Callers -> {"idle", "start", "moomoo", "check", "fetch", "vix", "end", "error"}]
  /\ call \in [Callers -> [pos : 1..(Len(Symbols) + 1),
                           stale : {BootStale, TopUpStale} \cup RequestStale]]
  /\ backoff \in [Callers -> 0..MaxBackoff] /\ opend \in BOOLEAN
  /\ rows \in [Loaded -> SUBSET Nat] /\ cboe \in BOOLEAN
  /\ deliveries \in [Providers -> 0..2] /\ evaluated \subseteq Nat
  /\ requests \in 0..MaxRequests /\ restarts \in 0..MaxRestarts

\* When the scheduler evaluates a trading day twice in one life, Yahoo's candle comes
\* second: after Moomoo's, or after one of Yahoo's own from an earlier delivery.  So
\* a day is evaluated once where only Moomoo delivers, or Yahoo once; a request or a
\* failure is enough to make it two.
SecondEvaluationIsYahoos ==
  \A t, u \in evaluated :
    t < u /\ t \div 24 = u \div 24 =>
      /\ u % 24 \in BarHours
      /\ \/ t % 24 = 0 /\ deliveries["moomoo"] > 0 /\ deliveries["yahoo"] > 0
         \/ t % 24 \in BarHours /\ deliveries["yahoo"] = 2

\* After the first, a top-up runs only if the engine's start left its ticks in a
\* window around 22:00 or 07:00, or a backfill held the task past a tick: an engine
\* that starts at another hour never tops up again.
LaterRunsAreAligned == runs = 2 => late \/ HourOfDay(due) \in TargetHours

\* A backfill comes to an end, however often requests fail, unless Yahoo refuses
\* with 429 forever or get_kline.py never returns: until it ends, main does not start
\* its tasks and the top-up does not tick.
BackfillsEnd ==
  /\ at["task"] = "start" ~> at["task"] \in {"idle", "error"} \/ [](at["task"] = "moomoo")
  /\ at["request"] = "check" ~> at["request"] = "idle"
=============================================================================
