-------------------------- MODULE DailyTasks_proofs --------------------------
(***************************************************************************)
(* Proofs about the tasks that share the wall clock, for every calendar:   *)
(* Ingestion for every list of symbols, every number of requests and       *)
(* restarts and every series of answers of the providers, and the          *)
(* advisor's briefings for any number of refreshes, restarts and failures. *)
(***************************************************************************)
EXTENDS Ingestion, Briefing, Integers, TLAPS

LEMMA TimerFacts ==
  /\ PerDay \in Nat \ {0} /\ MaxDay \in Nat /\ TradingDays \subseteq Nat
  /\ Moments \subseteq Nat
BY TimersAssumption DEF PerDay, Moments

LEMMA SymbolFacts ==
  /\ Len(Symbols) \in Nat \ {0} /\ DOMAIN Symbols = 1..Len(Symbols)
  /\ \A i \in DOMAIN Symbols : Symbols[i] \in Loaded
BY IngestionAssumption DEF Loaded

IsYahooStamp(t) == \E d \in Nat, h \in BarHours : t = 24 * d + h

\* The bars of a provider, and what is left of them when an upsert fails.
LEMMA BarFacts ==
  /\ \A t \in MoomooBars : \E d \in Nat : t = 24 * d
  /\ \A chart \in YahooCharts : \A t \in chart : IsYahooStamp(t)
  /\ \A bars : \A b \in Upserted(bars) : b \subseteq bars
<1>1. Days \subseteq Nat
  BY TimerFacts DEF Days
<1>2. \A t \in MoomooBars : \E d \in Nat : t = 24 * d
  BY <1>1 DEF MoomooBars, MoomooStamp
<1>3. ASSUME NEW chart \in YahooCharts, NEW t \in chart PROVE IsYahooStamp(t)
  <2>1. \A s \in chart : \E d \in Days : s \in YahooStamps(d)
    BY DEF YahooCharts
  <2>2. PICK d \in Days : t \in YahooStamps(d)
    BY <2>1
  <2>. QED
    BY <1>1, <2>2 DEF YahooStamps, IsYahooStamp
<1>4. \A bars : \A b \in Upserted(bars) : b \subseteq bars
  BY DEF Upserted
<1>. QED
  BY <1>2, <1>3, <1>4

LEMMA BarType ==
  /\ MoomooBars \subseteq Nat
  /\ \A chart \in YahooCharts : chart \subseteq Nat
  /\ \A b \in Upserted(MoomooBars) : b \subseteq Nat
  /\ \A chart \in YahooCharts : \A b \in Upserted(chart) : b \subseteq Nat
<1>1. BarHours \subseteq Nat
  BY IngestionAssumption
<1>2. \A d \in Nat : 24 * d \in Nat /\ \A h \in BarHours : 24 * d + h \in Nat
  BY <1>1
<1>3. MoomooBars \subseteq Nat /\ \A chart \in YahooCharts : chart \subseteq Nat
  BY <1>2, BarFacts DEF IsYahooStamp
<1>. QED
  BY <1>3, BarFacts

Places == {"idle", "start", "moomoo", "check", "fetch", "vix", "end", "error"}
Calls == [pos : 1..(Len(Symbols) + 1), stale : {BootStale, TopUpStale} \cup RequestStale]

\* The parts of TypeOK that a caller's steps move.
CallType == at \in [Callers -> Places] /\ call \in [Callers -> Calls]
RowType == rows \in [Loaded -> SUBSET Nat] /\ deliveries \in [Providers -> 0..2]

LEMMA GoesType ==
  ASSUME CallType, NEW p \in Callers, NEW place \in Places, Goes(p, place), UNCHANGED call
  PROVE  CallType'
BY DEF CallType, Goes

\* Who is through with a symbol goes on with the next or to VIX.
LEMMA ThroughType ==
  ASSUME CallType, NEW p \in Callers, Through(p) PROVE CallType'
<1>1. CASE p = "request" \/ call[p].pos > Len(Symbols)
  BY <1>1, GoesType DEF Through, Places
<1>2. CASE ~ (p = "request" \/ call[p].pos > Len(Symbols))
  <2>1. /\ call[p].pos \in 1..(Len(Symbols) + 1) /\ ~ call[p].pos > Len(Symbols)
        /\ call[p].stale \in {BootStale, TopUpStale} \cup RequestStale
        /\ call[p] \in Calls
    BY <1>2 DEF CallType, Calls
  <2>2. call[p].pos + 1 \in 1..(Len(Symbols) + 1)
    BY <2>1, SymbolFacts
  <2>3. [call[p] EXCEPT !.pos = call[p].pos + 1] \in Calls
    BY <2>1, <2>2 DEF Calls
  <2>4. call' = [call EXCEPT ![p] = [call[p] EXCEPT !.pos = call[p].pos + 1]]
    BY <1>2 DEF Through
  <2>5. call' \in [Callers -> Calls]
    BY <2>3, <2>4 DEF CallType
  <2>6. \E place \in Places : at' = [at EXCEPT ![p] = place]
    BY <1>2 DEF Through, Goes, Places
  <2>. QED
    BY <2>5, <2>6 DEF CallType
<1>. QED
  BY <1>1, <1>2

LEMMA StoreType ==
  ASSUME RowType, NEW p, NEW provider \in Providers, NEW bars \in SUBSET Nat,
         Store(p, provider, bars)
  PROVE  RowType'
<1>1. rows' \in [Loaded -> SUBSET Nat]
  BY DEF RowType, Store
<1>2. deliveries[provider] \in 0..2
  BY DEF RowType
<1>3. deliveries[provider] < 2 => deliveries[provider] + 1 \in 0..2
  BY <1>2
<1>4. deliveries' \in [Providers -> 0..2]
  BY <1>3 DEF RowType, Store
<1>. QED
  BY <1>1, <1>4 DEF RowType
-----------------------------------------------------------------------------
(* Type correctness. *)

\* The rest of TypeOK, with the position of the clock.
RestType ==
  /\ now \in Moments /\ started \in Moments
  /\ booting \in BOOLEAN /\ due \in Nat /\ runs \in 0..2 /\ late \in BOOLEAN
  /\ backoff \in [Callers -> 0..MaxBackoff] /\ opend \in BOOLEAN
  /\ cboe \in BOOLEAN /\ evaluated \subseteq Nat
  /\ requests \in 0..MaxRequests /\ restarts \in 0..MaxRestarts

Typed == CallType /\ RowType /\ RestType

LEMMA TypedType == Typed => TypeOK
BY DEF Typed, CallType, RowType, RestType, TypeOK, Places, Calls

LEMMA NoCallType == NoCall \in Calls /\ AtStart \in [Callers -> Places]
BY SymbolFacts DEF NoCall, Calls, AtStart, Places

LEMMA InitTyped == Init => Typed
<1> SUFFICES ASSUME Init PROVE Typed
  OBVIOUS
<1>1. MaxBackoff \in Nat /\ MaxRequests \in Nat /\ MaxRestarts \in Nat
  BY IngestionAssumption
<1>2. now \in Nat /\ now \in Moments
  BY TimerFacts DEF Init
<1>3. CallType
  BY NoCallType DEF Init, CallType
<1>4. RowType
  BY DEF Init, RowType
<1>5. RestType
  <2>1. backoff \in [Callers -> 0..MaxBackoff]
    BY <1>1 DEF Init
  <2>2. booting \in BOOLEAN /\ late \in BOOLEAN /\ opend \in BOOLEAN /\ cboe \in BOOLEAN
    BY DEF Init
  <2>3. /\ evaluated = {} /\ runs = 0 /\ requests = 0 /\ restarts = 0
        /\ started = now /\ due = now
    BY DEF Init
  <2>. QED
    BY <1>1, <1>2, <2>1, <2>2, <2>3 DEF RestType
<1>. QED
  BY <1>3, <1>4, <1>5 DEF Typed

LEMMA BackoffType ==
  ASSUME RestType, NEW p \in Callers
  PROVE  NextBackoff(p) \in 0..MaxBackoff /\ 0 \in 0..MaxBackoff
<1>1. MaxBackoff \in Nat \ {0} /\ backoff[p] \in 0..MaxBackoff
  BY IngestionAssumption DEF RestType
<1>. QED
  BY <1>1 DEF NextBackoff

LEMMA BackfillTyped ==
  ASSUME Typed,
         IsAvailable \/ MoomooBackfill \/ CboeBackfill \/ \E p \in Callers : YahooCheck(p)
  PROVE  Typed'
<1>. USE DEF Typed
<1>0. "task" \in Callers /\ {"idle", "check", "moomoo", "fetch", "end", "error"} \subseteq Places
  BY DEF Callers, Places
<1>1. CASE IsAvailable
  <2>1. CallType'
    BY <1>0, <1>1, GoesType DEF IsAvailable
  <2>. QED
    BY <1>1, <2>1 DEF IsAvailable, timing, table, bounds, RowType, RestType
<1>2. CASE MoomooBackfill
  <2>1. RestType'
    BY <1>2 DEF MoomooBackfill, timing, bounds, RestType
  <2>2. RowType'
    BY <1>2, StoreType, BarType DEF MoomooBackfill, Providers
  <2>3. CallType'
    BY <1>0, <1>2, ThroughType, GoesType DEF MoomooBackfill
  <2>. QED
    BY <2>1, <2>2, <2>3
<1>3. CASE CboeBackfill
  <2>1. CallType'
    BY <1>0, <1>3, GoesType DEF CboeBackfill
  <2>. QED
    BY <1>3, <2>1 DEF CboeBackfill, timing, bounds, RowType, RestType
<1>4. ASSUME NEW p \in Callers, YahooCheck(p) PROVE Typed'
  <2>1. CallType'
    BY <1>0, <1>4, ThroughType, GoesType DEF YahooCheck
  <2>. QED
    BY <1>4, <2>1 DEF YahooCheck, timing, table, bounds, RowType, RestType
<1>. QED
  BY <1>1, <1>2, <1>3, <1>4

LEMMA FetchTyped ==
  ASSUME Typed, NEW p \in Callers, YahooAnswers(p) \/ RateLimited(p) \/ RequestFails(p)
  PROVE  Typed'
<1>. USE DEF Typed
<1>1. NextBackoff(p) \in 0..MaxBackoff /\ 0 \in 0..MaxBackoff
  BY BackoffType
<1>2. CASE YahooAnswers(p)
  <2>1. CallType'
    BY <1>2, ThroughType DEF YahooAnswers
  <2>2. RowType'
    BY <1>2, StoreType, BarType DEF YahooAnswers, Providers
  <2>. QED
    BY <1>1, <1>2, <2>1, <2>2 DEF YahooAnswers, timing, bounds, RestType
<1>3. CASE RateLimited(p)
  BY <1>1, <1>3 DEF RateLimited, timing, table, bounds, RestType, CallType, RowType
<1>4. CASE RequestFails(p)
  <2>1. CallType'
    BY <1>4, ThroughType DEF RequestFails, CallType
  <2>. QED
    BY <1>1, <1>4, <2>1 DEF RequestFails, timing, table, bounds, RestType, RowType
<1>. QED
  BY <1>2, <1>3, <1>4

LEMMA EngineTyped ==
  ASSUME Typed, BackfillReturns \/ TopUpTick \/ Prune \/ Request \/ Respond
  PROVE  Typed'
<1>. USE DEF Typed
<1>0. /\ NoCall \in Calls /\ now \in Nat /\ due + PerDay \in Nat
      /\ {"task", "request"} \subseteq Callers /\ {"idle", "start", "check"} \subseteq Places
  BY NoCallType, TimerFacts DEF Callers, Places, RestType
<1>1. CASE BackfillReturns
  <2>1. CallType'
    BY <1>0, <1>1 DEF BackfillReturns, Goes, CallType
  <2>. QED
    BY <1>0, <1>1, <2>1 DEF BackfillReturns, table, bounds, RestType, RowType
<1>2. CASE TopUpTick
  <2>1. \A c \in Calls : [c EXCEPT !.stale = TopUpStale] \in Calls
    BY DEF Calls
  <2>2. CallType'
    BY <1>0, <1>2, <2>1 DEF TopUpTick, Goes, CallType
  <2>. QED
    BY <1>0, <1>2, <2>2 DEF TopUpTick, table, bounds, RestType, RowType
<1>3. CASE Prune
  BY <1>3 DEF Prune, timing, calls, bounds, RestType, RowType, CallType
<1>4. CASE Request
  <2>1. \A c \in Calls, h \in RequestStale : [c EXCEPT !.stale = h] \in Calls
    BY DEF Calls
  <2>2. CallType'
    BY <1>0, <1>4, <2>1 DEF Request, Goes, CallType
  <2>. QED
    BY <1>4, <2>2, IngestionAssumption DEF Request, timing, table, RestType, RowType
<1>5. CASE Respond
  <2>1. CallType'
    BY <1>0, <1>5 DEF Respond, Goes, CallType
  <2>. QED
    BY <1>5, <2>1 DEF Respond, timing, table, bounds, RestType, RowType
<1>. QED
  BY <1>1, <1>2, <1>3, <1>4, <1>5

LEMMA LifeTyped ==
  ASSUME Typed, Clock \/ Evaluate \/ Restart \/ UNCHANGED vars
  PROVE  Typed'
<1>. USE DEF Typed
<1>1. CASE Clock
  BY <1>1 DEF Clock, TimePasses, timing, calls, table, bounds, RestType, RowType, CallType
<1>2. CASE Evaluate
  <2>1. Newest(Target) \subseteq Nat
    BY IngestionAssumption DEF Newest, RowType
  <2>. QED
    BY <1>2, <2>1 DEF Evaluate, timing, calls, bounds, RestType, RowType, CallType
<1>3. CASE Restart
  <2>1. MaxBackoff \in Nat /\ MaxRestarts \in Nat /\ now \in Nat
    BY IngestionAssumption, TimerFacts DEF RestType
  <2>2. CallType'
    BY <1>3, NoCallType DEF Restart, CallType
  <2>3. RowType'
    BY <1>3 DEF Restart, RowType
  <2>4. restarts' \in 0..MaxRestarts
    BY <1>3, <2>1 DEF Restart, RestType
  <2>5. backoff' \in [Callers -> 0..MaxBackoff]
    BY <1>3, <2>1 DEF Restart
  <2>. QED
    <3>1. booting' \in BOOLEAN /\ late' \in BOOLEAN /\ opend' \in BOOLEAN /\ cboe' \in BOOLEAN
      BY <1>3 DEF Restart, RestType
    <3>2. /\ evaluated' = {} /\ runs' = 0 /\ requests' = requests
          /\ started' = now /\ due' = now /\ now' = now
      BY <1>3 DEF Restart
    <3>3. RestType'
      BY <2>1, <2>4, <2>5, <3>1, <3>2 DEF RestType
    <3>. QED
      BY <2>2, <2>3, <3>3
<1>4. CASE UNCHANGED vars
  BY <1>4 DEF vars, timing, calls, table, bounds, RestType, RowType, CallType
<1>. QED
  BY <1>1, <1>2, <1>3, <1>4

LEMMA NextTyped == Typed /\ [Next]_vars => Typed'
BY BackfillTyped, FetchTyped, EngineTyped, LifeTyped
   DEF Next, TaskStep, TaskGoesOn, RequestStep, Callers

\* Whatever providers answer, and whenever the engine starts and stops, callers,
\* timers and the table keep their types; the backoff keeps its cap.
THEOREM IngestionTypeCorrect == Spec => []TypeOK
BY InitTyped, NextTyped, TypedType, PTL DEF Spec
-----------------------------------------------------------------------------
(* The stamps of a trading day. *)

\* A stamp tells who delivered it.
Moomoos(t) == (\E d \in Nat : t = 24 * d) /\ deliveries["moomoo"] > 0
Yahoos(t) == IsYahooStamp(t) /\ deliveries["yahoo"] > 0
Delivered(t) == Moomoos(t) \/ Yahoos(t)

\* Two stamps of one day that can both be Yahoo's.
Twins(t, u) ==
  t # u /\ \E d \in Nat, h \in BarHours, k \in BarHours : t = 24 * d + h /\ u = 24 * d + k

Seen == rows[Target] \cup evaluated

\* Twins take two deliveries: one answer has one bar of a day.
StampInv ==
  /\ \A t \in Seen : Delivered(t)
  /\ deliveries["yahoo"] < 2 => \A t, u \in Seen : ~Twins(t, u)

LEMMA DayOfStamp ==
  ASSUME NEW d \in Nat, NEW h \in 0..23
  PROVE  (24 * d + h) \div 24 = d /\ (24 * d + h) % 24 = h
OBVIOUS

LEMMA SameStamp ==
  ASSUME NEW d \in Nat, NEW e \in Nat, NEW h \in 0..23, NEW k \in 0..23,
         24 * d + h = 24 * e + k
  PROVE  d = e /\ h = k
OBVIOUS

\* A stamp of midnight is never Yahoo's.
LEMMA MidnightIsAlone ==
  ASSUME NEW t, NEW d \in Nat, t = 24 * d
  PROVE  \A u : ~Twins(t, u) /\ ~Twins(u, t)
<1>1. BarHours \subseteq 1..23
  BY IngestionAssumption
<1>2. ASSUME NEW e \in Nat, NEW h \in BarHours, t = 24 * e + h PROVE FALSE
  <2>1. 24 * d + 0 = 24 * e + h /\ h \in 0..23 /\ h # 0
    BY <1>1, <1>2
  <2>. QED
    BY <2>1, SameStamp
<1>. QED
  BY <1>2 DEF Twins

LEMMA NoTwins ==
  ASSUME NEW chart \in YahooCharts, NEW t \in chart, NEW u \in chart
  PROVE  ~Twins(t, u)
<1> SUFFICES ASSUME NEW d \in Nat, NEW h \in BarHours, NEW k \in BarHours,
                    t = 24 * d + h, u = 24 * d + k
             PROVE  t = u
  BY DEF Twins
<1>1. BarHours \subseteq 0..23
  BY IngestionAssumption
<1>2. \A s \in chart : \E e \in Days : s \in YahooStamps(e)
  BY DEF YahooCharts
<1>3. PICK e \in Days : t \in YahooStamps(e)
  BY <1>2
<1>4. PICK f \in Days : u \in YahooStamps(f)
  BY <1>2
<1>5. Days \subseteq Nat
  BY TimerFacts DEF Days
<1>6. e = d
  BY <1>1, <1>3, <1>5, SameStamp DEF YahooStamps
<1>7. f = d
  BY <1>1, <1>4, <1>5, SameStamp DEF YahooStamps
<1>8. PICK s : chart \cap YahooStamps(d) = {s}
  BY <1>3, <1>6 DEF YahooCharts
<1>. QED
  BY <1>3, <1>4, <1>6, <1>7, <1>8

\* Storing what a provider has keeps the stamps told apart.
LEMMA StoreStamps ==
  ASSUME Typed, StampInv, NEW p \in Callers, NEW provider \in Providers,
         NEW bars \in SUBSET Nat, Store(p, provider, bars), evaluated' = evaluated,
         \/ provider = "moomoo" /\ bars \subseteq MoomooBars
         \/ provider = "yahoo" /\ \E chart \in YahooCharts : bars \subseteq chart
  PROVE  StampInv'
<1> DEFINE new == IF SymbolOf(p) = Target THEN bars ELSE {}
<1>1. Target \in Loaded /\ deliveries \in [Providers -> 0..2]
  BY IngestionAssumption DEF Typed, RowType
<1>2. Seen' = Seen \cup new
  BY <1>1 DEF Store, Seen, Typed, RowType
<1>3. /\ \A q \in Providers : deliveries'[q] \in Nat /\ deliveries'[q] >= deliveries[q]
      /\ new # {} => deliveries'[provider] > 0
      /\ new # {} /\ deliveries'[provider] < 2 => deliveries[provider] = 0
  <2>1. CASE SymbolOf(p) = Target /\ bars # {} /\ deliveries[provider] < 2
    BY <1>1, <2>1 DEF Store
  <2>2. CASE ~(SymbolOf(p) = Target /\ bars # {} /\ deliveries[provider] < 2)
    <3>1. deliveries' = deliveries
      BY <2>2 DEF Store
    <3>2. new # {} => deliveries[provider] = 2
      BY <1>1, <2>2
    <3>. QED
      BY <1>1, <3>1, <3>2
  <2>. QED
    BY <2>1, <2>2
<1>4. \A t : Delivered(t) => Delivered(t)'
  BY <1>1, <1>3 DEF Delivered, Moomoos, Yahoos, IsYahooStamp, Providers
<1>5. \A t \in new : Delivered(t)'
  BY <1>3, BarFacts DEF Delivered, Moomoos, Yahoos, IsYahooStamp
<1>6. ASSUME deliveries'["yahoo"] < 2, NEW t \in Seen', NEW u \in Seen' PROVE ~Twins(t, u)
  <2>1. deliveries["yahoo"] < 2
    BY <1>1, <1>3, <1>6 DEF Providers
  <2>2. CASE new = {}
    BY <1>2, <2>1, <2>2, <1>6 DEF StampInv
  <2>3. CASE provider = "moomoo"
    <3>1. \A s \in new : \E d \in Nat : s = 24 * d
      <4>1. new \subseteq MoomooBars
        BY <2>3
      <4>. QED
        BY <4>1, BarFacts
    <3>2. \A s \in new : \A v : ~Twins(s, v) /\ ~Twins(v, s)
      BY <3>1, MidnightIsAlone
    <3>. QED
      BY <1>2, <1>6, <2>1, <3>2 DEF StampInv
  <2>4. CASE provider = "yahoo" /\ new # {}
    <3>1. deliveries["yahoo"] = 0
      BY <1>3, <1>6, <2>4
    <3>2. \A s \in Seen : \E d \in Nat : s = 24 * d
      BY <3>1 DEF StampInv, Delivered, Moomoos, Yahoos
    <3>3. \A s \in Seen : \A v : ~Twins(s, v) /\ ~Twins(v, s)
      BY <3>2, MidnightIsAlone
    <3>4. CASE t \in new /\ u \in new
      BY <2>4, <3>4, NoTwins
    <3>. QED
      BY <1>2, <1>6, <3>3, <3>4
  <2>. QED
    BY <2>2, <2>3, <2>4 DEF Providers
<1>7. \A t, u : Twins(t, u)' <=> Twins(t, u)
  BY DEF Twins
<1>. QED
  BY <1>2, <1>4, <1>5, <1>6, <1>7 DEF StampInv

LEMMA FewerStamps ==
  ASSUME StampInv, UNCHANGED deliveries, Seen' \subseteq Seen
  PROVE  StampInv'
BY DEF StampInv, Delivered, Moomoos, Yahoos, IsYahooStamp, Twins

LEMMA StampStep == Typed /\ StampInv /\ [Next]_vars => StampInv'
<1> SUFFICES ASSUME Typed, StampInv, [Next]_vars PROVE StampInv'
  OBVIOUS
<1>1. CASE MoomooBackfill
  BY <1>1, StoreStamps, BarType, BarFacts DEF MoomooBackfill, Callers, Providers
<1>2. ASSUME NEW p \in Callers, YahooAnswers(p) PROVE StampInv'
  <2>1. PICK chart \in YahooCharts : \E bars \in Upserted(chart) : Store(p, "yahoo", bars)
    BY <1>2 DEF YahooAnswers
  <2>2. PICK bars \in Upserted(chart) : Store(p, "yahoo", bars)
    BY <2>1
  <2>3. bars \subseteq chart /\ bars \subseteq Nat
    BY BarFacts, BarType
  <2>4. evaluated' = evaluated
    BY <1>2 DEF YahooAnswers
  <2>. QED
    BY <2>2, <2>3, <2>4, StoreStamps DEF Providers
<1>3. CASE Prune
  <2>1. rows'[Target] \subseteq rows[Target]
    BY <1>3, IngestionAssumption DEF Prune
  <2>. QED
    BY <1>3, <2>1, FewerStamps DEF Prune, Seen
<1>4. CASE Evaluate
  BY <1>4, FewerStamps DEF Evaluate, Newest, Seen
<1>5. CASE UNCHANGED <<rows, deliveries>> /\ evaluated' \in {evaluated, {}}
  BY <1>5, FewerStamps DEF Seen
<1>. QED
  BY <1>1, <1>2, <1>3, <1>4, <1>5
     DEF Next, TaskStep, TaskGoesOn, RequestStep, IsAvailable, CboeBackfill, BackfillReturns,
         TopUpTick, YahooCheck, RequestFails, Respond, Clock, RateLimited, Request, Restart, vars,
         table, Callers

LEMMA StampsDiffer ==
  ASSUME Typed, StampInv, NEW t \in evaluated, NEW u \in evaluated,
         t < u, t \div 24 = u \div 24
  PROVE  /\ u % 24 \in BarHours
         /\ \/ t % 24 = 0 /\ deliveries["moomoo"] > 0 /\ deliveries["yahoo"] > 0
            \/ t % 24 \in BarHours /\ deliveries["yahoo"] = 2
<1>1. BarHours \subseteq 1..23 /\ deliveries["yahoo"] \in 0..2
  BY IngestionAssumption DEF Typed, RowType, Providers
<1>2. t \in Seen /\ u \in Seen
  BY DEF Seen
<1>3. PICK d \in Nat, a \in {0} \cup BarHours :
        /\ t = 24 * d + a
        /\ a = 0 => deliveries["moomoo"] > 0
        /\ a # 0 => deliveries["yahoo"] > 0
  BY <1>1, <1>2 DEF StampInv, Delivered, Moomoos, Yahoos, IsYahooStamp
<1>4. PICK e \in Nat, b \in {0} \cup BarHours :
        /\ u = 24 * e + b
        /\ b = 0 => deliveries["moomoo"] > 0
        /\ b # 0 => deliveries["yahoo"] > 0
  BY <1>1, <1>2 DEF StampInv, Delivered, Moomoos, Yahoos, IsYahooStamp
<1>5. a \in 0..23 /\ b \in 0..23
  BY <1>1
<1>6. d = e /\ t % 24 = a /\ u % 24 = b
  <2>1. t \div 24 = d /\ t % 24 = a
    BY <1>3, <1>5, DayOfStamp
  <2>2. u \div 24 = e /\ u % 24 = b
    BY <1>4, <1>5, DayOfStamp
  <2>. QED
    BY <2>1, <2>2
<1>7. a < b /\ b # 0 /\ b \in BarHours
  BY <1>3, <1>4, <1>5, <1>6
<1>8. CASE a = 0
  BY <1>3, <1>4, <1>6, <1>7, <1>8
<1>9. CASE a # 0
  <2>1. a \in BarHours /\ t # u
    BY <1>3, <1>4, <1>6, <1>7, <1>9
  <2>2. Twins(t, u)
    BY <1>3, <1>4, <1>6, <1>7, <2>1 DEF Twins
  <2>3. ~(deliveries["yahoo"] < 2)
    BY <1>2, <2>2 DEF StampInv
  <2>. QED
    BY <1>1, <1>6, <1>7, <2>1, <2>3
<1>. QED
  BY <1>8, <1>9

\* For every calendar, every pair of callers and whatever hours Yahoo's bars carry, a
\* second candle of a day that is evaluated in a life is Yahoo's, after Moomoo's or
\* after one of another answer.
THEOREM SecondIsYahoos == Spec => []SecondEvaluationIsYahoos
<1>1. Init => StampInv
  BY IngestionAssumption DEF Init, StampInv, Seen
<1>2. Typed /\ StampInv => SecondEvaluationIsYahoos
  BY StampsDiffer DEF SecondEvaluationIsYahoos
<1>. QED
  BY <1>1, <1>2, InitTyped, NextTyped, StampStep, PTL DEF Spec
-----------------------------------------------------------------------------
(* The hours of the top-up. *)

\* A tick that is PerDay later falls on the same hour.
LEMMA SameHour == ASSUME NEW t \in Nat PROVE (t + PerDay) % PerDay = t % PerDay
<1> DEFINE P == PerDay
           q == t \div P
           r == t % P
           k == (t + P) \div P
           s == (t + P) % P
<1>1. P \in Nat /\ P > 0
  BY TimerFacts
<1> HIDE DEF P
<1>2. /\ q \in Int /\ r \in Int /\ k \in Int /\ s \in Int
      /\ t = P * q + r /\ 0 <= r /\ r < P
      /\ t + P = P * k + s /\ 0 <= s /\ s < P
  BY <1>1
<1> HIDE DEF q, r, k, s
<1>3. P * (k - q - 1) = r - s
  BY <1>1, <1>2
<1>4. k - q - 1 = 0
  BY <1>1, <1>2, <1>3
<1>5. r = s
  BY <1>1, <1>2, <1>3, <1>4
<1>. QED
  BY <1>5 DEF r, s, P

AlignedInv == LaterRunsAreAligned /\ (booting => runs = 0)

LEMMA AlignedStep == Typed /\ AlignedInv /\ [Next]_vars => AlignedInv'
<1> SUFFICES ASSUME Typed, AlignedInv, [Next]_vars PROVE AlignedInv'
  OBVIOUS
<1>1. CASE TopUpTick
  <2>1. now \in Nat /\ due \in Nat /\ due <= now /\ ~ booting
    BY <1>1, TimerFacts DEF TopUpTick, TopUpDue, Typed, RestType
  <2>2. HourOfDay(due') = HourOfDay(due)
    <3>1. due' = due + PerDay
      BY <1>1 DEF TopUpTick
    <3>2. due' % PerDay = due % PerDay
      BY <2>1, <3>1, SameHour
    <3>. QED
      BY <3>2 DEF HourOfDay
  <2>3. late' \/ due = now
    <3>1. now > due => late'
      BY <1>1, Zenon DEF TopUpTick
    <3>2. now > due \/ due = now
      BY <2>1
    <3>. QED
      BY <3>1, <3>2, Zenon
  <2>4. runs' = 2 => InTargetWindow \/ runs = 2
    BY <1>1 DEF TopUpTick
  <2>5. late => late'
    BY <1>1 DEF TopUpTick
  <2>6. runs' = 2 => late' \/ HourOfDay(due) \in TargetHours
    BY <2>3, <2>4, <2>5 DEF AlignedInv, LaterRunsAreAligned, InTargetWindow
  <2>7. ~ booting'
    BY <1>1, <2>1 DEF TopUpTick
  <2>. QED
    BY <2>2, <2>6, <2>7 DEF AlignedInv, LaterRunsAreAligned
<1>2. CASE BackfillReturns
  BY <1>2 DEF BackfillReturns, AlignedInv, LaterRunsAreAligned, HourOfDay
<1>3. CASE Restart
  BY <1>3 DEF Restart, AlignedInv, LaterRunsAreAligned
<1>4. CASE UNCHANGED timing
  BY <1>4 DEF timing, AlignedInv, LaterRunsAreAligned, HourOfDay
<1>. QED
  BY <1>1, <1>2, <1>3, <1>4
     DEF Next, TaskStep, TaskGoesOn, RequestStep, IsAvailable, MoomooBackfill, CboeBackfill, YahooAnswers,
         YahooCheck, RequestFails, Respond, Clock, RateLimited, Request, Prune, Evaluate, vars, timing

\* Whatever hours the clock stands at, only the hour of the start or a delayed tick
\* brings the engine a second top-up.
THEOREM LaterRunsAlign == Spec => []LaterRunsAreAligned
<1>1. Init => AlignedInv
  BY DEF Init, AlignedInv, LaterRunsAreAligned
<1>2. AlignedInv => LaterRunsAreAligned
  BY DEF AlignedInv
<1>. QED
  BY <1>1, <1>2, InitTyped, NextTyped, AlignedStep, PTL DEF Spec
-----------------------------------------------------------------------------
(* The moments of the clock. *)

\* The next moment is a later one of the same day or the first of the next.
LEMMA NextMoment ==
  ASSUME NEW t \in Nat
  PROVE  \/ Day(t + 1) = Day(t) /\ (t + 1) % PerDay = (t % PerDay) + 1
         \/ Day(t + 1) = Day(t) + 1 /\ (t + 1) % PerDay = 0
<1> DEFINE P == PerDay
           q == t \div P
           r == t % P
           k == (t + 1) \div P
           s == (t + 1) % P
<1>1. P \in Nat /\ P > 0
  BY TimerFacts
<1> HIDE DEF P
<1>2. /\ q \in Int /\ r \in Int /\ k \in Int /\ s \in Int
      /\ t = P * q + r /\ 0 <= r /\ r < P
      /\ t + 1 = P * k + s /\ 0 <= s /\ s < P
  BY <1>1
<1> HIDE DEF q, r, k, s
<1>3. P * (k - q) = r + 1 - s
  BY <1>1, <1>2
<1>4. k - q = 0 \/ k - q = 1
  BY <1>1, <1>2, <1>3
<1>5. \/ k = q /\ s = r + 1
      \/ k = q + 1 /\ s = 0
  BY <1>1, <1>2, <1>3, <1>4
<1>. QED
  BY <1>5 DEF q, r, k, s, P, Day

LEMMA HourFacts ==
  ASSUME NEW t \in Nat
  PROVE  /\ Day(t) \in Nat /\ HourOfDay(t) \in 0..23 /\ Hour(t) = 24 * Day(t) + HourOfDay(t)
         /\ (t % PerDay) + 1 \in DOMAIN Hours
<1>1. PerDay \in Nat /\ PerDay > 0 /\ Hours \in Seq(0..23) /\ DOMAIN Hours = 1..PerDay
  BY TimersAssumption DEF PerDay
<1>2. t \div PerDay \in Nat /\ t % PerDay \in 0..(PerDay - 1)
  BY <1>1
<1>3. (t % PerDay) + 1 \in 1..PerDay
  BY <1>1, <1>2
<1>4. HourOfDay(t) \in 0..23
  BY <1>1, <1>3 DEF HourOfDay
<1>. QED
  BY <1>1, <1>2, <1>3, <1>4 DEF Day, Hour

\* Later on the same day, or the first hour of the next.
LEMMA NextHour ==
  ASSUME NEW t \in Nat
  PROVE  \/ Day(t + 1) = Day(t) /\ HourOfDay(t + 1) > HourOfDay(t)
         \/ Day(t + 1) = Day(t) + 1 /\ HourOfDay(t + 1) = HourOfDay(0)
<1>1. t \in Nat /\ t + 1 \in Nat /\ (t % PerDay) + 1 \in DOMAIN Hours /\ ((t + 1) % PerDay) + 1 \in DOMAIN Hours
  BY HourFacts
<1>2. 0 % PerDay = 0
  BY TimerFacts
<1>3. t % PerDay \in Nat
  BY TimerFacts
<1>4. CASE Day(t + 1) = Day(t) /\ (t + 1) % PerDay = (t % PerDay) + 1
  <2>1. (t % PerDay) + 1 < ((t + 1) % PerDay) + 1
    BY <1>3, <1>4
  <2>2. Hours[(t % PerDay) + 1] < Hours[((t + 1) % PerDay) + 1]
    BY <1>1, <2>1, TimersAssumption
  <2>3. HourOfDay(t) \in 0..23 /\ HourOfDay(t + 1) \in 0..23
    BY HourFacts
  <2>. QED
    BY <1>4, <2>2, <2>3 DEF HourOfDay
<1>5. CASE Day(t + 1) = Day(t) + 1 /\ (t + 1) % PerDay = 0
  BY <1>2, <1>5 DEF HourOfDay
<1>. QED
  BY <1>4, <1>5, NextMoment

-----------------------------------------------------------------------------
(* The briefings. *)

\* The calls of a briefing began at this moment or at the one before.
Asked ==
  /\ now \in Nat /\ asked \in Nat /\ wake \in Nat
  /\ loop = "check" => asked = now
  /\ loop \in {"startup", "generate"} => now = asked \/ now = asked + 1

\* The loop does not sleep past the next briefing.
SleepsUntilNext == loop = "wait" => wake <= NextBriefing

BriefingInv == Asked /\ SleepsUntilNext /\ EveryDayBriefed

\* From the briefing hour on, the trading day is the day.
LEMMA TradingDayIsDay ==
  ASSUME SuitableHours, NEW t \in Nat, HourOfDay(t) >= BriefingHour
  PROVE  (Hour(t) >= EtHours /\ (Hour(t) - EtHours) \div 24 \in TradingDays) <=> Day(t) \in TradingDays
<1>1. /\ Day(t) \in Nat /\ HourOfDay(t) \in 0..23 /\ Hour(t) = 24 * Day(t) + HourOfDay(t)
      /\ EtHours \in 0..23 /\ BriefingHour \in 1..23 /\ EtHours <= BriefingHour
  BY HourFacts, BriefingAssumption DEF SuitableHours
<1>2. HourOfDay(t) - EtHours \in 0..23 /\ Hour(t) >= EtHours
  BY <1>1
<1>3. Hour(t) - EtHours = 24 * Day(t) + (HourOfDay(t) - EtHours)
  BY <1>1
<1>4. (Hour(t) - EtHours) \div 24 = Day(t)
  BY <1>1, <1>2, <1>3, DayOfStamp
<1>. QED
  BY <1>2, <1>4

LEMMA NextBriefingFacts ==
  ASSUME now \in Nat
  PROVE  /\ NextBriefing \in Nat
         /\ NextBriefing = 24 * Day(now) + BriefingHour + (IF HourOfDay(now) >= BriefingHour THEN 24 ELSE 0)
BY HourFacts, BriefingAssumption DEF NextBriefing

\* The calls that began before midnight end before the briefing hour.
LEMMA SameDay ==
  ASSUME SuitableHours, Asked, loop \in {"startup", "generate"}
  PROVE  /\ Day(now) \in {today, today + 1}
         /\ HourOfDay(now) >= BriefingHour => today = Day(now)
<1>1. CASE now = asked
  BY <1>1 DEF today
<1>2. CASE now = asked + 1
  <2>1. asked \in Nat /\ HourOfDay(0) < BriefingHour /\ BriefingHour \in Nat /\ HourOfDay(0) \in Nat
    BY HourFacts, BriefingAssumption DEF Asked, SuitableHours
  <2>2. \/ Day(now) = today
        \/ Day(now) = today + 1 /\ HourOfDay(now) = HourOfDay(0)
    BY <1>2, <2>1, NextHour DEF today
  <2>. QED
    BY <2>1, <2>2
<1>. QED
  BY <1>1, <1>2 DEF Asked

LEMMA ClockBriefs ==
  ASSUME SuitableHours, BriefingInv, BriefingClock PROVE BriefingInv'
<1>1. /\ now \in Nat /\ asked \in Nat /\ wake \in Nat /\ now' = now + 1 /\ now' \in Nat
      /\ UNCHANGED <<loop, wake, asked, cache, failed>>
  BY DEF BriefingInv, Asked, BriefingClock, TimePasses
<1>2. /\ loop = "wait" => Hour(now) < wake
      /\ loop # "check"
      /\ loop \in {"startup", "generate"} => now <= asked
  <2>1. /\ ~(loop = "wait" /\ Hour(now) >= wake) /\ loop # "check"
        /\ ~(loop \in {"startup", "generate"} /\ now > asked)
    BY DEF BriefingClock, TimePasses
  <2>2. Hour(now) \in Nat
    BY <1>1, HourFacts
  <2>. QED
    BY <1>1, <2>1, <2>2
<1>3. Asked'
  BY <1>1, <1>2 DEF BriefingInv, Asked
<1>4. /\ Day(now) \in Nat /\ HourOfDay(now) \in 0..23 /\ Hour(now) = 24 * Day(now) + HourOfDay(now)
      /\ Day(now + 1) \in Nat /\ HourOfDay(now + 1) \in 0..23
      /\ Hour(now + 1) = 24 * Day(now + 1) + HourOfDay(now + 1)
      /\ HourOfDay(0) < BriefingHour /\ BriefingHour \in 1..23
  <2>1. now + 1 \in Nat
    BY <1>1
  <2>. QED
    BY <1>1, <2>1, HourFacts, BriefingAssumption DEF SuitableHours
<1>5. \/ Day(now + 1) = Day(now) /\ HourOfDay(now + 1) > HourOfDay(now)
      \/ Day(now + 1) = Day(now) + 1 /\ HourOfDay(now + 1) < BriefingHour
  BY <1>1, <1>4, NextHour
<1>6. loop = "wait" =>
        wake <= 24 * Day(now) + BriefingHour + (IF HourOfDay(now) >= BriefingHour THEN 24 ELSE 0)
  BY <1>1, NextBriefingFacts DEF BriefingInv, SleepsUntilNext
<1>7. SleepsUntilNext'
  <2>1. NextBriefing' = 24 * Day(now + 1) + BriefingHour
                          + (IF HourOfDay(now + 1) >= BriefingHour THEN 24 ELSE 0)
    BY <1>1, <1>4 DEF NextBriefing, Day, HourOfDay
  <2>. QED
    BY <1>1, <1>4, <1>5, <1>6, <2>1 DEF SleepsUntilNext
<1>8. ASSUME loop = "wait", wake > Hour(now + 1), HourOfDay(now + 1) >= BriefingHour,
             Day(now + 1) \in TradingDays
      PROVE  Day(now + 1) \in DOMAIN cache \cup failed
  <2>1. Day(now + 1) = Day(now)
    BY <1>4, <1>5, <1>8
  <2>2. HourOfDay(now) >= BriefingHour
    BY <1>1, <1>4, <1>5, <1>6, <1>8, <2>1
  <2>3. IsTradingDay
    BY <1>1, <1>8, <2>1, <2>2, TradingDayIsDay DEF IsTradingDay
  <2>4. wake > Hour(now)
    BY <1>1, <1>2, <1>4, <1>8
  <2>. QED
    BY <1>8, <2>1, <2>2, <2>3, <2>4 DEF BriefingInv, EveryDayBriefed
<1>9. HourOfDay(now + 1) >= BriefingHour /\ IsTradingDay' => Day(now + 1) \in TradingDays
  <2>1. IsTradingDay' <=> (Hour(now + 1) >= EtHours /\ (Hour(now + 1) - EtHours) \div 24 \in TradingDays)
    BY <1>1 DEF IsTradingDay, Hour, Day, HourOfDay
  <2>2. now + 1 \in Nat
    BY <1>1
  <2>. QED
    BY <2>1, <2>2, TradingDayIsDay
<1>10. EveryDayBriefed'
  <2>1. Hour(now)' = Hour(now + 1) /\ HourOfDay(now)' = HourOfDay(now + 1) /\ Day(now)' = Day(now + 1)
    BY <1>1 DEF Hour, Day, HourOfDay
  <2>2. \A d \in DOMAIN cache : cache[d] \in {d, d + 1}
    BY DEF BriefingInv, EveryDayBriefed
  <2>. QED
    BY <1>1, <1>8, <1>9, <2>1, <2>2 DEF EveryDayBriefed
<1>. QED
  BY <1>3, <1>7, <1>10 DEF BriefingInv

\* Where the clock stands still, only the sleep and what is known of the day count.
LEMMA SleepBriefs ==
  ASSUME BriefingInv, UNCHANGED now, wake' = NextBriefing, asked' \in Nat, loop' = "wait",
         HourOfDay(now) >= BriefingHour /\ IsTradingDay => Day(now) \in DOMAIN cache' \cup failed',
         \A d \in DOMAIN cache' : cache'[d] \in {d, d + 1}
  PROVE  BriefingInv'
<1>1. now \in Nat /\ NextBriefing \in Nat /\ NextBriefing' = NextBriefing
  BY NextBriefingFacts DEF BriefingInv, Asked, NextBriefing
<1>2. IsTradingDay' = IsTradingDay
  BY DEF IsTradingDay
<1>. QED
  BY <1>1, <1>2 DEF BriefingInv, Asked, SleepsUntilNext, EveryDayBriefed

LEMMA ComesBriefs ==
  ASSUME SuitableHours, BriefingInv, BriefingComes PROVE BriefingInv'
<1> DEFINE key == IF loop = "startup" THEN Day(now) ELSE today
<1>1. /\ loop \in {"startup", "generate"} /\ UNCHANGED <<now, asked, failed>>
      /\ loop' = "wait" /\ wake' = NextBriefing /\ asked \in Nat
      /\ cache' = [x \in DOMAIN cache \cup {key} |-> IF x = key THEN Day(now) ELSE cache[x]]
  BY DEF BriefingComes, Waits, cache_briefing, BriefingInv, Asked
<1>2. Day(now) \in {key, key + 1} /\ (HourOfDay(now) >= BriefingHour => key = Day(now))
  BY <1>1, SameDay DEF BriefingInv
<1> HIDE DEF key
<1>3. \A d \in DOMAIN cache' : cache'[d] \in {d, d + 1}
  BY <1>1, <1>2 DEF BriefingInv, EveryDayBriefed
<1>4. HourOfDay(now) >= BriefingHour => Day(now) \in DOMAIN cache'
  BY <1>1, <1>2
<1>. QED
  BY <1>1, <1>3, <1>4, SleepBriefs

LEMMA FailsBriefs ==
  ASSUME BriefingInv, BriefingFails PROVE BriefingInv'
<1>1. /\ UNCHANGED <<now, asked, cache>> /\ loop' = "wait" /\ wake' = NextBriefing
      /\ asked \in Nat /\ Day(now) \in failed'
  BY DEF BriefingFails, Waits, BriefingInv, Asked
<1>2. \A d \in DOMAIN cache' : cache'[d] \in {d, d + 1}
  BY <1>1 DEF BriefingInv, EveryDayBriefed
<1>. QED
  BY <1>1, <1>2, SleepBriefs

LEMMA ChecksBriefs ==
  ASSUME BriefingInv, ChecksDay PROVE BriefingInv'
<1>1. /\ UNCHANGED <<now, asked, cache, failed>> /\ loop = "check" /\ asked = now
      /\ now \in Nat /\ asked \in Nat /\ wake \in Nat
      /\ \A d \in DOMAIN cache : cache[d] \in {d, d + 1}
  BY DEF ChecksDay, BriefingInv, Asked, EveryDayBriefed
<1>2. CASE IsTradingDay /\ ~cached(today)
  <2>1. loop' = "generate" /\ wake' = wake
    BY <1>2 DEF ChecksDay
  <2>. QED
    BY <1>1, <2>1 DEF BriefingInv, Asked, SleepsUntilNext, EveryDayBriefed
<1>3. CASE ~(IsTradingDay /\ ~cached(today))
  <2>1. loop' = "wait" /\ wake' = NextBriefing
    BY <1>3 DEF ChecksDay, Waits
  <2>2. IsTradingDay => Day(now) \in DOMAIN cache
    BY <1>1, <1>3 DEF cached, today
  <2>. QED
    BY <1>1, <2>1, <2>2, SleepBriefs
<1>. QED
  BY <1>2, <1>3

\* For every calendar, and any number of refreshes, restarts and failures, each
\* trading day whose briefing hour has passed has its briefing or a failed attempt
\* of its own, as long as the hours suit.
THEOREM TradingDaysBriefed ==
  ASSUME SuitableHours PROVE BriefingSpec => []EveryDayBriefed
<1>1. BriefingInit => BriefingInv
  BY TimerFacts DEF BriefingInit, BriefingInv, Asked, SleepsUntilNext, EveryDayBriefed
<1>2. BriefingInv /\ [BriefingNext]_briefingVars => BriefingInv'
  <2> SUFFICES ASSUME BriefingInv, [BriefingNext]_briefingVars PROVE BriefingInv'
    OBVIOUS
  <2>1. CASE BriefingClock
    BY <2>1, ClockBriefs
  <2>2. CASE BriefingComes
    BY <2>2, ComesBriefs
  <2>3. CASE BriefingFails
    BY <2>3, FailsBriefs
  <2>4. CASE ChecksDay
    BY <2>4, ChecksBriefs
  <2>5. CASE SpawnLoop \/ Wakes
    BY <2>5 DEF SpawnLoop, Wakes, BriefingInv, Asked, SleepsUntilNext, EveryDayBriefed
  <2>6. CASE AdvisorRestarts
    BY <2>6 DEF AdvisorRestarts, BriefingInv, Asked, SleepsUntilNext, EveryDayBriefed
  <2>7. CASE Refresh \/ UNCHANGED briefingVars
    <3>1. UNCHANGED <<now, loop, wake, asked, cache, failed>>
      BY <2>7 DEF Refresh, briefingVars
    <3>2. NextBriefing' = NextBriefing /\ IsTradingDay' = IsTradingDay
      BY <3>1 DEF NextBriefing, IsTradingDay
    <3>. QED
      BY <3>1, <3>2 DEF BriefingInv, Asked, SleepsUntilNext, EveryDayBriefed
  <2>. QED
    BY <2>1, <2>2, <2>3, <2>4, <2>5, <2>6, <2>7 DEF BriefingNext
<1>3. BriefingInv => EveryDayBriefed
  BY DEF BriefingInv
<1>. QED
  BY <1>1, <1>2, <1>3, PTL DEF BriefingSpec
=============================================================================
