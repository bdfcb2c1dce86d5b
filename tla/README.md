# MarketMoves: models, checks and proofs

MarketMoves trades one daily equity symbol (QQQ, with PSQ for shorts). A Rust
engine stores candles in SQLite, asks a Python inference service for predictions
over ZeroMQ, decides a position with a threshold rule, records trades through an
executor, and serves a control room over HTTP and a WebSocket. A set of Python
scripts (`.agents/skills/moomooapi`) talks to the broker's gateway OpenD; the
engine runs two of them, an operator runs the others. This directory holds TLA+
modules of the parts that decide, record, order and recover, the TLC
configurations that check them on small instances, and TLAPS proofs of what
matters most for every instance.

## 1. Inventory

| Part | Source | State | Operations | What is hard about it |
|---|---|---|---|---|
| Daily strategy | `engine/src/strategy.rs` | none | `next_equity_position`, encodings | a sequence of signals must never turn a position over |
| Scheduler | `engine/src/scheduler.rs` | `last_processed_ts` in memory; `equity_predictions`, `positions`, `signal_state` in SQLite | poll, `process`, `finalize_candle`, `evaluate_and_execute_strategy` | a dozen awaits, each able to fail; a restart between any two |
| Paper executor | `engine/src/exec/paper.rs` | `current_position` in memory; `equity_trades` in SQLite | `set_target_position` | two legs, two statements; memory lost at restart |
| Live executor | `engine/src/exec/moomoo.rs` | none (the broker's) | `set_target_position` through `place_order.py` | Flat submits nothing; what is committed depends on an exit status alone |
| Order scripts | six scripts of `moomooapi/scripts/trade` that place, modify or cancel | the broker's orders, an audit log | check, open, look up, submit, log | concurrent invocations, lost replies, kills, a read-modify-write of one order |
| Query and push scripts | all other scripts of `quote/`, `subscribe/`, `trade/`, and `common.py` | two files of `/tmp`: an environment mark, the crypto firm that was found | one straight program each | callers parse what is printed and trust the exit status; files shared by invocations |
| Prediction link | `engine/src/bridge.rs`, `inference/equity_model.py`, `engine/src/api/equity.rs` | a REQ socket per client, requests in flight, `equity_predictions` | `predict_v3` with retries, the REP loop, the backfill handler | timeouts racing late replies, replies matched by order alone, two writers of one table |
| Event log and archival | `engine/src/event.rs`, `engine/src/archive.rs` | `engine_events`, one file a month | `emit`, `archive_old_events` daily | the run stops between files and the delete; files are truncated |
| Control plane | `engine/src/api/mode.rs`, `strategy_config.rs`, `mod.rs` | the mode and the thresholds, `mode_switches` | `handle_set_mode`, `handle_put` | concurrent requests, partial failure, clients that leave, copies of shared state |
| Ingestion supervisor | `engine/src/data/` | `equity_candles` | start-up backfill, daily top-up, prune, requests that fetch | gated ticks, provider retries, one day from two providers |
| Telemetry | `engine/src/event.rs`, `api/ws.rs`, `frontend/src/lib/websocket.js`, `stores.js`, `Events.svelte`, `Dashboard.svelte` | a bounded broadcast channel, a socket variable shared by pages, a list of events | emit, forward, connect, reconnect, load the history | lagging subscribers, callbacks of old sockets, no read after a reconnect |
| Advisor | `engine/src/advisor/`, `engine/src/api/advisor.rs` | a cache per day, a log | briefing loop, refresh, chat | the cache is checked before minutes of calls; two calendars |
| Backtester | `engine/src/strategy_lab/` | none while it runs | `run_backtest` | bookkeeping of trades, bars without a prediction, edges of the range |
| Configuration and start-up | `engine/src/config.rs`, `main.rs` | none | checks; the order in which tasks start | what fails before the tasks start ends the process |
| Features, market hours | `features/`, `market_hours.rs` | none | arithmetic | sequential |
| Training, deployment, views | `training/`, `deploy/`, `frontend/` | offline | scripts | no run-time protocol |

The ingestion supervisor writes `equity_candles`; the scheduler polls the newest
timestamp and calls the inference service through its own bridge; the backfill
handler calls it through another. Both upsert `equity_predictions`. The scheduler
reads the mode, drives the executor and then commits `signal_state`; every part
emits events, which are stored and broadcast. The live executor runs
`place_order.py`, the supervisor `get_kline.py`. The API serves all tables and is
meant to flip the mode and thresholds the scheduler reads.

What makes each part correct is what its run asks in section 3; the hazards that
the properties are for are listed, line by line, in `PROJECT.json`.

## 2. Modules

| Module | Models | State and actions |
|---|---|---|
| `EquityStrategy` | `strategy.rs` | operators only: `Exits`, `EntersLong`, `EntersShort`, `next_equity_position`, `as_i64`, `from_i64`. Predictions and prices are integers, for the rule only compares them |
| `PositionMachine` | what the engine promises of the committed position | one variable; `Open` from Flat, `Close` to Flat |
| `CandleMarks` | what the engine promises of its candles, whoever predicts them | the newest candle, those with a row, the one marked last; `Arrive`, `Predict`, `Mark`, `Forget` |
| `EventKeeper` | what the event log promises of events it has stored, wherever table and files stand | events stored, events that can be read by period, periods purged; `Store`, `Purge`, `BeginAnew` |
| `TradingCycle` | scheduler and paper executor | each table, each memory cell and `pc`, the await the task is at. Every statement is an action (`PersistPrediction`, `InsertPositionEvent`, `ExitLeg`, `EntryLeg`, `SavePosition`), and every one has a failing twin (`PersistFails`, `LegFails`, `EvaluationFails`, ...) that takes the error path the code takes; `Restart` keeps the tables and resets the memory |
| `PredictionLink` | bridge, REP loop, both callers | for each client the attempt it is at and the requests in flight on its connection, each represented by its candle and the end of its window; `Send`, `Recv`, `RecvError`, `Timeout`, `SendFails`, `Serve`, `ConnectionLost`, `Persist`, and the backfill that reads candles and rows at two awaits (`BackfillBegins`, `BackfillReads`), the rows once |
| `EventArchive` | event log and archival | the table, the files, the run's cutoff, rows and months; one action per statement and per file operation, `RunFails`, `Restart` |
| `ControlPlane` | mode and thresholds handlers | where each request is; `Check`, `Flip`, `insert_mode_switch`, `Unaudited`, `Emit`, `Refuse`, `handle_put`, and the parity marker |
| `OrderDesk` | the six order scripts | each invocation's command line, step, exit status, what it sent and heard, its audit rows; the broker's orders. `CheckArgs`, `Open`, `CheckAccounts`, `ReadOriginal`, `Submit`, `Reply`, `Kill`; the broker acts, loses the reply, or does not act |
| `LiveExecutor` | the engine in live mode, one more invocation at the desk | position, target, a flag that `submit_order` waits; `SetTarget`, `Spawn`, `SetFlat`, `SubmitReturns` |
| `ScriptSteps` | the vocabulary of the other scripts | a program is its steps, where its `try` begins, what its `except` does, and what the result is printed as |
| `QuoteScripts`, `TradeScripts`, `SubscribeScripts` | one program for each script | no state; scripts that differ by a flag have a program for each value of it |
| `ScriptRunner` | `common.py`, and what a program does step by step | the script, its flags, `pc`, what it printed, what was answered; the two files of `/tmp`, OpenD and the accounts as the world around it. One action per kind of step, `Raise` for an exception at it, `Interrupt` |
| `DailyTimers` | the wall clock of daily tasks | a clock that stands at a few hours of a day; `TimePasses` |
| `Ingestion` | boot backfill, top-up, requests, prune | timestamps stored per symbol, where the task and a request are; one action per provider call and outcome (`MoomooBackfill`, `CboeBackfill`, `YahooCheck`, `YahooAnswers`, `RateLimited`, `RequestFails`), `TopUpTick`, `Prune`, `Restart`; `Evaluate` is the scheduler as reader |
| `Briefing` | the advisor's loop | where the loop is, the permit of its `Notify`, the cache by date; `Wakes`, `ChecksDay`, `BriefingComes`, `BriefingFails`, `Refresh`, `AdvisorRestarts` |
| `Telemetry` | `emit`, channel, forwarding task, `websocket.js`, the Events page and the Dashboard's mount | the channel and a cursor per socket, the browser's `ws`, timer and flags, the list; one action per callback |
| `Backtest` | the replay, beside the engine on the same candles | the loop's variables; `Bar`, `CloseAtEnd` |
| `MC*` | | values of the constants for TLC |
| `*_proofs` | | theorems about the module of that name; `DailyTasks_proofs` about `Ingestion` and `Briefing`, `Tools_proofs` about `Backtest` and `ScriptRunner` |

`TradingCycle` extends `EquityStrategy` and implements `PositionMachine`
(`INSTANCE PositionMachine WITH position <- signal_state`). `TradingCycle` and
`PredictionLink`, which see the same scheduler from its two sides, both implement
`CandleMarks`; `EventArchive` implements `EventKeeper`, whose log is the union of
the table and the file of each month. `LiveExecutor` composes
the engine with `OrderDesk`; `ScriptRunner` runs the programs that the three
catalogues hold; `Ingestion` and `Briefing` share `DailyTimers`; `Backtest` and
`TradingCycle` share the rule. The definitions whose comment begins "Mutant" are
deliberate bugs: each takes the place of a definition to show that a property
notices it. They are used by no action.

Where the models depart from the letter of the code:

* A prediction, a feature window and an ATR are abstracted to the signal the
  strategy reads (`TradingCycle`) or to the candles they are of (`PredictionLink`).
* The quantity of a trade is one unit: entries and exits are counted.
* Emitting an event is best effort and does not change the cycle, so it is a step
  only in `EventArchive`, `ControlPlane` and `Telemetry`.
* That the ZeroMQ socket may send again after a dropped receive, and then returns
  replies in order, is the library's behaviour and is external to the repository,
  as is what a lost connection drops.
* In `EventArchive` an insert is assumed to take less than a day, and the retention
  to be at least a day: with none, a row inserted between read and delete is lost.
  Days and months are counted, not looked up in a calendar.
* `ControlPlane` is one life of the engine: the mode and the thresholds come from
  the configuration again after a restart. A wrong one-time code is a refusal. A
  handler whose client disconnects is dropped at its await, which leaves the state
  of a failed insert. The two switches of an update are never refused and no
  check reads them: they are left out.
* In `OrderDesk` the checks of one argument alone are one flag of the command line,
  and the broker changes only open orders and is free to refuse any request. Only
  order 1, placed in the app, is modified, cancelled or filled; the account on which
  an order without one lands is the broker's choice. A refused command line exits 1
  or 2, whichever of the script's checks or argparse refuses it.
* In `ScriptRunner` one list has at most `MaxPages` pages, a loop over firms or
  accounts stands for one of any length, `--help` is left out, and a script that
  takes `--max-page` counts as asking for one page. A subscription refused with an
  error that contains "already" (`common.py:765`) counts as answered, as it does for
  the script.
* `Ingestion` knows a candle by its timestamp; prices, the FRED series and the
  sentiment seed are left out. Yahoo's stamp of a day is any of `BarHours`, another in
  each answer if need be, for `yahoo.rs:145` stores the time that comes; the provider
  has one bar of a day in an answer, and none of midnight. What waits for no provider takes no time.
* `Telemetry` leaves out filters, the length of the backoff and the other kinds of
  events. An event in flight to a socket counts as not forwarded yet. The history
  is read in the order of `ts`.
* `Backtest` assumes nothing of the parameters: neither `api/backtest.rs` nor
  `parse_strategy_kind` checks them, the window may be 0, and only those of the engine
  were checked at start-up (`config.rs:144`). It leaves out returns and metrics; averages are compared as sums, close
  and average both multiplied by the number of closes.

## 3. Runs

| Run | Question | Bounds |
|---|---|---|
| `trading_cycle` | Do position, executor and ledger agree where the code lets them, is a candle evaluated once per life and marked only with its row, does the newest candle get its prediction? | 4 candles (the first has too little history), 2 faults, 1 restart, 5 signals |
| `prediction_link` | Whose reply is in a row, what is still owed, which candle is marked, does the backfill end? | 2 candles, 2 scheduler calls of 2 attempts, 1 backfill |
| `prediction_link_window` (violated) | Does the window reach the candle in process? | 3 candles, 2 fetched |
| `event_archive` | Is an event lost only by a later run, and which step loses which events? | 3 events, 6 days, months of 3, retention 1 |
| `control_plane` | Does the audit add up, when may the mode be live, and what closes the short band? | 3 requests, 9 updates |
| `control_plane_toggle` (violated) | Does the scheduler follow the toggle? | 1 request |
| `live_executor` | What do exit status and audit log tell of an order, who confirmed it, on whose account is it, what do changes of one order lose, and what does the engine achieve in live mode? | 2 invocations of 12 command lines beside the engine's, 3 accounts (one MASTER, one with prediction trading, one not listed) |
| `scripts` | Is an exit 0 a whole answer, can a caller of `--json` parse it, and is the firm found the right one? | every script, one after another; 2 firms, 2 pages a list |
| `ingestion` | When is a day evaluated twice, does the top-up go on, does a backfill end? | a trading day and a holiday of two moments each, 2 hours for Yahoo's bars, 1 symbol and `^VIX`, 1 request |
| `briefing` | Does every trading day get its briefing? | 4 days of 3 moments, a holiday, 2 refreshes, any number of restarts |
| `telemetry` | What does the Events page miss or show twice, and can it be left without a connection? | 2 events, a channel of 1, 2 sockets not closed yet, 2 dashboards at their fetches, 1 fetch of the history |
| `backtest` | Is the replay what the engine would have held? | 4 bars, average of 2, 2 prices, 3 predictions or none, 4 parameter sets the engine accepts and 2 it refuses |

Why the bounds are enough.

* The cycle's bugs need a fault in one candle, a wrong decision in the next and a
  trade in a third; four candles leave one over, and the five signals reach every
  branch of the rule from every position. Two faults is the first number at which the
  ledger goes wrong, and the properties that hold say exactly that (one fault is
  harmless); more faults add nothing that is claimed.
* In the link a stale reply needs one timeout and one more call; two calls of two
  attempts give a backlog of up to four replies. Two clients never share a
  connection, so one backfill is enough to interleave with the scheduler.
* The archive meets two months, a month twice, and a restart or failure at any
  operation; three events allow two of one month and one of another.
* Three requests are the least for two audit rows to be inserted out of order while
  a third flip is pending.
* At the order desk a lost update needs two changes of one order; the engine's
  invocation is a third, since it may run while both do. The command lines reach
  every branch of the six scripts: every check of an account, every way to need
  a confirmation.
* A script has no state but its own and the two files; the order in which they are
  run is free, so that each meets the files as any other left them. Two pages are
  the least for a list to be cut short, two firms the least for one to be found
  before another.
* A day is evaluated twice when one provider delivers it after the other, or Yahoo
  twice at different hours: one symbol, two hours and one request or one failure do.
  The second day has only ticks, the retention and calls without new bars. The moments are one in the night window, when
  a day is not open yet, and one after the close; `late` ticks need a backfill
  that spans one of them.
* Four days give a trading day after a trading day, one before a holiday and one
  after it; the three moments are the evening before in New York, the briefing
  hour and one past it.
* A channel of one event lags at the second. Two sockets are the least for one
  to act on the other's variable. More are added only after one is closed. Two dashboards
  that were left before their fetches returned are the least whose connects overlap.
* Two bars fill the average, the third slides it, the fourth has a position from
  the third to close.

What the properties relate:

* `IdleAgreement`, `ExecutorMatchesLedger`, `NeverOversold`: three records of one
  position, written by different statements, and how many faults and restarts it
  takes to part them.
* `EvaluatedOncePerLife`: what the poll retries is the prediction, never the decision.
* `ImplementsPositionMachine`: refinement of the abstract machine.
* `ImplementsCandleMarks`: rows, marks and memory of the same candle, with one writer
  that fails anywhere and with two writers and late replies.
* `BacklogIsTimeouts`: the only way to be owed a reply is a timeout after the send.
* `OnTimeRowsAreOwn`, `NoLookAhead`: a row is wrong only by being late, never by
  being early.
* `LostOnlyByLaterRun`: the archival run is safe against stopping anywhere; it is the
  next run that loses rows. `ImplementsEventKeeper` says the same of every step: the
  delete takes nothing out of the log, the creation of a purged month's file takes
  events of that month only, and none comes back.
* `AuditBalance`: rows of concurrent flips add up whatever their order.
  `LiveNeedsMarker` follows a check that is
  made before the lock is held.
* `BandClosedByEntryOnly`: the cross-field check protects one side only.
* `ExitTellsFate`, `LogIsTrue`: what a caller can conclude from a status, what a
  reader from the log, and the complete list of exceptions.
* `RealOrdersAreConfirmed`, `MasterOrdersExplained`: an order at the broker against
  the command line it came from, across three scripts that check differently.
* `ModifyKeepsTheRest`: two changes that do not cross lose nothing; two that do may.
* `OnlyFlattens`: live mode never opens a position.
* `ZeroIsWhole`, `JsonWhenAsked`: over all scripts, which of them break what the
  others keep; the exceptions are lists of names in `MCScriptRunner`.
* `FirmIsProbed`: the file that carries the firm from one invocation to the next.
* `SecondEvaluationIsYahoos`, `LaterRunsAreAligned`, `BackfillsEnd`: two stamps of a
  day, a tick's phase against a window, and a wait without a limit.
* `EveryDayBriefed`: loop, cache, permit and two calendars.
* `ViewIsExplained`: every event is shown, still to come, or was taken by a step that
  is named (a lagging channel, a socket that ended, a history that replaced the
  list, a list that is full); none is shown twice unless the history brought it too
  or a late dashboard opened a second socket. `NeverStranded`: whatever old sockets
  do to the shared variable, the page reconnects.
* `MatchesLive`: two averages and two treatments of missing predictions lead to one
  position, unless a prediction is missing and its zero is beyond a threshold. `TradesArePositions`: the trades are exactly the
  positions held.

Deadlock checking is off where the bounds let the system stop (no more candles,
days, calls). Fairness: `TradingCycle!FairSpec` asks that the scheduler task, being
ready, runs (tokio polls every ready task and the poll's ticker never stops);
failures, candles and restarts are not fair, and a task that returned from `run()`
is not restarted, hence the disjunct for a stopped task in `NewestCandlePredicted`.
`PredictionLink!FairSpec` asks that each client runs and that its timer fires
(`tokio::time::timeout` around each attempt), and nothing of the service.
`Ingestion!Spec` asks that the task and the request go on, as each HTTP request has a
timeout, and, with strong fairness, that Yahoo, asked again and again, answers or fails
at last: the loop around status 429 (`yahoo.rs:102`) has no end of its own, and
`BackfillsEnd` is false without it. Nothing is asked of `get_kline.py`, which
`moomoo.rs:115` waits for without a timeout: `BackfillsEnd` says that a backfill ends
or stays at that wait forever.

Some properties describe a hazard rather than exclude it, by a premise or a list of
exceptions; what they exclude is in section 5. `ExecutorMatchesLedger`
leaves out a second sale, which needs two faults, and `NeverOversold` an exit that is
never sold and then bought again;
`LiveNeedsMarker` says that the marker was once written, not that it was fresh at the
flip; `MasterOrdersExplained`, `ZeroIsWhole` and `JsonWhenAsked` list the scripts and
paths that break the rule; `ModifyKeepsTheRest` and `FirmIsProbed` hold where nothing
crossed or disturbed; `OnlyFlattens` states what live mode comes to;
`LaterRunsAreAligned` says when a top-up runs, not that one does; for
`EveryDayBriefed` a day counts as briefed by an evening refresh, and an attempt
counts as failed on the day on which it ends.

## 4. Proofs

Proved with TLAPS, for every value of the constants that satisfies the named
assumptions (`CycleAssumption`, `LinkAssumption`, `NoRowAssumption`,
`ArchiveAssumption`, `ControlAssumption`, `DeskAssumption`, `EngineAssumption`,
`TimersAssumption`, `IngestionAssumption`, `BriefingAssumption`, `TelemetryAssumption`,
`BacktestAssumption`, `RunnerAssumption`, `CatalogueAssumption`); TLC evaluates the
assumptions in the runs. `CatalogueAssumption` is what the proofs ask of the programs:
every program with a lenient step or one that prints a text is on the list of
exceptions for it, which TLC evaluates on all of the scripts. One theorem
has a hypothesis besides, `SuitableHours`, which holds in the run (`MCHoursAssumption`).

A refinement is proved as an invariant is: one step for each action, which is mapped
to a step of the abstract specification or to a stutter.

* `TradingCycle_proofs`. Type correctness, then two inductive invariants.
  `EvaluationInv` ties the candle in process to `last_processed_ts` and to the number
  of audit rows (at each step past the prediction the candle is marked), and gives
  `EvaluatedOnce`, `DecisionsArePredicted` (no decision is audited before its row is on
  disk, which no run repeats) and the refinement `CycleImplementsCandleMarks`. `PositionInv` has three parts:
  `DecisionInv` (what was loaded is still what is committed, and a decision opens from
  Flat or closes to it), `ExecutorInv` and `LedgerInv`, which say what executor and ledger hold at
  each `pc` as long as faults are few. The properties alone are not inductive, for
  between the legs the ledger agrees with nobody. They give `IdleRecordsAgree`,
  `OneFaultIsHarmless`, `NothingOversold` and the refinement
  `CycleImplementsPositionMachine`, which rests on `NextPosition`: the rule never
  goes from Long to Short or back.
* `PredictionLink_proofs`. `ClientInv` says of each connection that the replies in
  flight are those given up plus the one awaited, that the awaited one is the last of
  the queue and is of the client's candle, and that all earlier ones are of candles no
  newer. `LinkInv` adds the rows. They give `Backlog`, `OnTimeIsOwn`,
  `NothingLooksAhead`. `MarkInv` says that a call of the scheduler is of a candle newer
  than the one marked, from its read of the window to its row; with it every `Persist`
  is a `Mark` or a `Predict` and `LinkImplementsCandleMarks` follows.
* `EventArchive_proofs`. `ArchiveInv`: a run has read what it will delete
  (`ReadInv`, for the cutoff is older than any row still to be inserted), months done
  are in their files and the file being written is empty (`WrittenInv`), and what left
  the table is of a purged month (`PurgedInv`). They give `LostByReopening` and
  `ArchivedFirst`, that a row is deleted only when its month's file has it, which no run
  repeats because the refinement says it: `KeeperInv` adds that what a run has read stays
  in the table until the delete (`RowsInv`), and `ArchiveImplementsEventKeeper` follows.
* `ControlPlane_proofs`. `AuditAddsUp` counts the flips without a row as a finite set
  (`FlipCounts`, `InsertCounts`); `EventsFollowTheAudit`, that events of a flip never
  outnumber its rows (no run repeats it), counts the requests between their row and
  their event (`EventBalance`); `LiveAfterTheHarness` says of each request
  past its check that the marker was there (`MarkerInv`), since a marker is never
  removed; `BandCloses` follows a threshold through the order in which an update's
  fields are applied.
* `LiveExecutor_proofs`, for any number of concurrent invocations and any command
  lines. `EngineRefused`: the engine's command line fails the first check, so its child
  ends with a status other than 0 and sends nothing; this is why `LiveOnlyFlattens`.
  `Fates` says at each step what an invocation has sent and heard; `StatusTellsFate` and
  `AuditLogIsTrue` are its last case. `Origins` says what an invocation past a check
  was checked for, and carries it over to the orders it placed (`RealMoneyIsConfirmed`,
  `MasterIsExplained`); it needs `EngineRefused`, because a new child of the engine
  forgets whether the last one saw the account list. `Intentions` says that values
  read from an order are still its values unless a change crossed
  (`UncrossedChangesKeepTheRest`).
* `DailyTasks_proofs`. `StampInv`: every stamp stored or evaluated is midnight's or at
  one of Yahoo's hours, and its provider has delivered the target; until Yahoo has
  delivered twice, no two of its stamps are of one day (`Twins`), because one answer
  has one bar of a day. `SecondIsYahoos` is then arithmetic modulo 24. `AlignedInv` ties the second run to the hour of a tick. Of the advisor, `BriefingInv`
  says when the loop looked at the clock last (`Asked`: at most one moment ago while it
  generates), that it never sleeps past the next briefing (`SleepsUntilNext`), and the
  property itself; `TradingDaysBriefed` is its last part, for any calendar and any
  number of refreshes, failures and restarts. It needs `SuitableHours`: at an earlier
  hour the trading day is not the day of the cache, and an engine whose models answer
  past midnight and past the hour misses a day.
* `Telemetry_proofs`. `SocketInv` says which sockets can still tell of their end, in
  every order of callbacks; `AlwaysReconnects` follows. `FeedInv`: at most one socket is
  heard unless a late dashboard opened a second one (`OneSocket`), an event enters the
  channel once (`SentOnce`), what a socket is still to bring is not shown, unless the
  history brought it (`ShownOnce`), and an event is shown, on its way, or gone by a step
  that is named (`Kept`). `ViewExplained` follows, for any number of events and sockets
  and any capacity.
* `Tools_proofs`, for any series and any answers of a script. `Held`: each bar that
  was replayed is held by the trades of its position, closed or still open, and no
  closed one reaches further; `TradesAreThePositions` is what is left of it when the
  last bar has closed the open one (`ClosedHolds`). `MatchInv` adds that the running sum
  is the sum of the closes in the window (`SumInv`), and gives `ReplayMatchesEngine`:
  both averages are of the same closes. The sum is defined by a fold; what it is of a
  longer and of a shorter sequence is proved by induction on the length, stated as
  a fact about sets of numbers (`Induction`, from the least element of a set), since an
  induction theorem with an operator as its parameter cannot be used.
  Of the scripts, for any catalogue within its assumption, any firms and any order of
  invocations: `WholeInv` says at each step which requests were answered and why pages
  or parts may be lacking, `PrintInv` what is printed while a script still runs; they
  give `ZeroSaysWhole` and `AskedForJson`. `FirmInv` says which firms were probed before
  those still to do and when a cached one is trusted; `FirmsAgree` is the action
  property.

Only model-checked: liveness (`NewestCandlePredicted`, `BackfillReturns`,
`BackfillsEnd`), since fairness and ENABLED are out of the prover's reach, and the
two properties that runs show to be violated. Every other property of the runs is a
theorem.

## 5. Where the code and its words part

Two disagreements are runs of their own, listed as findings:

1. Past `feature_window_size + 60` rows the window is the oldest rows
   (`scheduler.rs:104`, `db.rs:1127`): `prediction_link_window`.
2. `POST /api/mode` flips a mode the scheduler does not read (`api/mod.rs:53`):
   `control_plane_toggle`.

The others were met while modelling. The models contain them, and the premises of
the properties that hold are drawn around them.

The cycle and the link:

* Turn-overs are not always two clean fills (`exec/paper.rs:73-78`): an entry leg
  that fails leaves the sell on record and the executor as if it had not happened;
  the next turn-over sells again (`exec/paper.rs:163`).
* A position is committed without a trade record after a restart
  (`scheduler.rs:328`), because the paper executor starts Flat.
* A reply given up is read by the next call (`bridge.rs:254`): from then on each row
  is the answer to an earlier request.
* The backfill overwrites rows stored while it ran, and all rows when its read of them
  fails (`api/equity.rs:303`; line 243 says that it fills gaps).
* Daily runs of one month truncate its archive (`archive.rs:68`).
* In market hours the scheduler may poll with a sleep of zero.

Candles:

* The scheduler and the API read `^VIX`; the CBOE import writes `$VIX`, and Yahoo's
  `^VIX` is fetched only while there is at most one row of `$VIX`.
* `moomoo.rs:254` says that an offset of some hours does not matter; the two
  providers' stamps of one day differ, so a day delivered by both has two rows. Yahoo's
  stamp is stored as it comes: a day that Yahoo delivers at two hours has two as well.
* `data/mod.rs` speaks of two runs per day regardless of when the engine was started;
  ticks are 24 hours apart and skipped outside of two half-hour windows.
* The backfill at start-up precedes every task: a provider that answers 429, or a
  `get_kline.py` that does not return, keeps the engine from starting, and an error of the database there ends the process.
* `api/chart.rs` reads candles newest first and takes the last one for the newest.

Live mode and the scripts:

* `place_order.py` refuses the engine's command line, which has no `--quantity`
  (`exec/moomoo.rs:207`): live mode commits only Flat, and Flat submits nothing
  (`exec/moomoo.rs:161`).
* `SKILL.md:2742` says that every order, change and cancellation is logged;
  `cancel_crypto_order.py` logs nothing, a refusal by `check_ret` leaves no row
  (`sys.exit` is no `Exception`), nor does a kill.
* The MASTER check is not made for combos of options, crypto orders, accounts that
  are not listed, or when the list does not come.
* `modify_order.py` completes what it was not given from a read made before its
  request: two changes at a time lose one of them.
* 23 scripts print a text although `--json` was given, when they find nothing or
  on an error of theirs; five may exit 0 although a request of theirs failed
  (`MCTolerant`).
* `common.py:507` names `MOOMOO_SECURITY_FIRM`; `common.py:67` reads `FUTU_SECURITY_FIRM`.
* `place_order.py` and argparse both exit 2, one for a preview, the other for a command
  line it does not take (`SKILL.md:2735` gives exit code 2 for the summary).

The advisor:

* `briefing.rs:5-6` says that the scheduler wakes the loop; only `handle_refresh` does.
* A refresh does nothing once the day has a briefing, though `advisor/mod.rs:294` says that it
  regenerates.
* The day is that of UTC: a refresh or a start in the evening takes the next day's
  place. Every restart generates again, whatever the log holds, and a day whose
  attempt failed waits for the next one unless someone refreshes.

The console:

* `Events.svelte:17` replaces the list by the history it asked for: events that came
  since the request was read vanish, others are shown twice (the broadcast has no id).
* `Dashboard.svelte:61` connects after its fetches even when it was left meanwhile,
  and its timer of 30 seconds is then never cleared.
* `onerror` and `onclose` in `websocket.js` act on the module's variable: the failure of an
  old socket closes or forgets a new one. A reconnect does not load the history, and
  a lag is skipped silently.
* `websocket.js` has no case for `AdvisorBriefing`.

The backtester:

* A bar without a prediction replays as one of zero, which closes a short when
  `short_exit_threshold` is negative; the engine does not evaluate such a bar. A request
  may name thresholds the engine would refuse, under which such a bar closes a long or
  opens a position.
* A range starts with an empty average, and while it is not full no bar counts as
  bullish: shorts are allowed from the first bar.

## 6. Not modelled, and what is left

Not modelled: features and market hours (floating-point series and calendar
arithmetic on fixed tables), training and deployment (offline scripts and container
files), the control room's views (functions of the stores that `Telemetry` fills).
Partly: of the control plane the parity comparison, which is floating-point
statistics, and the endpoints that only read; of ingestion the FRED series, the
sentiment seed and the live quote, which share no state with the candles that are
evaluated; of the advisor the context, the prompt and the parsing of its answer;
of the backtester returns and metrics; of the database the accuracy report and the
retired hourly tables; of telemetry the events that set single values of other pages.

Left, in order of weight:

1. A composition of `ControlPlane` with `TradingCycle` where the cell is shared, to
   show what the toggle would promise, and of `LiveExecutor` with the whole cycle.
2. `TradingCycle` over the stamps that `Ingestion` stores, so that a day evaluated
   twice is followed into the ledger.
