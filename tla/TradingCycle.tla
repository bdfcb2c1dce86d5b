---------------------------- MODULE TradingCycle ----------------------------
(***************************************************************************)
(* One symbol's trading cycle: EquityScheduler polls for a new daily       *)
(* candle, asks for a prediction, persists it, decides a position with the *)
(* strategy, lets PaperExecutor write the trade legs, and commits the      *)
(* position.  Every await on the database or on the inference service is a *)
(* step of its own, so that a failed statement or a restart of the engine  *)
(* may come between any two of them.                                       *)
(*                                                                         *)
(* SQLite keeps the tables; last_processed_ts and the executor's           *)
(* current_position live in memory only and are lost by a restart.         *)
(***************************************************************************)
EXTENDS EquityStrategy

CONSTANTS
  Inputs,        \* the signals the inference service and the candles can produce
  NoInput,       \* no signal yet
  Params,        \* the strategy parameters of this run of the engine
  MaxTs,         \* candles are numbered 1..MaxTs in the order of their ts
  MinCandles,    \* candles needed before features can be computed
  MaxFaults,     \* bound on failed database statements and predictions
  MaxRestarts    \* bound on restarts of the engine

ASSUME CycleAssumption ==
  /\ Inputs \subseteq EquitySignalInput /\ NoInput \notin Inputs
  /\ Params \in EquityStrategyParams /\ ValidParams(Params)
  /\ MaxTs \in Nat /\ MinCandles \in Nat
  /\ MaxFaults \in Nat /\ MaxRestarts \in Nat

Ts == 1..MaxTs

\* QQQ expresses a long, the inverse ETF PSQ a short.
Symbols == {"QQQ", "PSQ"}

symbol_for(pos) == IF pos = Short THEN "PSQ" ELSE "QQQ"

VARIABLES
  latest,            \* equity_candles: ts of the newest candle, 0 if none
  predictions,       \* equity_predictions: the candles that have a row
  position_events,   \* positions: number of audit rows of each candle
  equity_trades,     \* equity_trades: number of rows of each symbol and side
  signal_state,      \* signal_state: the committed position
  last_processed_ts, \* EquityScheduler.last_processed_ts, 0 for None
  current_position,  \* PaperExecutor.current_position
  pc,                \* the await the scheduler task is at
  candle_ts,         \* the candle in process
  input,             \* the signal of the candle in process
  current_pos,       \* the position evaluate_and_execute_strategy loaded
  new_pos,           \* the position the strategy returned
  fills,             \* trade rows set_target_position has written so far
  faults,            \* failed statements and predictions so far
  restarts           \* restarts so far

db == <<predictions, position_events, equity_trades, signal_state>>
mem == <<last_processed_ts, current_position>>
local == <<candle_ts, input, current_pos, new_pos, fills>>
vars == <<latest, db, mem, pc, local, faults, restarts>>

Init ==
  /\ latest = 0
  /\ predictions = {}
  /\ position_events = [t \in Ts |-> 0]
  /\ equity_trades = [s \in Symbols |-> [buy |-> 0, sell |-> 0]]
  /\ signal_state = Flat
  /\ last_processed_ts = 0
  /\ current_position = Flat
  /\ pc = "poll"
  /\ candle_ts = 0
  /\ input = NoInput
  /\ current_pos = Flat
  /\ new_pos = Flat
  /\ fills = 0
  /\ faults = 0
  /\ restarts = 0
-----------------------------------------------------------------------------
(* The environment. *)

\* The ingestion supervisor stores the next daily candle.
NewCandle ==
  /\ latest < MaxTs
  /\ latest' = latest + 1
  /\ UNCHANGED <<db, mem, pc, local, faults, restarts>>

\* Mutant: the executor is rebuilt from the last decision taken.
Restart_RestoresDecision ==
  /\ restarts < MaxRestarts
  /\ restarts' = restarts + 1
  /\ last_processed_ts' = 0
  /\ current_position' = new_pos
  /\ pc' = "poll"
  /\ UNCHANGED <<latest, db, local, faults>>

\* The engine stops at any await and starts again: the tables stay, the memory
\* does not, and the new PaperExecutor is Flat.
Restart ==
  /\ restarts < MaxRestarts
  /\ restarts' = restarts + 1
  /\ last_processed_ts' = 0
  /\ current_position' = Flat
  /\ pc' = "poll"
  /\ UNCHANGED <<latest, db, local, faults>>

\* The await fails and the task continues at next.
Fault(next) ==
  /\ faults < MaxFaults
  /\ faults' = faults + 1
  /\ pc' = next
  /\ UNCHANGED <<latest, db, mem, local, restarts>>
-----------------------------------------------------------------------------
(* EquityScheduler::run and process. *)

Poll ==
  /\ pc = "poll"
  /\ latest > last_processed_ts
  /\ candle_ts' = latest
  /\ pc' = "predict"
  /\ UNCHANGED <<latest, db, mem, input, current_pos, new_pos, fills, faults, restarts>>

\* The error of latest_equity_candle_ts leaves run(): nothing restarts the task.
PollFails == pc = "poll" /\ Fault("stopped")

SkipTooFewCandles ==
  /\ pc = "predict"
  /\ latest < MinCandles
  /\ pc' = "poll"
  /\ UNCHANGED <<latest, db, mem, local, faults, restarts>>

Predict ==
  /\ pc = "predict"
  /\ latest >= MinCandles
  /\ input' \in Inputs
  /\ pc' = "persist"
  /\ UNCHANGED <<latest, db, mem, candle_ts, current_pos, new_pos, fills, faults, restarts>>

\* The candles cannot be read or predict_v3_with_retry gives up.  process()
\* returns the error before the candle is marked: the next poll tries again.
PredictFails == pc = "predict" /\ Fault("poll")

\* Mutants: the candle is not marked, or the one after it is.
PersistPrediction_NotMarked ==
  /\ pc = "persist"
  /\ predictions' = predictions \cup {candle_ts}
  /\ pc' = "load"
  /\ UNCHANGED <<latest, position_events, equity_trades, signal_state, mem,
                 local, faults, restarts>>

PersistPrediction_MarksNext ==
  /\ pc = "persist"
  /\ predictions' = predictions \cup {candle_ts}
  /\ last_processed_ts' = candle_ts + 1
  /\ pc' = "load"
  /\ UNCHANGED <<latest, position_events, equity_trades, signal_state, current_position,
                 local, faults, restarts>>

\* finalize_candle: the row is written, then the candle is marked processed.
PersistPrediction ==
  /\ pc = "persist"
  /\ predictions' = predictions \cup {candle_ts}
  /\ last_processed_ts' = candle_ts
  /\ pc' = "load"
  /\ UNCHANGED <<latest, position_events, equity_trades, signal_state, current_position,
                 local, faults, restarts>>

\* Mutant: the candle is marked before the write.
PersistFails_Marked ==
  /\ pc = "persist"
  /\ faults < MaxFaults
  /\ faults' = faults + 1
  /\ last_processed_ts' = candle_ts
  /\ pc' = "poll"
  /\ UNCHANGED <<latest, db, current_position, local, restarts>>

PersistFails == pc = "persist" /\ Fault("poll")
-----------------------------------------------------------------------------
(* EquityScheduler::evaluate_and_execute_strategy. *)

LoadPosition ==
  /\ pc = "load"
  /\ current_pos' = from_i64(as_i64(signal_state))
  /\ new_pos' = next_equity_position(current_pos', input, Params)
  /\ fills' = 0
  /\ pc' = "event"
  /\ UNCHANGED <<latest, db, mem, candle_ts, input, faults, restarts>>

InsertPositionEvent ==
  /\ pc = "event"
  /\ position_events' = [position_events EXCEPT ![candle_ts] = @ + 1]
  /\ pc' = IF new_pos # current_pos THEN "target" ELSE "poll"
  /\ UNCHANGED <<latest, predictions, equity_trades, signal_state, mem, local, faults, restarts>>

SavePosition ==
  /\ pc = "save"
  /\ signal_state' = from_i64(as_i64(new_pos))
  /\ pc' = "poll"
  /\ UNCHANGED <<latest, predictions, position_events, equity_trades, mem, local, faults, restarts>>

\* The candle is already marked: the evaluation is not tried again.
EvaluationFails == pc \in {"load", "event", "save"} /\ Fault("poll")
-----------------------------------------------------------------------------
(* PaperExecutor::set_target_position, called at "target". *)

insert_equity_trade(symbol, side) ==
  /\ equity_trades' = [equity_trades EXCEPT ![symbol][side] = @ + 1]
  /\ fills' = fills + 1
  /\ UNCHANGED <<latest, predictions, position_events, signal_state, last_processed_ts,
                 candle_ts, input, current_pos, new_pos, faults, restarts>>

AlreadyAtTarget ==
  /\ pc = "target"
  /\ current_position = new_pos
  /\ pc' = "save"
  /\ UNCHANGED <<latest, db, mem, local, faults, restarts>>

\* Mutant: the exit leg sells the instrument of the target.
ExitLeg_TargetSymbol ==
  /\ pc = "target"
  /\ current_position \notin {new_pos, Flat}
  /\ insert_equity_trade(symbol_for(new_pos), "sell")
  /\ current_position' = IF new_pos = Flat THEN Flat ELSE current_position
  /\ pc' = IF new_pos = Flat THEN "save" ELSE "entry"

\* The exit leg sells what the executor believes it holds; current_position
\* changes only after the last leg.
ExitLeg ==
  /\ pc = "target"
  /\ current_position \notin {new_pos, Flat}
  /\ insert_equity_trade(symbol_for(current_position), "sell")
  /\ current_position' = IF new_pos = Flat THEN Flat ELSE current_position
  /\ pc' = IF new_pos = Flat THEN "save" ELSE "entry"

EntryLeg ==
  /\ pc = "entry" \/ (pc = "target" /\ current_position = Flat)
  /\ new_pos # Flat
  /\ insert_equity_trade(symbol_for(new_pos), "buy")
  /\ current_position' = new_pos
  /\ pc' = "save"

\* Mutant: current_position is set before the legs are written.
LegFails_AlreadySet ==
  /\ pc = "entry" \/ (pc = "target" /\ current_position # new_pos)
  /\ faults < MaxFaults
  /\ faults' = faults + 1
  /\ current_position' = new_pos
  /\ pc' = "poll"
  /\ UNCHANGED <<latest, db, last_processed_ts, local, restarts>>

\* The error is logged; the position is not saved.
LegFails ==
  /\ pc = "entry" \/ (pc = "target" /\ current_position # new_pos)
  /\ Fault("poll")
-----------------------------------------------------------------------------
Cycle ==
  \/ Poll \/ SkipTooFewCandles \/ Predict \/ PersistPrediction
  \/ LoadPosition \/ InsertPositionEvent
  \/ AlreadyAtTarget \/ ExitLeg \/ EntryLeg \/ SavePosition

Failure == PollFails \/ PredictFails \/ PersistFails \/ EvaluationFails \/ LegFails

Next == Cycle \/ Failure \/ NewCandle \/ Restart

Spec == Init /\ [][Next]_vars

\* tokio runs a task whose await is ready; the ticker of the poll never stops
\* while run() has not returned.
FairSpec == Spec /\ WF_vars(Cycle)
-----------------------------------------------------------------------------
(* Properties. *)

Pcs == {"poll", "predict", "persist", "load", "event", "target", "entry", "save", "stopped"}

TypeOK ==
  /\ latest \in 0..MaxTs
  /\ predictions \subseteq Ts
  /\ position_events \in [Ts -> Nat]
  /\ equity_trades \in [Symbols -> [buy : Nat, sell : Nat]]
  /\ signal_state \in Position
  /\ last_processed_ts \in 0..MaxTs
  /\ current_position \in Position
  /\ pc \in Pcs
  /\ candle_ts \in 0..MaxTs
  /\ pc \notin {"poll", "stopped"} => candle_ts \in Ts
  /\ input \in Inputs \cup {NoInput}
  /\ current_pos \in Position
  /\ new_pos \in Position
  /\ fills \in Nat
  /\ faults \in 0..MaxFaults
  /\ restarts \in 0..MaxRestarts

\* The quantity of a symbol that the trade ledger says is held.
Held(s) == equity_trades[s].buy - equity_trades[s].sell

Expected(pos, s) == IF <<pos, s>> \in {<<Long, "QQQ">>, <<Short, "PSQ">>} THEN 1 ELSE 0

LedgerShows(pos) == \A s \in Symbols : Held(s) = Expected(pos, s)

\* While nothing has failed and the engine has not restarted, an idle engine
\* has the same position in signal_state, in the executor and in the trade
\* ledger, although the three are written by different statements.
IdleAgreement ==
  (faults = 0 /\ restarts = 0 /\ pc = "poll") =>
    (signal_state = current_position /\ LedgerShows(signal_state))

\* One failed statement, wherever it falls, leaves the executor's memory and
\* the ledger in agreement until the engine restarts: a save that fails after
\* the trade is made good by AlreadyAtTarget, an entry leg that fails has
\* written nothing.
ExecutorMatchesLedger ==
  (faults <= 1 /\ restarts = 0 /\ pc # "entry") => LedgerShows(current_position)

\* However often the engine restarts, one failed statement is not enough to
\* sell an instrument the ledger does not hold (set_target_position).
NeverOversold == faults <= 1 => \A s \in Symbols : Held(s) >= 0

\* A candle is evaluated at most once in each life of the engine: what is
\* retried by the poll is the prediction, never the trading decision.
EvaluatedOncePerLife == \A t \in Ts : position_events[t] <= 1 + restarts

\* Every audited decision has the prediction it was taken from on disk.
DecisionHasPrediction == \A t \in Ts : position_events[t] > 0 => t \in predictions

\* The committed position never turns over in one step, under any failures and
\* restarts: strategy.rs promises it and the executor relies on it.
PM == INSTANCE PositionMachine WITH position <- signal_state
ImplementsPositionMachine == PM!Spec

\* A candle is marked only with its prediction on disk and never after a newer
\* one, whatever fails between poll, prediction and row; only a restart forgets
\* the mark (finalize_candle).
CM == INSTANCE CandleMarks
        WITH newest <- latest, predicted <- predictions, marked <- last_processed_ts
ImplementsCandleMarks == CM!Spec

\* The newest candle that has enough history is predicted, or a newer one
\* arrives, or the scheduler task has ended; retries get past the failures.
NewestCandlePredicted ==
  \A t \in Ts :
    (latest = t /\ t >= MinCandles) ~> (t \in predictions \/ latest > t \/ pc = "stopped")
=============================================================================
