------------------------ MODULE TradingCycle_proofs ------------------------
(***************************************************************************)
(* Machine-checked proofs about TradingCycle, for every set of signals,    *)
(* every valid parameter record and every bound.                           *)
(***************************************************************************)
EXTENDS TradingCycle, TLAPS

USE DEF Flat, Long, Short, Position

LEMMA EncodingRoundTrip ==
  ASSUME NEW p \in Position
  PROVE  from_i64(as_i64(p)) = p
BY DEF from_i64, as_i64

\* The strategy answers with a position, and leaves a held position only for Flat.
LEMMA NextPosition ==
  ASSUME NEW p \in Position, NEW i, NEW params
  PROVE  /\ next_equity_position(p, i, params) \in Position
         /\ next_equity_position(p, i, params) # p =>
              (p = Flat \/ next_equity_position(p, i, params) = Flat)
BY DEF next_equity_position, EntersLong, EntersShort

LEMMA TradeRow ==
  ASSUME NEW T \in [Symbols -> [buy : Nat, sell : Nat]],
         NEW s \in Symbols, NEW side \in {"buy", "sell"}
  PROVE  [T EXCEPT ![s][side] = @ + 1] \in [Symbols -> [buy : Nat, sell : Nat]]
BY DEF Symbols
-----------------------------------------------------------------------------
(* Type correctness. *)

\* A failed await changes the control point and the fault count, nothing else.
LEMMA FailureStep ==
  Failure =>
    /\ faults < MaxFaults /\ faults' = faults + 1
    /\ pc' \in {"poll", "stopped"}
    /\ UNCHANGED <<latest, predictions, position_events, equity_trades, signal_state,
                   last_processed_ts, current_position, candle_ts, input, current_pos,
                   new_pos, fills, restarts>>
<1> USE DEF Fault, db, mem, local
<1>1. CASE PollFails
  BY <1>1 DEF PollFails
<1>2. CASE PredictFails
  BY <1>2 DEF PredictFails
<1>3. CASE PersistFails
  BY <1>3 DEF PersistFails
<1>4. CASE EvaluationFails
  BY <1>4 DEF EvaluationFails
<1>5. CASE LegFails
  BY <1>5 DEF LegFails
<1> QED
  BY <1>1, <1>2, <1>3, <1>4, <1>5 DEF Failure

LEMMA TypeInit == Init => TypeOK
BY CycleAssumption DEF Init, TypeOK, Ts, Symbols, Pcs

LEMMA TypeNext == TypeOK /\ [Next]_vars => TypeOK'
<1> SUFFICES ASSUME TypeOK, [Next]_vars PROVE TypeOK'
  OBVIOUS
<1> USE CycleAssumption DEF TypeOK, Pcs, Ts, db, mem, local
<1>1. CASE Poll
  BY <1>1 DEF Poll
<1>2. CASE SkipTooFewCandles
  BY <1>2 DEF SkipTooFewCandles
<1>3. CASE Predict
  BY <1>3 DEF Predict
<1>4. CASE PersistPrediction
  BY <1>4 DEF PersistPrediction
<1>5. CASE LoadPosition
  <2>1. current_pos' \in Position
    BY <1>5, EncodingRoundTrip DEF LoadPosition
  <2>2. new_pos' \in Position
    BY <1>5, <2>1, NextPosition DEF LoadPosition
  <2>3. UNCHANGED <<latest, predictions, position_events, equity_trades, signal_state,
                    last_processed_ts, current_position, candle_ts, input, faults, restarts>>
    BY <1>5 DEF LoadPosition
  <2>4. pc' = "event" /\ fills' = 0 /\ pc = "load"
    BY <1>5 DEF LoadPosition
  <2> QED
    BY <2>1, <2>2, <2>3, <2>4
<1>6. CASE InsertPositionEvent
  BY <1>6 DEF InsertPositionEvent
<1>7. CASE AlreadyAtTarget
  BY <1>7 DEF AlreadyAtTarget
<1>8. CASE ExitLeg
  <2>1. symbol_for(current_position) \in Symbols
    BY DEF symbol_for, Symbols
  <2>2. equity_trades' \in [Symbols -> [buy : Nat, sell : Nat]]
    BY <1>8, <2>1, TradeRow DEF ExitLeg, insert_equity_trade
  <2> QED
    BY <1>8, <2>2 DEF ExitLeg, insert_equity_trade
<1>9. CASE EntryLeg
  <2>1. symbol_for(new_pos) \in Symbols
    BY DEF symbol_for, Symbols
  <2>2. equity_trades' \in [Symbols -> [buy : Nat, sell : Nat]]
    BY <1>9, <2>1, TradeRow DEF EntryLeg, insert_equity_trade
  <2> QED
    BY <1>9, <2>2 DEF EntryLeg, insert_equity_trade
<1>10. CASE SavePosition
  BY <1>10, EncodingRoundTrip DEF SavePosition
<1>11. CASE Failure
  <2>1. faults' \in 0..MaxFaults
    BY <1>11, FailureStep
  <2>2. pc' \in {"poll", "stopped"}
    BY <1>11, FailureStep
  <2>3. UNCHANGED <<latest, predictions, position_events, equity_trades, signal_state,
                    last_processed_ts, current_position, candle_ts, input, current_pos,
                    new_pos, fills, restarts>>
    BY <1>11, FailureStep
  <2> QED
    BY <2>1, <2>2, <2>3
<1>12. CASE NewCandle
  BY <1>12 DEF NewCandle
<1>13. CASE Restart
  BY <1>13 DEF Restart
<1>14. CASE UNCHANGED vars
  BY <1>14 DEF vars
<1> QED
  BY <1>1, <1>2, <1>3, <1>4, <1>5, <1>6, <1>7, <1>8, <1>9, <1>10, <1>11, <1>12, <1>13, <1>14
  DEF Next, Cycle

\* Every state of every behaviour is well typed, whatever the bounds.
THEOREM TypeCorrect == Spec => []TypeOK
BY TypeInit, TypeNext, PTL DEF Spec
-----------------------------------------------------------------------------
(* A candle is evaluated at most once in each life of the engine, and only *)
(* when its prediction is on disk.                                         *)

Marked == {"load", "event", "target", "entry", "save"}

\* The bound that EvaluatedOncePerLife gives up on the way to one evaluation:
\* a candle that this life has not evaluated yet has no row of this life.
RowsAllowed(t) ==
  IF t < last_processed_ts \/ (t = last_processed_ts /\ pc \notin {"load", "event"})
  THEN restarts + 1 ELSE restarts

EvaluationInv ==
  /\ last_processed_ts <= latest /\ candle_ts <= latest
  /\ pc \in {"predict", "persist"} => candle_ts > last_processed_ts
  /\ pc \in Marked => candle_ts = last_processed_ts /\ candle_ts \in predictions
  /\ \A t \in Ts : position_events[t] <= RowsAllowed(t)
  /\ DecisionHasPrediction

\* What the committed and the executor's position and the ledger know of each
\* other at every await.
DecisionInv ==
  /\ pc \in {"event", "target", "entry", "save"} =>
       /\ current_pos = signal_state
       /\ new_pos # current_pos => (current_pos = Flat \/ new_pos = Flat)
  /\ pc \in {"target", "entry", "save"} => new_pos # current_pos

\* Without a fault the executor is at the committed position, or Flat since a
\* restart; hence no target is the opposite of what it holds.
ExecutorInv ==
  /\ (faults = 0 /\ pc \notin {"entry", "save"}) =>
       current_position = signal_state \/ (restarts > 0 /\ current_position = Flat)
  /\ (faults = 0 /\ pc = "save") => current_position = new_pos
  /\ pc = "entry" => faults > 0 /\ new_pos # Flat /\ current_position # Flat

LedgerInv ==
  faults <= 1 =>
    /\ pc # "entry" => \A s \in Symbols : Held(s) >= Expected(current_position, s)
    /\ pc = "entry" => \A s \in Symbols : Held(s) >= 0
    /\ (restarts = 0 /\ pc # "entry") => LedgerShows(current_position)
    /\ (restarts = 0 /\ pc = "entry") => LedgerShows(Flat)

PositionInv == DecisionInv /\ ExecutorInv /\ LedgerInv
-----------------------------------------------------------------------------
LEMMA EvaluationInit == Init => EvaluationInv
BY CycleAssumption DEF Init, EvaluationInv, RowsAllowed, DecisionHasPrediction, Marked, Ts

LEMMA EvaluationNext == TypeOK /\ EvaluationInv /\ [Next]_vars => EvaluationInv'
<1> SUFFICES ASSUME TypeOK, EvaluationInv, [Next]_vars PROVE EvaluationInv'
  OBVIOUS
<1> USE CycleAssumption
    DEF TypeOK, Pcs, Ts, EvaluationInv, RowsAllowed, DecisionHasPrediction, Marked,
        db, mem, local
<1>1. CASE Poll
  BY <1>1 DEF Poll
<1>2. CASE SkipTooFewCandles
  BY <1>2 DEF SkipTooFewCandles
<1>3. CASE Predict
  BY <1>3 DEF Predict
<1>4. CASE PersistPrediction
  BY <1>4 DEF PersistPrediction
<1>5. CASE LoadPosition
  <2>1. UNCHANGED <<latest, predictions, position_events, last_processed_ts, candle_ts, restarts>>
    BY <1>5 DEF LoadPosition
  <2>2. pc = "load" /\ pc' = "event"
    BY <1>5 DEF LoadPosition
  <2> QED
    BY <2>1, <2>2
<1>6. CASE InsertPositionEvent
  BY <1>6 DEF InsertPositionEvent
<1>7. CASE AlreadyAtTarget
  BY <1>7 DEF AlreadyAtTarget
<1>8. CASE ExitLeg
  BY <1>8 DEF ExitLeg, insert_equity_trade
<1>9. CASE EntryLeg
  BY <1>9 DEF EntryLeg, insert_equity_trade
<1>10. CASE SavePosition
  BY <1>10 DEF SavePosition
<1>11. CASE Failure
  <2>1. pc' \in {"poll", "stopped"}
    BY <1>11, FailureStep
  <2>2. UNCHANGED <<latest, predictions, position_events, last_processed_ts, candle_ts, restarts>>
    BY <1>11, FailureStep
  <2> QED
    BY <2>1, <2>2
<1>12. CASE NewCandle
  BY <1>12 DEF NewCandle
<1>13. CASE Restart
  BY <1>13 DEF Restart
<1>14. CASE UNCHANGED vars
  BY <1>14 DEF vars
<1> QED
  BY <1>1, <1>2, <1>3, <1>4, <1>5, <1>6, <1>7, <1>8, <1>9, <1>10, <1>11, <1>12, <1>13, <1>14
  DEF Next, Cycle

\* Each life of the engine evaluates a candle at most once (finalize_candle
\* marks the candle before the strategy runs).
THEOREM EvaluatedOnce == Spec => []EvaluatedOncePerLife
<1>1. TypeOK /\ EvaluationInv => EvaluatedOncePerLife
  BY CycleAssumption DEF TypeOK, EvaluationInv, RowsAllowed, EvaluatedOncePerLife, Ts
<1> QED
  BY <1>1, TypeCorrect, EvaluationInit, EvaluationNext, PTL DEF Spec

\* No decision is audited before the prediction it rests on is on disk.
THEOREM DecisionsArePredicted == Spec => []DecisionHasPrediction
<1>1. EvaluationInv => DecisionHasPrediction
  BY DEF EvaluationInv
<1> QED
  BY <1>1, TypeCorrect, EvaluationInit, EvaluationNext, PTL DEF Spec
-----------------------------------------------------------------------------
(* The three records of the position. *)

\* A leg moves the held quantity of its own symbol by one and no other.
LEMMA LegArithmetic ==
  ASSUME TypeOK, NEW sym \in Symbols, NEW side \in {"buy", "sell"},
         insert_equity_trade(sym, side)
  PROVE  \A s \in Symbols :
           /\ Held(s) \in Int
           /\ Held(s)' = IF s # sym THEN Held(s)
                         ELSE IF side = "buy" THEN Held(s) + 1 ELSE Held(s) - 1
<1> SUFFICES ASSUME NEW s \in Symbols
             PROVE  /\ Held(s) \in Int
                    /\ Held(s)' = IF s # sym THEN Held(s)
                                  ELSE IF side = "buy" THEN Held(s) + 1 ELSE Held(s) - 1
  OBVIOUS
<1>1. equity_trades \in [Symbols -> [buy : Nat, sell : Nat]]
  BY DEF TypeOK
<1>2. equity_trades' = [equity_trades EXCEPT ![sym][side] = @ + 1]
  BY DEF insert_equity_trade
<1>3. equity_trades[s] \in [buy : Nat, sell : Nat]
  BY <1>1
<1>4. CASE s # sym
  BY <1>1, <1>2, <1>3, <1>4 DEF Held
<1>5. CASE s = sym /\ side = "buy"
  <2>1. equity_trades'[s] = [equity_trades[s] EXCEPT !["buy"] = @ + 1]
    BY <1>1, <1>2, <1>5
  <2> QED
    BY <1>3, <1>5, <2>1 DEF Held
<1>6. CASE s = sym /\ side = "sell"
  <2>1. equity_trades'[s] = [equity_trades[s] EXCEPT !["sell"] = @ + 1]
    BY <1>1, <1>2, <1>6
  <2> QED
    BY <1>3, <1>6, <2>1 DEF Held
<1> QED
  BY <1>4, <1>5, <1>6

LEMMA HeldIsInt == TypeOK => \A s \in Symbols : Held(s) \in Int
BY DEF TypeOK, Held

LEMMA HeldUnchanged == UNCHANGED equity_trades => \A s \in Symbols : Held(s)' = Held(s)
BY DEF Held

LEMMA PositionInit == Init => PositionInv
BY DEF Init, PositionInv, DecisionInv, ExecutorInv, LedgerInv, LedgerShows, Held, Expected, Symbols

LEMMA DecisionNext == TypeOK /\ DecisionInv /\ [Next]_vars => DecisionInv'
<1> SUFFICES ASSUME TypeOK, DecisionInv, [Next]_vars PROVE DecisionInv'
  OBVIOUS
<1> USE DEF TypeOK, DecisionInv, db, mem, local
<1>1. CASE Poll \/ SkipTooFewCandles \/ Predict \/ PersistPrediction
  BY <1>1 DEF Poll, SkipTooFewCandles, Predict, PersistPrediction
<1>2. CASE LoadPosition
  <2>1. current_pos' = signal_state /\ UNCHANGED signal_state /\ pc' = "event"
    BY <1>2, EncodingRoundTrip DEF LoadPosition
  <2>2. new_pos' = next_equity_position(current_pos', input, Params)
    BY <1>2 DEF LoadPosition
  <2>3. new_pos' # current_pos' => (current_pos' = Flat \/ new_pos' = Flat)
    BY <2>1, <2>2, NextPosition
  <2> QED
    BY <2>1, <2>3
<1>3. CASE InsertPositionEvent \/ AlreadyAtTarget \/ SavePosition
  BY <1>3 DEF InsertPositionEvent, AlreadyAtTarget, SavePosition
<1>4. CASE ExitLeg \/ EntryLeg
  BY <1>4 DEF ExitLeg, EntryLeg, insert_equity_trade
<1>5. CASE Failure
  <2>1. pc' \in {"poll", "stopped"}
    BY <1>5, FailureStep
  <2> QED
    BY <2>1
<1>6. CASE NewCandle \/ Restart
  BY <1>6 DEF NewCandle, Restart
<1>7. CASE UNCHANGED vars
  BY <1>7 DEF vars
<1> QED
  BY <1>1, <1>2, <1>3, <1>4, <1>5, <1>6, <1>7 DEF Next, Cycle

LEMMA ExecutorNext == TypeOK /\ DecisionInv /\ ExecutorInv /\ [Next]_vars => ExecutorInv'
<1> SUFFICES ASSUME TypeOK, DecisionInv, ExecutorInv, [Next]_vars PROVE ExecutorInv'
  OBVIOUS
<1> USE DEF TypeOK, DecisionInv, ExecutorInv, db, mem, local
<1>1. CASE Poll \/ SkipTooFewCandles \/ Predict \/ PersistPrediction
  BY <1>1 DEF Poll, SkipTooFewCandles, Predict, PersistPrediction
<1>2. CASE LoadPosition
  <2>1. UNCHANGED <<signal_state, current_position, faults, restarts>> /\ pc = "load" /\ pc' = "event"
    BY <1>2 DEF LoadPosition
  <2> QED
    BY <2>1
<1>3. CASE InsertPositionEvent \/ AlreadyAtTarget
  BY <1>3 DEF InsertPositionEvent, AlreadyAtTarget
<1>4. CASE SavePosition
  BY <1>4, EncodingRoundTrip DEF SavePosition
<1>5. CASE ExitLeg \/ EntryLeg
  BY <1>5 DEF ExitLeg, EntryLeg, insert_equity_trade
<1>6. CASE Failure
  <2>1. pc' \in {"poll", "stopped"} /\ faults' > 0
    BY <1>6, FailureStep, CycleAssumption
  <2> QED
    BY <2>1
<1>7. CASE NewCandle \/ Restart
  BY <1>7, CycleAssumption DEF NewCandle, Restart
<1>8. CASE UNCHANGED vars
  BY <1>8 DEF vars
<1> QED
  BY <1>1, <1>2, <1>3, <1>4, <1>5, <1>6, <1>7, <1>8 DEF Next, Cycle

\* A step that writes no trade row and keeps the executor's position keeps the
\* ledger clauses, unless it enters or leaves the gap between two legs.
LEMMA LedgerFrame ==
  ASSUME TypeOK, LedgerInv, UNCHANGED equity_trades, UNCHANGED current_position,
         faults' >= faults, faults' \in Nat, restarts' = restarts,
         pc # "entry", pc' # "entry"
  PROVE  LedgerInv'
BY HeldUnchanged DEF TypeOK, LedgerInv, LedgerShows, Expected

LEMMA LedgerNext ==
  TypeOK /\ DecisionInv /\ ExecutorInv /\ LedgerInv /\ [Next]_vars => LedgerInv'
<1> SUFFICES ASSUME TypeOK, DecisionInv, ExecutorInv, LedgerInv, [Next]_vars PROVE LedgerInv'
  OBVIOUS
<1>0. faults \in Nat /\ restarts \in Nat
  BY CycleAssumption DEF TypeOK
<1>1. CASE \/ Poll \/ SkipTooFewCandles \/ Predict \/ PersistPrediction
           \/ LoadPosition \/ InsertPositionEvent \/ AlreadyAtTarget \/ SavePosition
           \/ NewCandle
  <2>1. UNCHANGED <<equity_trades, current_position, faults, restarts>>
    BY <1>1 DEF Poll, SkipTooFewCandles, Predict, PersistPrediction, LoadPosition,
       InsertPositionEvent, AlreadyAtTarget, SavePosition, NewCandle, db, mem
  <2>2. CASE NewCandle
    BY <2>1, <2>2, HeldUnchanged DEF NewCandle, LedgerInv, LedgerShows, Expected
  <2>3. CASE ~NewCandle
    <3>1. pc # "entry" /\ pc' # "entry"
      BY <1>1, <2>3 DEF Poll, SkipTooFewCandles, Predict, PersistPrediction, LoadPosition,
         InsertPositionEvent, AlreadyAtTarget, SavePosition
    <3> QED
      BY <1>0, <2>1, <3>1, LedgerFrame
  <2> QED
    BY <2>2, <2>3
<1>2. CASE ExitLeg
  <2> DEFINE sym == symbol_for(current_position)
  <2>1. sym \in Symbols /\ pc = "target" /\ current_position \notin {new_pos, Flat}
    BY <1>2 DEF ExitLeg, symbol_for, Symbols
  <2>2. insert_equity_trade(sym, "sell")
    BY <1>2 DEF ExitLeg
  <2>3. \A s \in Symbols :
          Held(s) \in Int /\ Held(s)' = IF s # sym THEN Held(s) ELSE Held(s) - 1
    BY <2>1, <2>2, LegArithmetic
  <2>4. UNCHANGED <<faults, restarts>>
    BY <2>2 DEF insert_equity_trade
  <2>5. faults <= 1 => \A s \in Symbols : Held(s)' >= 0
    BY <2>1, <2>3 DEF TypeOK, LedgerInv, Expected, symbol_for
  <2>6. faults <= 1 /\ restarts = 0 => \A s \in Symbols : Held(s)' = 0
    BY <2>1, <2>3 DEF TypeOK, LedgerInv, LedgerShows, Expected, symbol_for, Symbols
  <2>7. pc' # "entry" => current_position' = Flat
    BY <1>2 DEF ExitLeg
  <2> QED
    BY <2>4, <2>5, <2>6, <2>7 DEF LedgerInv, LedgerShows, Expected
<1>3. CASE EntryLeg
  <2> DEFINE sym == symbol_for(new_pos)
  <2>1. /\ sym \in Symbols /\ new_pos # Flat /\ current_position' = new_pos /\ pc' = "save"
        /\ pc = "entry" \/ current_position = Flat
    BY <1>3 DEF EntryLeg, symbol_for, Symbols
  <2>2. insert_equity_trade(sym, "buy")
    BY <1>3 DEF EntryLeg
  <2>3. \A s \in Symbols :
          Held(s) \in Int /\ Held(s)' = IF s # sym THEN Held(s) ELSE Held(s) + 1
    BY <2>1, <2>2, LegArithmetic
  <2>4. UNCHANGED <<faults, restarts>>
    BY <2>2 DEF insert_equity_trade
  <2>5. faults <= 1 => \A s \in Symbols : Held(s) >= 0
    BY <2>1 DEF TypeOK, LedgerInv, Expected
  <2>6. faults <= 1 /\ restarts = 0 => \A s \in Symbols : Held(s) = 0
    BY <2>1 DEF TypeOK, LedgerInv, LedgerShows, Expected, Symbols
  <2>7. \A s \in Symbols : Expected(new_pos, s) = IF s = sym THEN 1 ELSE 0
    BY <2>1 DEF TypeOK, Expected, symbol_for, Symbols
  <2> QED
    BY <2>1, <2>3, <2>4, <2>5, <2>6, <2>7 DEF LedgerInv, LedgerShows, Expected
<1>4. CASE Failure
  <2>1. UNCHANGED <<equity_trades, current_position, restarts>> /\ faults' = faults + 1
        /\ pc' \in {"poll", "stopped"}
    BY <1>4, FailureStep
  <2>2. CASE pc = "entry"
    BY <1>0, <2>1, <2>2 DEF ExecutorInv, LedgerInv
  <2>3. CASE pc # "entry"
    BY <1>0, <2>1, <2>3, LedgerFrame
  <2> QED
    BY <2>2, <2>3
<1>5. CASE Restart
  <2>1. /\ UNCHANGED <<equity_trades, faults>> /\ current_position' = Flat /\ pc' = "poll"
        /\ restarts' # 0
    BY <1>0, <1>5 DEF Restart, db
  <2>2. faults <= 1 => \A s \in Symbols : Held(s)' >= 0
    BY <2>1, HeldIsInt, HeldUnchanged DEF LedgerInv, Expected
  <2> QED
    BY <2>1, <2>2 DEF LedgerInv, LedgerShows, Expected
<1>6. CASE UNCHANGED vars
  BY <1>6, HeldUnchanged DEF vars, db, mem, LedgerInv, LedgerShows, Expected
<1> QED
  BY <1>1, <1>2, <1>3, <1>4, <1>5, <1>6 DEF Next, Cycle

LEMMA PositionNext == TypeOK /\ PositionInv /\ [Next]_vars => PositionInv'
BY DecisionNext, ExecutorNext, LedgerNext DEF PositionInv

LEMMA PositionInvariant == Spec => []PositionInv
BY TypeCorrect, PositionInit, PositionNext, PTL DEF Spec

\* An idle engine that has seen neither a fault nor a restart has one position,
\* written in three places.
THEOREM IdleRecordsAgree == Spec => []IdleAgreement
<1>1. TypeOK /\ PositionInv => IdleAgreement
  BY DEF TypeOK, PositionInv, ExecutorInv, LedgerInv, IdleAgreement
<1> QED
  BY <1>1, TypeCorrect, PositionInvariant, PTL

\* One fault without a restart never parts the executor from the ledger.
THEOREM OneFaultIsHarmless == Spec => []ExecutorMatchesLedger
<1>1. PositionInv => ExecutorMatchesLedger
  BY DEF PositionInv, LedgerInv, ExecutorMatchesLedger
<1> QED
  BY <1>1, PositionInvariant, PTL

\* One fault and any number of restarts never sell what the ledger does not hold.
THEOREM NothingOversold == Spec => []NeverOversold
<1>1. TypeOK /\ PositionInv => NeverOversold
  BY HeldIsInt DEF PositionInv, LedgerInv, NeverOversold, Expected
<1> QED
  BY <1>1, TypeCorrect, PositionInvariant, PTL

\* The cycle implements the abstract position machine: only SavePosition moves
\* the committed position, and it opens from Flat or closes to Flat.
THEOREM CycleImplementsPositionMachine == Spec => ImplementsPositionMachine
<1>1. Init => PM!Init
  BY DEF Init, PM!Init, PM!Flat
<1>2. TypeOK /\ PositionInv /\ [Next]_vars => [PM!Next]_signal_state
  <2> SUFFICES ASSUME TypeOK, PositionInv, [Next]_vars, signal_state' # signal_state
               PROVE  PM!Next
    OBVIOUS
  <2>1. SavePosition
    <3>1. ~Failure
      BY FailureStep
    <3> QED
      BY <3>1 DEF Next, Cycle, vars, db, Poll, SkipTooFewCandles, Predict, PersistPrediction,
         LoadPosition, InsertPositionEvent, AlreadyAtTarget, ExitLeg, EntryLeg,
         insert_equity_trade, NewCandle, Restart
  <2>2. signal_state' = new_pos /\ new_pos \in Position /\ signal_state \in Position
    BY <2>1, EncodingRoundTrip DEF SavePosition, TypeOK
  <2>3. signal_state = Flat \/ new_pos = Flat
    BY <2>1 DEF SavePosition, PositionInv, DecisionInv
  <2> QED
    BY <2>2, <2>3 DEF PM!Next, PM!Open, PM!Close, PM!Flat, PM!Long, PM!Short, PM!Position
<1> QED
  BY <1>1, <1>2, TypeCorrect, PositionInvariant, PTL
  DEF Spec, ImplementsPositionMachine, PM!Spec
\* The cycle keeps the promise about candles: PersistPrediction stores a row and
\* marks its candle, which is newer than the last, and no fault does either.
THEOREM CycleImplementsCandleMarks == Spec => ImplementsCandleMarks
<1>1. Init => CM!Init
  BY DEF Init, CM!Init
<1>2. TypeOK /\ EvaluationInv /\ [Next]_vars => [CM!Next]_(CM!marks)
  <2> SUFFICES ASSUME TypeOK, EvaluationInv, [Next]_vars PROVE CM!Next \/ UNCHANGED CM!marks
    OBVIOUS
  <2> USE DEF db, mem, local, CM!marks
  <2>1. CASE PersistPrediction
    <3>1. candle_ts \in 1..latest /\ candle_ts > last_processed_ts
      BY <2>1, CycleAssumption DEF PersistPrediction, EvaluationInv, TypeOK
    <3>2. CM!Mark(candle_ts)
      BY <2>1, <3>1 DEF PersistPrediction, CM!Mark
    <3> QED
      BY <3>1, <3>2 DEF CM!Next
  <2>2. CASE NewCandle
    BY <2>2 DEF NewCandle, CM!Next, CM!Arrive
  <2>3. CASE Restart
    BY <2>3 DEF Restart, CM!Next, CM!Forget
  <2>4. CASE Failure
    BY <2>4, FailureStep
  <2>5. CASE ~ (PersistPrediction \/ NewCandle \/ Restart \/ Failure)
    BY <2>5 DEF Next, Cycle, vars, Poll, SkipTooFewCandles, Predict, LoadPosition,
       InsertPositionEvent, AlreadyAtTarget, ExitLeg, EntryLeg, insert_equity_trade, SavePosition
  <2> QED
    BY <2>1, <2>2, <2>3, <2>4, <2>5
<1> QED
  BY <1>1, <1>2, TypeCorrect, EvaluationInit, EvaluationNext, PTL DEF Spec, ImplementsCandleMarks, CM!Spec
=============================================================================
