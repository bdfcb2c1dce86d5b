--------------------------- MODULE EquityStrategy ---------------------------
(***************************************************************************)
(* The daily equities strategy as pure operators: the position enumeration *)
(* and its database encoding, the regime test, and the position rule that  *)
(* the scheduler applies to every candle (engine/src/strategy.rs).         *)
(* Predictions, prices and thresholds are integers: the rule only compares *)
(* them.                                                                   *)
(***************************************************************************)
EXTENDS Integers

Flat == "Flat"
Long == "Long"
Short == "Short"
Position == {Flat, Long, Short}

as_i64(p) == IF p = Long THEN 1 ELSE IF p = Short THEN -1 ELSE 0

\* Any stored integer other than 1 and -1 reads back as Flat.
from_i64(v) == IF v = 1 THEN Long ELSE IF v = -1 THEN Short ELSE Flat

EquitySignalInput ==
  [pred_1d : Int, pred_5d : Int, current_close : Int, sma : Int, sma_valid : BOOLEAN]

EquityStrategyParams ==
  [entry_threshold : Int, exit_threshold : Int,
   enable_shorting : BOOLEAN, short_entry_threshold : Int, short_exit_threshold : Int,
   pred_5d_filter : BOOLEAN]

\* The checks that start-up makes on the parameters before the engine runs.
ValidParams(params) ==
  /\ params.entry_threshold > 0
  /\ params.exit_threshold < 0
  /\ params.short_entry_threshold < 0
  /\ params.short_exit_threshold > params.short_entry_threshold

Bullish(input) == input.sma_valid /\ input.current_close > input.sma

Exits(current, input, params) ==
  \/ current = Long /\ input.pred_1d < params.exit_threshold
  \/ current = Short /\ input.pred_1d > params.short_exit_threshold

EntersLong(current, input, params) ==
  /\ current = Flat
  /\ Bullish(input)
  /\ input.pred_1d > params.entry_threshold
  /\ params.pred_5d_filter => input.pred_5d > 0

EntersShort(current, input, params) ==
  /\ current = Flat
  /\ ~Bullish(input)
  /\ params.enable_shorting
  /\ input.pred_1d < params.short_entry_threshold

\* Mutant: an exit does not return, and the entries see the position as Flat.
next_equity_position_FallsThrough(current, input, params) ==
  LET kept == IF Exits(current, input, params) THEN Flat ELSE current
  IN  IF EntersLong(kept, input, params) THEN Long
      ELSE IF EntersShort(kept, input, params) THEN Short
      ELSE kept

next_equity_position(current, input, params) ==
  IF Exits(current, input, params) THEN Flat
  ELSE IF EntersLong(current, input, params) THEN Long
  ELSE IF EntersShort(current, input, params) THEN Short
  ELSE current
=============================================================================
