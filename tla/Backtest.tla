------------------------------ MODULE Backtest ------------------------------
(***************************************************************************)
(* The strategy lab's replay of a strategy over stored candles, beside the *)
(* live engine on the same candles.  The replay keeps a running sum for    *)
(* the average and takes a bar without a prediction as one of zero; the    *)
(* engine averages the last closes and does not evaluate such a bar.  A    *)
(* script (Rhai) may answer anything.  Start-up checks the parameters of   *)
(* the engine (ValidParams); a request's are replayed as they come, with   *)
(* thresholds of any sign and a window of any length.  Returns are left    *)
(* out: a trade is its side and the bars between which it is held.         *)
(* Averages are compared as sums.                                          *)
(***************************************************************************)
EXTENDS EquityStrategy, SequencesExt

CONSTANTS
  Window,     \* sma_window, possibly 0
  Prices, Predictions,
  NoPred,     \* a bar without a row of equity_predictions
  ParamSets,  \* parameters a request names, none of them checked
  MaxBars     \* bound

ASSUME BacktestAssumption ==
  /\ Window \in Nat /\ MaxBars \in Nat
  /\ Prices \subseteq Nat \ {0} /\ Predictions \subseteq Int /\ NoPred \notin Int
  /\ ParamSets \subseteq EquityStrategyParams

VARIABLES
  kind,         \* of the strategy: "threshold" or "rhai"
  params,
  closes,       \* of the candles replayed so far
  preds,        \* their predictions, or NoPred
  running_sum,
  current_pos,
  open_trade,   \* the bar of its entry and its side, or no bar
  completed_trades,
  positions,    \* history: current_pos after each bar
  live,         \* the engine's position
  done

replayVars == <<kind, params, closes, preds, running_sum, current_pos, open_trade, completed_trades,
          positions, live, done>>

NoTrade == [entry |-> 0, side |-> Flat]

ReplayInit ==
  /\ kind \in {"threshold", "rhai"} /\ params \in ParamSets
  /\ closes = <<>> /\ preds = <<>> /\ running_sum = 0
  /\ current_pos = Flat /\ open_trade = NoTrade /\ completed_trades = <<>>
  /\ positions = <<>> /\ live = Flat /\ done = FALSE

\* Mutant: the close that leaves the window is the one after it.
SlidOut_Next(cs) == cs[Len(cs) - Window + 1]

SlidOut(cs) == cs[Len(cs) - Window]

\* compute_sma_series, one bar further.
NextSum(cs) == running_sum + Last(cs) - (IF Len(cs) > Window THEN SlidOut(cs) ELSE 0)

Smaller(a, b) == IF a < b THEN a ELSE b

\* What the strategy sees; close and average are multiplied by the number of closes.
Signal(pred, close, sum, count, valid) ==
  [pred_1d |-> pred, pred_5d |-> pred, current_close |-> close * count, sma |-> sum,
   sma_valid |-> valid]

\* An average is valid over a full window that is not empty.
FullWindow(cs) == Window > 0 /\ Len(cs) >= Window

\* to_equity_signal with the prediction's values, or zeros.
BarInput(cs, pred) ==
  Signal(IF pred = NoPred THEN 0 ELSE pred, Last(cs), NextSum(cs),
         Smaller(Len(cs), Window), FullWindow(cs))

\* strategy::compute_sma over the last closes, as the scheduler calls it.
LiveInput(cs, pred) ==
  LET tail == SubSeq(cs, Len(cs) - Smaller(Len(cs), Window) + 1, Len(cs)) IN
  Signal(pred, Last(cs), FoldLeft(+, 0, tail), Len(tail), FullWindow(cs))

\* A trade is closed before the next is opened, at the same bar.
Closed(trades, exit) ==
  IF open_trade = NoTrade THEN trades
  ELSE Append(trades, [entry |-> open_trade.entry, exit |-> exit, side |-> open_trade.side])

\* Mutant: the trade is entered at the next bar.
Opened_NextBar(pos, bar) == IF pos = Flat THEN NoTrade ELSE [entry |-> bar + 1, side |-> pos]

Opened(pos, bar) == IF pos = Flat THEN NoTrade ELSE [entry |-> bar, side |-> pos]

NewPositions(cs, pred) ==
  IF kind = "threshold"
  THEN {next_equity_position(current_pos, BarInput(cs, pred), params)}
  ELSE Position  \* what the script returns, or an error, which holds

Bar ==
  /\ ~done /\ Len(closes) < MaxBars
  /\ \E close \in Prices, pred \in Predictions \cup {NoPred} :
       LET cs == Append(closes, close) IN
       \E new_pos \in NewPositions(cs, pred) :
         /\ closes' = cs /\ preds' = Append(preds, pred)
         /\ running_sum' = NextSum(cs)
         /\ completed_trades' =
              IF new_pos # current_pos THEN Closed(completed_trades, Len(cs)) ELSE completed_trades
         /\ open_trade' = IF new_pos # current_pos THEN Opened(new_pos, Len(cs)) ELSE open_trade
         /\ current_pos' = new_pos /\ positions' = Append(positions, new_pos)
         /\ live' = IF pred = NoPred THEN live
                    ELSE next_equity_position(live, LiveInput(cs, pred), params)
  /\ UNCHANGED <<kind, params, done>>

\* The last bar closes what is open; fewer bars than Window + 1 are refused.
CloseAtEnd ==
  /\ ~done /\ Len(closes) > Window /\ done' = TRUE
  /\ completed_trades' = Closed(completed_trades, Len(closes))
  /\ UNCHANGED <<kind, params, closes, preds, running_sum, current_pos, open_trade, positions, live>>

ReplayNext == Bar \/ CloseAtEnd

ReplaySpec == ReplayInit /\ [][ReplayNext]_replayVars
-----------------------------------------------------------------------------
(* Properties. *)

AllPredicted == \A i \in DOMAIN preds : preds[i] # NoPred

\* No position is left or taken on a prediction of zero.
HoldsAtZero(p) ==
  /\ p.entry_threshold >= 0 /\ p.exit_threshold <= 0
  /\ p.short_entry_threshold <= 0 /\ p.short_exit_threshold >= 0

\* The replay of the threshold rule holds what an engine with these parameters would
\* hold, unless a prediction is missing and zero, which is taken for it, is beyond
\* one of the thresholds.
MatchesLive ==
  kind = "threshold" /\ (AllPredicted \/ HoldsAtZero(params)) => current_pos = live

Covers(t, i) == t.entry <= i /\ i < t.exit

\* The trades of a finished replay are the positions it took: at each bar but the
\* last there is one trade of that side, or none when it was flat.
TradesArePositions ==
  done => \A i \in 1..(Len(positions) - 1) :
    {completed_trades[k].side : k \in {j \in DOMAIN completed_trades : Covers(completed_trades[j], i)}}
      = {positions[i]} \ {Flat}
=============================================================================
