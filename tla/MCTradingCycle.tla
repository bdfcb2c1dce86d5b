--------------------------- MODULE MCTradingCycle ---------------------------
(***************************************************************************)
(* TradingCycle on a few candles.  The five signals cover every branch of  *)
(* next_equity_position: a long entry, a short entry, an exit of each, and *)
(* a hold.                                                                 *)
(***************************************************************************)
EXTENDS TradingCycle

Signal(p1, p5, close) ==
  [pred_1d |-> p1, pred_5d |-> p5, current_close |-> close, sma |-> 10, sma_valid |-> TRUE]

MCInputs ==
  {Signal(3, 1, 11),      \* bull: enters Long, exits Short
   Signal(-3, -1, 10),    \* bear: enters Short, exits Long
   Signal(-3, -1, 11),    \* bull: exits Long only
   Signal(3, 1, 10),      \* bear: exits Short only
   Signal(0, 0, 11)}      \* holds

MCParams ==
  [entry_threshold |-> 1, exit_threshold |-> -1,
   enable_shorting |-> TRUE, short_entry_threshold |-> -2, short_exit_threshold |-> 1,
   pred_5d_filter |-> TRUE]
=============================================================================
