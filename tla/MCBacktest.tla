----------------------------- MODULE MCBacktest -----------------------------
(***************************************************************************)
(* Four bars over an average of two, with predictions on both sides of     *)
(* every threshold: parameters the engine would start with, with short     *)
(* exits of both signs, and two that it would refuse, under which zero     *)
(* enters or leaves a position.                                            *)
(***************************************************************************)
EXTENDS Backtest

MCPredictions == {-3, -1, 2}

Accepted ==
  [entry_threshold : {1}, exit_threshold : {-2}, enable_shorting : BOOLEAN,
   short_entry_threshold : {-2}, short_exit_threshold : {-1, 1}, pred_5d_filter : {FALSE}]

Refused ==
  [entry_threshold : {-2}, exit_threshold : {1}, enable_shorting : {TRUE},
   short_entry_threshold : {-2, 1}, short_exit_threshold : {0}, pred_5d_filter : {FALSE}]

ASSUME \A p \in Accepted : ValidParams(p)
ASSUME \A p \in Refused : ~ValidParams(p)

MCParamSets == Accepted \cup Refused
=============================================================================
