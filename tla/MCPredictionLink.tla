--------------------------- MODULE MCPredictionLink ---------------------------
(***************************************************************************)
(* PredictionLink on a few candles and calls; a timeout is possible at     *)
(* every attempt.                                                          *)
(***************************************************************************)
EXTENDS PredictionLink
=============================================================================
