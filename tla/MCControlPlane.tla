--------------------------- MODULE MCControlPlane ---------------------------
(***************************************************************************)
(* ControlPlane with three requests to flip and nine updates: each field  *)
(* good and bad, the two short thresholds together and apart, and a bad    *)
(* field after a good one.                                                 *)
(***************************************************************************)
EXTENDS ControlPlane, TLC

MCStartParams ==
  "entry_threshold" :> 1 @@ "exit_threshold" :> -1 @@ "sma_window" :> 200 @@
  "short_entry_threshold" :> -2 @@ "short_exit_threshold" :> 0

MCUpdates ==
  {"entry_threshold" :> 2 @@ "sma_window" :> 100,
   "exit_threshold" :> -2,
   "short_entry_threshold" :> -1,
   "short_entry_threshold" :> 0,
   "short_exit_threshold" :> -1,
   "short_entry_threshold" :> -1 @@ "short_exit_threshold" :> -1,
   "short_entry_threshold" :> -2 @@ "short_exit_threshold" :> 0,
   "entry_threshold" :> 1 @@ "exit_threshold" :> 0,
   "sma_window" :> 301 @@ "short_entry_threshold" :> -1}

Symmetry == Permutations(Requests)
=============================================================================
