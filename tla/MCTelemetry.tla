---------------------------- MODULE MCTelemetry ----------------------------
(***************************************************************************)
(* Two events over a channel that holds one, and two sockets that are not  *)
(* closed yet: one that closes, and the one that its error closes.  Of two *)
(* dashboards at their fetches one was left, or both were.                 *)
(***************************************************************************)
EXTENDS Telemetry
=============================================================================
