---------------------------- MODULE MCIngestion ----------------------------
(***************************************************************************)
(* A trading day and a holiday, each with one moment of a window and one   *)
(* outside of both, and the session between them.                          *)
(***************************************************************************)
EXTENDS Ingestion

MCSymbols == <<"QQQ">>
MCHours == <<3, 22>>
=============================================================================
