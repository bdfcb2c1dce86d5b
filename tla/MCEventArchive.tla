---------------------------- MODULE MCEventArchive ----------------------------
(***************************************************************************)
(* EventArchive with a few events over six days in months of three days: a *)
(* month is archived by more than one run, and a run meets more than one   *)
(* month.                                                                  *)
(***************************************************************************)
EXTENDS EventArchive
=============================================================================
