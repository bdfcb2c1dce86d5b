----------------------------- MODULE MCBriefing -----------------------------
(***************************************************************************)
(* Four days, the third a holiday, with a moment that is the evening       *)
(* before in New York, the briefing hour and one after it.                 *)
(***************************************************************************)
EXTENDS Briefing

MCHours == <<2, 13, 20>>

\* Without it a trading day may pass without a briefing.
ASSUME MCHoursAssumption == SuitableHours
=============================================================================
