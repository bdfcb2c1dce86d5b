----------------------------- MODULE CandleMarks -----------------------------
(***************************************************************************)
(* What the engine promises of its daily candles, by whichever way and in  *)
(* whatever order predictions come: a row is of a candle that exists and   *)
(* is never taken back, and the candle that is marked as processed has its *)
(* row, is newer than the one marked before, and is forgotten only with    *)
(* the rest of the memory.                                                 *)
(***************************************************************************)
EXTENDS Naturals

VARIABLES
  newest,     \* the newest candle
  predicted,  \* the candles that have a row
  marked      \* the candle processed last, 0 for none

marks == <<newest, predicted, marked>>

Init == newest = 0 /\ predicted = {} /\ marked = 0

Arrive == newest' = newest + 1 /\ UNCHANGED <<predicted, marked>>

\* A row that marks nothing.
Predict(t) == predicted' = predicted \cup {t} /\ UNCHANGED <<newest, marked>>

\* A row and its mark.
Mark(t) ==
  /\ t > marked
  /\ predicted' = predicted \cup {t} /\ marked' = t
  /\ UNCHANGED newest

Forget == marked' = 0 /\ UNCHANGED <<newest, predicted>>

Next == Arrive \/ Forget \/ \E t \in 1..newest : Predict(t) \/ Mark(t)

Spec == Init /\ [][Next]_marks
=============================================================================
