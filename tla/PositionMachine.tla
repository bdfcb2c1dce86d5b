--------------------------- MODULE PositionMachine ---------------------------
(***************************************************************************)
(* What the trading cycle promises about the committed position: it starts *)
(* Flat and every change opens a position from Flat or closes one to Flat. *)
(* A position is never turned over in one commit, whatever fails and       *)
(* however often the engine restarts.                                      *)
(***************************************************************************)
EXTENDS EquityStrategy

VARIABLE position

Init == position = Flat

Open(p) == position = Flat /\ p # Flat /\ position' = p

Close == position # Flat /\ position' = Flat

Next == Close \/ \E p \in Position : Open(p)

Spec == Init /\ [][Next]_position
=============================================================================
