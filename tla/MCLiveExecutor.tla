--------------------------- MODULE MCLiveExecutor ---------------------------
(***************************************************************************)
(* The order desk with two invocations of an operator beside the engine's. *)
(* The requests reach every branch of the six scripts.                     *)
(***************************************************************************)
EXTENDS LiveExecutor, TLC

CONSTANTS p1, p2, engine

MCProcs == {p1, p2, engine}
MCSymmetry == Permutations({p1, p2})

Ask(script, code, env, acc, confirmed, quantity, price) ==
  [script |-> script, code |-> code, env |-> env, acc |-> acc, confirmed |-> confirmed,
   quantity |-> quantity, price |-> price, market |-> FALSE, amount |-> FALSE,
   extra |-> FALSE, wellformed |-> TRUE, order |-> 1]

Plain == Ask("place_order", "US", "REAL", NoAcc, TRUE, 1, 1)

OperatorRequests ==
  {Plain,
   [Plain EXCEPT !.confirmed = FALSE],
   [Plain EXCEPT !.acc = "master"],
   [Plain EXCEPT !.acc = "hidden", !.env = "SIMULATE", !.confirmed = FALSE],
   [Plain EXCEPT !.code = "EC", !.extra = TRUE, !.amount = TRUE, !.acc = "own"],
   Ask("place_combo_order", "US", "REAL", "master", TRUE, 1, 1),
   [Ask("place_combo_order", "EC", "REAL", "master", TRUE, 1, 1) EXCEPT !.extra = TRUE],
   Ask("place_crypto_order", "CC", "REAL", "own", TRUE, 1, 1),
   Ask("modify_order", "US", "SIMULATE", NoAcc, FALSE, 2, 0),
   Ask("modify_order", "US", "SIMULATE", NoAcc, FALSE, 0, 2),
   Ask("cancel_order", "US", "SIMULATE", NoAcc, FALSE, 0, 0),
   [Ask("cancel_crypto_order", "CC", "REAL", NoAcc, TRUE, 0, 0) EXCEPT !.extra = TRUE]}

MCRequests == OperatorRequests \cup {EngineRequest("REAL", NoAcc)}
MCFirstOrders == {[acc |-> "own", code |-> "CC"]}
=============================================================================
