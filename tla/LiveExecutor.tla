---------------------------- MODULE LiveExecutor ----------------------------
(***************************************************************************)
(* The engine in live mode with LIVE_EXECUTOR=moomoo: every change of      *)
(* position is a call of set_target_position, which runs place_order.py as *)
(* a child process and waits for it without a limit.  The child is one     *)
(* more invocation at the order desk, beside those of an operator, and     *)
(* what the scheduler commits depends on its exit status alone.            *)
(*                                                                         *)
(* One life of the engine.  The position it finds may be any: it is the    *)
(* one that earlier lives, on paper perhaps, left in signal_state.         *)
(***************************************************************************)
EXTENDS OrderDesk, EquityStrategy

CONSTANT
  Engine      \* the invocation that belongs to the engine

ASSUME EngineAssumption == Engine \in Procs

VARIABLES
  position,   \* what signal_state holds
  target,     \* the position being set
  waiting     \* submit_order waits for its child

engineVars == <<position, target, waiting>>
liveVars == <<vars, engineVars>>

\* Mutant: the command line has a quantity.
EngineRequest_Sized(env, acc) ==
  [script |-> "place_order", code |-> "US", env |-> env, acc |-> acc,
   confirmed |-> env = "REAL", quantity |-> 1, price |-> 0, market |-> TRUE,
   amount |-> FALSE, extra |-> FALSE, wellformed |-> TRUE, order |-> 0]

\* The arguments of submit_order: a market order, --confirmed in REAL, the
\* account when MOOMOO_ACC_ID is set, and no --quantity.
EngineRequest(env, acc) ==
  [script |-> "place_order", code |-> "US", env |-> env, acc |-> acc,
   confirmed |-> env = "REAL", quantity |-> 0, price |-> 0, market |-> TRUE,
   amount |-> FALSE, extra |-> FALSE, wellformed |-> TRUE, order |-> 0]

EngineRequests ==
  {EngineRequest(env, acc) : env \in {"SIMULATE", "REAL"}, acc \in Accounts \cup {NoAcc}}

LiveInit ==
  /\ Init
  /\ req[Engine] \in EngineRequests
  /\ position \in Position
  /\ target = position
  /\ waiting = FALSE

\* What next_equity_position can ask for: it opens from Flat or closes to it.
Targets == IF position = Flat THEN {Long, Short} ELSE {Flat}

\* submit_order starts the script.
Spawn ==
  /\ pc' = [pc EXCEPT ![Engine] = "args"]
  /\ exit' = [exit EXCEPT ![Engine] = Running]
  /\ seen' = [seen EXCEPT ![Engine] = [price |-> 0, quantity |-> 0]]
  /\ sent' = [sent EXCEPT ![Engine] = "no"]
  /\ heard' = [heard EXCEPT ![Engine] = "no"]
  /\ log' = [log EXCEPT ![Engine] = {}]
  /\ unlogged' = unlogged \ {Engine}
  /\ blind' = blind \ {Engine}
  /\ UNCHANGED <<req, orders, asked, crossed>>

\* A target other than Flat is one buy.  It may also fail before the script
\* runs, when the script or python3 is missing: the cycle ends.
SetTarget ==
  /\ ~waiting
  /\ target' \in Targets \ {Flat}
  /\ \/ Spawn /\ waiting' = TRUE
     \/ UNCHANGED <<vars, waiting>>
  /\ UNCHANGED position

\* A target of Flat submits nothing and is committed.
SetFlat ==
  /\ ~waiting
  /\ target' \in Targets \cap {Flat}
  /\ position' = target'
  /\ UNCHANGED <<vars, waiting>>

\* Exit 0 commits the target.  Any other status, a signal included, is an error
\* that the scheduler logs, leaving the position.
SubmitReturns ==
  /\ waiting /\ At(Engine, "done")
  /\ waiting' = FALSE
  /\ position' = IF exit[Engine] = 0 THEN target ELSE position
  /\ UNCHANGED <<vars, target>>

LiveNext ==
  \/ SetTarget \/ SetFlat \/ SubmitReturns
  \/ /\ Fill \/ \E p \in Procs : (p = Engine => waiting) /\ Step(p)
     /\ UNCHANGED engineVars

LiveSpec == LiveInit /\ [][LiveNext]_liveVars

-----------------------------------------------------------------------------
LiveTypeOK ==
  /\ TypeOK
  /\ position \in Position /\ target \in Position
  /\ waiting \in BOOLEAN

\* Live mode never opens a position: place_order.py wants a quantity or an
\* amount, submit_order passes neither, and the script ends with exit 1 before it
\* opens a context.  The only change that is committed is to Flat, and it is
\* committed without an order, whatever the broker holds.
OnlyFlattens == [][position' # position => position' = Flat /\ orders' = orders]_liveVars
=============================================================================
