----------------------------- MODULE OrderDesk -----------------------------
(***************************************************************************)
(* The six scripts that change orders at the broker: place_order.py,       *)
(* place_combo_order.py, place_crypto_order.py, modify_order.py,           *)
(* cancel_order.py and cancel_crypto_order.py.  Each invocation is a       *)
(* process that checks its arguments, opens a context on OpenD, looks up   *)
(* accounts or the original order where the script does, sends one request *)
(* to the broker, and writes one row of ~/.futu_trade_audit.jsonl.         *)
(*                                                                         *)
(* Requests and replies may be lost separately: the broker may accept an   *)
(* order whose reply the script never gets, and a process may be killed at *)
(* any step.  sys.exit raises SystemExit, which "except Exception" does    *)
(* not catch: a refusal that goes through check_ret or _fail leaves no row.*)
(***************************************************************************)
EXTENDS Integers, Sequences

CONSTANTS
  Procs,       \* invocations of the scripts
  Requests,    \* the command lines they may be given
  Listed,      \* accounts that get_acc_list returns
  Unlisted,    \* accounts of the broker that it does not return
  Master,      \* those whose acc_role is MASTER
  Prediction,  \* those whose trdmarket_auth has PREDICTION
  FirstOrders  \* what order 1 may be: its account and code

Running == -1
Killed == -9
NoAcc == "0"   \* neither --acc-id nor FUTU_ACC_ID
Accounts == Listed \cup Unlisted
Codes == {"US", "EC", "CC", "unknown"}
Placing == {"place_order", "place_combo_order", "place_crypto_order"}
Changing == {"modify_order", "cancel_order", "cancel_crypto_order"}

\* A command line after the defaults of env and account are applied.  A zero
\* price or quantity stands for one that is missing; wellformed covers
\* the checks of one argument alone (sides, times in force, combo legs); extra
\* is pred_side, quote_id or --all, whichever the script asks for.
Request ==
  [script : Placing \cup Changing, code : Codes,
   env : {"SIMULATE", "REAL"}, acc : Accounts \cup {NoAcc}, confirmed : BOOLEAN,
   quantity : Nat, price : Nat, market : BOOLEAN, amount : BOOLEAN, extra : BOOLEAN,
   wellformed : BOOLEAN, order : {0, 1}]

ASSUME DeskAssumption ==
  /\ Requests \subseteq Request
  /\ Master \subseteq Accounts /\ Prediction \subseteq Accounts
  /\ NoAcc \notin Accounts
  /\ FirstOrders \subseteq [acc : Accounts, code : Codes]

VARIABLES
  req,      \* the command line of each invocation
  pc,       \* where it is
  exit,     \* its exit status: Running while it runs, Killed if it was
  seen,     \* price and quantity modify_order will send
  sent,     \* what the broker did with its request: "no", "accepted", "refused"
  heard,    \* what the script got back: "no", "ok", "unprinted" (ok, but its
            \* output fails), "error", "exception"
  log,      \* the results of its rows in the audit log
  unlogged, \* invocations whose append to the audit log failed
  blind,    \* invocations that got no account list
  orders,   \* the broker's orders
  asked,    \* history: price and quantity last asked for order 1
  crossed   \* history: a change was applied while another invocation held
            \* values read before it

procVars == <<req, pc, exit, seen, sent, heard, log, unlogged, blind>>
vars == <<procVars, orders, asked, crossed>>

Pcs == {"args", "open", "accounts", "original", "submit", "reply", "done"}
Order ==
  [by : Procs \cup {"app"}, acc : Accounts, env : {"SIMULATE", "REAL"}, code : Codes,
   quantity : Nat, price : Nat, state : {"open", "filled", "cancelled"}]

\* Order 1 was placed before, in the app: what modify and cancel act on.
FirstOrder(first) ==
  [by |-> "app", acc |-> first.acc, env |-> "SIMULATE", code |-> first.code,
   quantity |-> 1, price |-> 1, state |-> "open"]

Init ==
  /\ req \in [Procs -> Requests]
  /\ pc = [p \in Procs |-> "args"]
  /\ exit = [p \in Procs |-> Running]
  /\ seen = [p \in Procs |-> [price |-> 0, quantity |-> 0]]
  /\ sent = [p \in Procs |-> "no"]
  /\ heard = [p \in Procs |-> "no"]
  /\ log = [p \in Procs |-> {}]
  /\ unlogged = {}
  /\ blind = {}
  /\ orders \in {<<FirstOrder(first)>> : first \in FirstOrders}
  /\ asked = [price |-> 1, quantity |-> 1]
  /\ crossed = FALSE
-----------------------------------------------------------------------------
(* The argument checks, before anything is opened. *)

place_order_refuses(r) ==
  \/ ~r.wellformed
  \/ r.code = "EC" /\ (r.env = "SIMULATE" \/ ~r.extra)
  \/ r.amount /\ r.code # "EC"
  \/ ~r.amount /\ r.quantity = 0
  \/ r.code = "unknown"
  \/ ~r.market /\ r.price = 0

place_combo_order_refuses(r) ==
  \/ ~r.wellformed
  \/ r.code = "EC" /\ (~r.extra \/ r.env = "SIMULATE")
  \/ r.code = "unknown"
  \/ r.quantity = 0

place_crypto_order_refuses(r) ==
  \/ ~r.wellformed
  \/ r.code # "CC"
  \/ r.quantity = 0
  \/ ~r.market /\ r.price = 0

modify_order_refuses(r) == ~r.wellformed \/ (r.price = 0 /\ r.quantity = 0)

cancel_crypto_order_refuses(r) == ~r.extra /\ r.order = 0

Refuses(r) ==
  \/ r.script = "place_order" /\ place_order_refuses(r)
  \/ r.script = "place_combo_order" /\ place_combo_order_refuses(r)
  \/ r.script = "place_crypto_order" /\ place_crypto_order_refuses(r)
  \/ r.script = "modify_order" /\ modify_order_refuses(r)
  \/ r.script = "cancel_crypto_order" /\ cancel_crypto_order_refuses(r)

\* Orders with real money are only previewed without --confirmed: exit 2.
NeedsConfirmation(r) ==
  \/ r.script \in {"place_order", "place_combo_order"} /\ r.env = "REAL"
  \/ r.script = "place_crypto_order"
  \/ r.script = "cancel_crypto_order" /\ r.extra

IsCrypto(r) == r.script \in {"place_crypto_order", "cancel_crypto_order"}

\* place_order validates the account when one is given or the code is EC.,
\* place_combo_order only for EC. legs, the others never.
ChecksAccounts(r) ==
  \/ r.script = "place_order" /\ (r.acc # NoAcc \/ r.code = "EC")
  \/ r.script = "place_combo_order" /\ r.code = "EC"

ReadsOriginal(r) == r.script = "modify_order" /\ (r.price = 0 \/ r.quantity = 0)

\* Mutant: the role is not looked at.
place_order_account_fails_AnyRole(r) ==
  \/ r.acc \in Listed /\ r.code = "EC" /\ r.acc \notin Prediction
  \/ r.code = "EC" /\ Listed \cap Prediction = {}

\* What the account list says against the request.
place_order_account_fails(r) ==
  \/ r.acc \in Listed /\ (r.acc \in Master \/ (r.code = "EC" /\ r.acc \notin Prediction))
  \/ r.code = "EC" /\ Listed \cap Prediction = {}

\* _validate_prediction_account asks the same of EC. legs.
validate_prediction_account_fails(r) ==
  \/ r.acc \in Listed /\ (r.acc \in Master \/ r.acc \notin Prediction)
  \/ Listed \cap Prediction = {}

AccountFails(r) ==
  \/ r.script = "place_order" /\ place_order_account_fails(r)
  \/ r.script = "place_combo_order" /\ validate_prediction_account_fails(r)
-----------------------------------------------------------------------------
(* The steps of an invocation. *)

At(p, here) == pc[p] = here
Go(p, next) == pc' = [pc EXCEPT ![p] = next]
Finish(p, status) == Go(p, "done") /\ exit' = [exit EXCEPT ![p] = status]

HasLog(p) == req[p].script # "cancel_crypto_order"

\* _audit_log swallows its own failures.
Record(p, rows) ==
  \/ HasLog(p) /\ log' = [log EXCEPT ![p] = rows] /\ UNCHANGED unlogged
  \/ HasLog(p) /\ unlogged' = unlogged \cup {p} /\ UNCHANGED log
  \/ ~HasLog(p) /\ UNCHANGED <<log, unlogged>>

\* Mutant: another status.
Raises_ExitMinusOne(p) == Record(p, {"error"}) /\ Finish(p, 255)

\* except Exception: a row with result "error" and exit 1.  cancel_crypto_order
\* has neither handler nor log; its traceback exits 1 too.
Raises(p) == Record(p, {"error"}) /\ Finish(p, 1)

\* Either the script refuses and exits 1, or argparse does (required, type, choices)
\* and exits 2, the status of a preview.  Which of the two is left open.
Refusal(p) == Refuses(req[p]) /\ \E status \in {1, 2} : Finish(p, status)

\* Mutant: the preview does not end the script.
CheckArgs_PreviewGoesOn(p) ==
  /\ At(p, "args")
  /\ \/ Refusal(p)
     \/ ~Refuses(req[p]) /\ Go(p, "open") /\ UNCHANGED exit
  /\ seen' = [seen EXCEPT ![p] = [price |-> req[p].price, quantity |-> req[p].quantity]]
  /\ UNCHANGED <<req, sent, heard, log, unlogged, blind, orders, asked, crossed>>

CheckArgs(p) ==
  /\ At(p, "args")
  /\ \/ Refusal(p)
     \/ ~Refuses(req[p]) /\ NeedsConfirmation(req[p]) /\ ~req[p].confirmed /\ Finish(p, 2)
     \/ /\ ~Refuses(req[p]) /\ (NeedsConfirmation(req[p]) => req[p].confirmed)
        /\ Go(p, "open") /\ UNCHANGED exit
  /\ seen' = [seen EXCEPT ![p] = [price |-> req[p].price, quantity |-> req[p].quantity]]
  /\ UNCHANGED <<req, sent, heard, log, unlogged, blind, orders, asked, crossed>>

AfterOpen(r) ==
  IF ChecksAccounts(r) THEN "accounts" ELSE IF ReadsOriginal(r) THEN "original" ELSE "submit"

\* The context opens, OpenD cannot be reached (exit 1 at once), or the SDK raises.
Open(p) ==
  /\ At(p, "open")
  /\ \/ Go(p, AfterOpen(req[p])) /\ UNCHANGED <<exit, log, unlogged>>
     \/ Finish(p, 1) /\ UNCHANGED <<log, unlogged>>
     \/ Raises(p)
  /\ UNCHANGED <<req, seen, sent, heard, blind, orders, asked, crossed>>

\* A list that does not come, or comes empty, checks nothing.
CheckAccounts(p) ==
  /\ At(p, "accounts")
  /\ \/ AccountFails(req[p]) /\ Finish(p, 1) /\ UNCHANGED <<log, unlogged, blind>>
     \/ ~AccountFails(req[p]) /\ Go(p, "submit") /\ UNCHANGED <<exit, log, unlogged, blind>>
     \/ Go(p, "submit") /\ blind' = blind \cup {p} /\ UNCHANGED <<exit, log, unlogged>>
     \/ Raises(p) /\ UNCHANGED blind
  /\ UNCHANGED <<req, seen, sent, heard, orders, asked, crossed>>

\* Mutant: what was not given is zero.
ReadOriginal_Zeros(p) ==
  /\ At(p, "original")
  /\ Go(p, "submit") /\ UNCHANGED <<exit, log, unlogged>>
  /\ UNCHANGED <<req, seen, sent, heard, blind, orders, asked, crossed>>

\* modify_order completes what was not given from the order as it is now.
ReadOriginal(p) ==
  /\ At(p, "original")
  /\ \/ /\ seen' = [seen EXCEPT ![p] =
               [price |-> IF @.price = 0 THEN orders[1].price ELSE @.price,
                quantity |-> IF @.quantity = 0 THEN orders[1].quantity ELSE @.quantity]]
        /\ Go(p, "submit") /\ UNCHANGED <<exit, log, unlogged>>
     \/ Finish(p, 1) /\ UNCHANGED <<seen, log, unlogged>>
     \/ Raises(p) /\ UNCHANGED seen
  /\ UNCHANGED <<req, sent, heard, blind, orders, asked, crossed>>

\* The broker (external).  It accepts an order on the account it is given, or on
\* one of its choice, and changes only orders that are open.
BrokerPlaces(p) ==
  /\ req[p].script \in Placing
  /\ \E acc \in IF req[p].acc = NoAcc THEN Accounts ELSE {req[p].acc} :
       orders' = orders \o <<[by |-> p, acc |-> acc,
                              env |-> IF IsCrypto(req[p]) THEN "REAL" ELSE req[p].env,
                              code |-> req[p].code, quantity |-> seen[p].quantity,
                              price |-> seen[p].price, state |-> "open"]>>
  /\ UNCHANGED <<asked, crossed>>

HoldsOldValues(q) == At(q, "submit") /\ ReadsOriginal(req[q])

BrokerModifies(p) ==
  /\ req[p].script = "modify_order" /\ orders[1].state = "open"
  /\ orders' = [orders EXCEPT ![1].price = seen[p].price, ![1].quantity = seen[p].quantity]
  /\ asked' = [price |-> IF req[p].price = 0 THEN asked.price ELSE req[p].price,
               quantity |-> IF req[p].quantity = 0 THEN asked.quantity ELSE req[p].quantity]
  /\ crossed' = (crossed \/ \E q \in Procs \ {p} : HoldsOldValues(q))

\* cancel_all_order takes every open crypto order, modify_order(CANCEL) one.
BrokerCancels(p) ==
  /\ LET r == req[p]
         all == r.script = "cancel_crypto_order" /\ r.extra
         hit == {i \in DOMAIN orders : orders[i].state = "open" /\
                                       (IF all THEN orders[i].code = "CC" ELSE i = 1)}
     IN  /\ r.script \in {"cancel_order", "cancel_crypto_order"}
         /\ all \/ hit # {}
         /\ orders' = [i \in DOMAIN orders |->
                         IF i \in hit THEN [orders[i] EXCEPT !.state = "cancelled"] ELSE orders[i]]
  /\ UNCHANGED <<asked, crossed>>

BrokerActs(p) == BrokerPlaces(p) \/ BrokerModifies(p) \/ BrokerCancels(p)

\* One request to the broker.  It acts and the reply arrives, is lost (an error
\* return) or cannot be read (an exception); or it does not act.
Submit(p) ==
  /\ At(p, "submit")
  /\ \/ /\ BrokerActs(p)
        /\ sent' = [sent EXCEPT ![p] = "accepted"]
        /\ \E h \in {"ok", "unprinted", "error", "exception"} : heard' = [heard EXCEPT ![p] = h]
     \/ /\ sent' = [sent EXCEPT ![p] = "refused"]
        /\ \E h \in {"error", "exception"} : heard' = [heard EXCEPT ![p] = h]
        /\ UNCHANGED <<orders, asked, crossed>>
  /\ Go(p, "reply")
  /\ UNCHANGED <<req, exit, seen, log, unlogged, blind>>

\* Mutant: the return value is not looked at.
Reply_NoCheckRet(p) ==
  /\ At(p, "reply")
  /\ \/ heard[p] \in {"ok", "error"} /\ Record(p, {"success"}) /\ Finish(p, 0)
     \/ heard[p] = "unprinted" /\ Record(p, {"success", "error"}) /\ Finish(p, 1)
     \/ heard[p] = "exception" /\ Raises(p)
  /\ UNCHANGED <<req, seen, sent, heard, blind, orders, asked, crossed>>

\* Mutant: the row is written before the return value is checked.
Reply_LogsFirst(p) ==
  /\ At(p, "reply")
  /\ \/ heard[p] = "ok" /\ Record(p, {"success"}) /\ Finish(p, 0)
     \/ heard[p] = "error" /\ Record(p, {"success"}) /\ Finish(p, 1)
     \/ heard[p] = "unprinted" /\ Record(p, {"success", "error"}) /\ Finish(p, 1)
     \/ heard[p] = "exception" /\ Raises(p)
  /\ UNCHANGED <<req, seen, sent, heard, blind, orders, asked, crossed>>

\* check_ret ends the script with no row when the return is not RET_OK.  Output
\* that fails (a closed pipe) is an exception after the row was written.
Reply(p) ==
  /\ At(p, "reply")
  /\ \/ heard[p] = "ok" /\ Record(p, {"success"}) /\ Finish(p, 0)
     \/ heard[p] = "error" /\ Finish(p, 1) /\ UNCHANGED <<log, unlogged>>
     \/ heard[p] = "unprinted" /\ Record(p, {"success", "error"}) /\ Finish(p, 1)
     \/ heard[p] = "exception" /\ Raises(p)
  /\ UNCHANGED <<req, seen, sent, heard, blind, orders, asked, crossed>>

\* The process is killed or interrupted, which "except Exception" does not see.
Kill(p) ==
  /\ pc[p] # "done"
  /\ Finish(p, Killed)
  /\ UNCHANGED <<req, seen, sent, heard, log, unlogged, blind, orders, asked, crossed>>

\* The market fills order 1 (external); it is the only one whose being open
\* decides what a script achieves.
Fill ==
  /\ orders[1].state = "open"
  /\ orders' = [orders EXCEPT ![1].state = "filled"]
  /\ UNCHANGED <<procVars, asked, crossed>>

Step(p) ==
  \/ CheckArgs(p) \/ Open(p) \/ CheckAccounts(p) \/ ReadOriginal(p)
  \/ Submit(p) \/ Reply(p) \/ Kill(p)

Next == Fill \/ \E p \in Procs : Step(p)

Spec == Init /\ [][Next]_vars
-----------------------------------------------------------------------------
(* Properties. *)

TypeOK ==
  /\ req \in [Procs -> Requests]
  /\ pc \in [Procs -> Pcs]
  /\ exit \in [Procs -> {Running, Killed, 0, 1, 2}]
  /\ seen \in [Procs -> [price : Nat, quantity : Nat]]
  /\ sent \in [Procs -> {"no", "accepted", "refused"}]
  /\ heard \in [Procs -> {"no", "ok", "unprinted", "error", "exception"}]
  /\ log \in [Procs -> SUBSET {"success", "error"}]
  /\ unlogged \subseteq Procs /\ blind \subseteq Procs
  /\ orders \in Seq(Order)
  /\ asked \in [price : Nat, quantity : Nat]
  /\ crossed \in BOOLEAN

\* Exit 0 says the broker has acted, exit 2 that nothing was sent, and after
\* exit 1 the broker has acted only when its reply was lost, could not be read
\* or could not be printed: those are the only failures not safe to repeat.
ExitTellsFate ==
  \A p \in Procs :
    /\ exit[p] = 0 => sent[p] = "accepted"
    /\ exit[p] = 2 => sent[p] = "no"
    /\ exit[p] = 1 /\ sent[p] = "accepted" => heard[p] \in {"unprinted", "error", "exception"}

\* No row of success is untrue, and what the broker accepted has a row except
\* after a lost reply, a kill, a log that cannot be written, and in
\* cancel_crypto_order.
LogIsTrue ==
  \A p \in Procs :
    /\ "success" \in log[p] => sent[p] = "accepted"
    /\ "error" \in log[p] => exit[p] = 1
    /\ sent[p] = "accepted" /\ At(p, "done") =>
         log[p] # {} \/ heard[p] = "error" \/ exit[p] = Killed \/ p \in unlogged \/ ~HasLog(p)

\* No script places an order with real money unless the command line had
\* --confirmed, whichever of the three scripts it is.
RealOrdersAreConfirmed ==
  \A i \in DOMAIN orders :
    orders[i].env = "REAL" => orders[i].by = "app" \/ req[orders[i].by].confirmed

\* An order is on a MASTER account only if no account was named, the list did
\* not come or does not have it, or the script is one that does not look
\* (crypto orders and option combos).
MasterOrdersExplained ==
  \A i \in DOMAIN orders :
    LET by == orders[i].by IN
    by # "app" /\ orders[i].acc \in Master =>
      \/ req[by].acc = NoAcc
      \/ req[by].acc \notin Listed
      \/ by \in blind
      \/ req[by].script = "place_crypto_order"
      \/ req[by].script = "place_combo_order" /\ req[by].code # "EC"

\* Changes that do not cross keep what they were not asked to change: the order
\* has the price and the quantity last asked for.
ModifyKeepsTheRest ==
  ~crossed => orders[1].price = asked.price /\ orders[1].quantity = asked.quantity
=============================================================================
