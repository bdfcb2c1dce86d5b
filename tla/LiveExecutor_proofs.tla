------------------------ MODULE LiveExecutor_proofs ------------------------
(***************************************************************************)
(* Proofs about the order scripts and the engine in live mode, for every   *)
(* number of invocations, every set of command lines and accounts, and     *)
(* every broker.                                                           *)
(***************************************************************************)
EXTENDS LiveExecutor, SequenceTheorems, TLAPS

-----------------------------------------------------------------------------
(* Sequences of orders. *)

LEMMA OneMore ==
  ASSUME NEW S, NEW s \in Seq(S), NEW x \in S
  PROVE  /\ s \o <<x>> \in Seq(S) /\ Len(s \o <<x>>) = Len(s) + 1
         /\ \A i \in 1..Len(s) : (s \o <<x>>)[i] = s[i]
         /\ (s \o <<x>>)[Len(s) + 1] = x
<1>1. <<x>> \in Seq(S) /\ Len(<<x>>) = 1 /\ <<x>>[1] = x
  OBVIOUS
<1>2. /\ s \o <<x>> \in Seq(S) /\ Len(s \o <<x>>) = Len(s) + 1
      /\ \A i \in 1..(Len(s) + 1) :
           (s \o <<x>>)[i] = IF i <= Len(s) THEN s[i] ELSE <<x>>[i - Len(s)]
  BY <1>1, ConcatProperties
<1>3. Len(s) \in Nat
  OBVIOUS
<1>. QED
  BY <1>1, <1>2, <1>3

LEMMA FunctionIsSeq == \A S : \A n \in Nat : [1..n -> S] \subseteq Seq(S)
BY SeqDef

-----------------------------------------------------------------------------
(* Type correctness. *)

ProcType ==
  /\ req \in [Procs -> Requests]
  /\ pc \in [Procs -> Pcs]
  /\ exit \in [Procs -> {Running, Killed, 0, 1, 2}]
  /\ seen \in [Procs -> [price : Nat, quantity : Nat]]
  /\ sent \in [Procs -> {"no", "accepted", "refused"}]
  /\ heard \in [Procs -> {"no", "ok", "unprinted", "error", "exception"}]
  /\ log \in [Procs -> SUBSET {"success", "error"}]
  /\ unlogged \subseteq Procs /\ blind \subseteq Procs

DeskType ==
  /\ orders \in Seq(Order) /\ orders # <<>>
  /\ asked \in [price : Nat, quantity : Nat]
  /\ crossed \in BOOLEAN

EngineType == position \in Position /\ target \in Position /\ waiting \in BOOLEAN

Typed == ProcType /\ DeskType /\ EngineType

LEMMA TypedLive == Typed => LiveTypeOK
BY DEF Typed, ProcType, DeskType, EngineType, LiveTypeOK, TypeOK

LEMMA RequestType ==
  ASSUME ProcType, NEW p \in Procs PROVE req[p] \in Request
BY DeskAssumption DEF ProcType

LEMMA GoType ==
  ASSUME ProcType, NEW p \in Procs, NEW next \in Pcs, Go(p, next)
  PROVE  pc' \in [Procs -> Pcs]
BY DEF ProcType, Go

LEMMA FinishType ==
  ASSUME ProcType, NEW p \in Procs, NEW status \in {Killed, 0, 1, 2}, Finish(p, status)
  PROVE  pc' \in [Procs -> Pcs] /\ exit' \in [Procs -> {Running, Killed, 0, 1, 2}]
BY DEF ProcType, Finish, Go, Pcs

LEMMA RecordType ==
  ASSUME ProcType, NEW p \in Procs, NEW rows \in SUBSET {"success", "error"}, Record(p, rows)
  PROVE  log' \in [Procs -> SUBSET {"success", "error"}] /\ unlogged' \subseteq Procs
BY DEF ProcType, Record

LEMMA RaisesType ==
  ASSUME ProcType, NEW p \in Procs, Raises(p)
  PROVE  /\ pc' \in [Procs -> Pcs] /\ exit' \in [Procs -> {Running, Killed, 0, 1, 2}]
         /\ log' \in [Procs -> SUBSET {"success", "error"}] /\ unlogged' \subseteq Procs
BY FinishType, RecordType DEF Raises

LEMMA ArgsType == ASSUME ProcType, NEW p \in Procs, CheckArgs(p) PROVE ProcType'
<1>1. req[p] \in Request
  BY RequestType
<1>2. seen' \in [Procs -> [price : Nat, quantity : Nat]]
  BY <1>1 DEF CheckArgs, Refusal, ProcType, Request
<1>3. pc' \in [Procs -> Pcs] /\ exit' \in [Procs -> {Running, Killed, 0, 1, 2}]
  BY GoType, FinishType DEF CheckArgs, Refusal, ProcType, Pcs
<1>. QED
  BY <1>2, <1>3 DEF CheckArgs, Refusal, ProcType

LEMMA OpenType == ASSUME ProcType, NEW p \in Procs, Open(p) PROVE ProcType'
<1>1. AfterOpen(req[p]) \in Pcs
  BY DEF AfterOpen, Pcs
<1>2. /\ pc' \in [Procs -> Pcs] /\ exit' \in [Procs -> {Running, Killed, 0, 1, 2}]
      /\ log' \in [Procs -> SUBSET {"success", "error"}] /\ unlogged' \subseteq Procs
  BY <1>1, GoType, FinishType, RaisesType DEF Open, ProcType
<1>. QED
  BY <1>2 DEF Open, ProcType

LEMMA AccountsType == ASSUME ProcType, NEW p \in Procs, CheckAccounts(p) PROVE ProcType'
<1>1. /\ pc' \in [Procs -> Pcs] /\ exit' \in [Procs -> {Running, Killed, 0, 1, 2}]
      /\ log' \in [Procs -> SUBSET {"success", "error"}] /\ unlogged' \subseteq Procs
      /\ blind' \subseteq Procs
  <2>0. "submit" \in Pcs
    BY DEF Pcs
  <2>. QED
    BY <2>0, GoType, FinishType, RaisesType DEF CheckAccounts, ProcType
<1>. QED
  BY <1>1 DEF CheckAccounts, ProcType

LEMMA OrderOne == ASSUME DeskType PROVE orders[1] \in Order /\ 1 \in DOMAIN orders
BY DEF DeskType

LEMMA OriginalType ==
  ASSUME ProcType, DeskType, NEW p \in Procs, ReadOriginal(p) PROVE ProcType'
<1>1. /\ pc' \in [Procs -> Pcs] /\ exit' \in [Procs -> {Running, Killed, 0, 1, 2}]
      /\ log' \in [Procs -> SUBSET {"success", "error"}] /\ unlogged' \subseteq Procs
  <2>0. "submit" \in Pcs
    BY DEF Pcs
  <2>. QED
    BY <2>0, GoType, FinishType, RaisesType DEF ReadOriginal, ProcType
<1>2. seen' \in [Procs -> [price : Nat, quantity : Nat]]
  <2>1. seen[p] \in [price : Nat, quantity : Nat] /\ orders[1].price \in Nat /\ orders[1].quantity \in Nat
    BY OrderOne DEF ProcType, Order
  <2>2. \/ seen' = seen
        \/ seen' = [seen EXCEPT ![p] =
             [price |-> IF seen[p].price = 0 THEN orders[1].price ELSE seen[p].price,
              quantity |-> IF seen[p].quantity = 0 THEN orders[1].quantity ELSE seen[p].quantity]]
    BY DEF ReadOriginal, ProcType
  <2>. QED
    BY <2>1, <2>2 DEF ProcType
<1>. QED
  BY <1>1, <1>2 DEF ReadOriginal, ProcType

LEMMA SubmitType == ASSUME ProcType, NEW p \in Procs, Submit(p) PROVE ProcType'
<1>0. "reply" \in Pcs
  BY DEF Pcs
<1>1. pc' \in [Procs -> Pcs]
  BY <1>0, GoType DEF Submit
<1>2. /\ sent' \in [Procs -> {"no", "accepted", "refused"}]
      /\ heard' \in [Procs -> {"no", "ok", "unprinted", "error", "exception"}]
  BY DEF Submit, ProcType
<1>. QED
  BY <1>1, <1>2 DEF Submit, ProcType

LEMMA ReplyType == ASSUME ProcType, NEW p \in Procs, Reply(p) PROVE ProcType'
<1>1. /\ pc' \in [Procs -> Pcs] /\ exit' \in [Procs -> {Running, Killed, 0, 1, 2}]
      /\ log' \in [Procs -> SUBSET {"success", "error"}] /\ unlogged' \subseteq Procs
  BY FinishType, RecordType, RaisesType DEF Reply, ProcType
<1>. QED
  BY <1>1 DEF Reply, ProcType

LEMMA KillType == ASSUME ProcType, NEW p \in Procs, Kill(p) PROVE ProcType'
BY FinishType DEF Kill, ProcType

LEMMA SpawnType == ASSUME ProcType, Spawn PROVE ProcType'
BY EngineAssumption DEF Spawn, ProcType, Pcs
-----------------------------------------------------------------------------
(* The broker's orders. *)

\* Who placed an order, and where, does not change.
SameOrder(o, q) == o.by = q.by /\ o.acc = q.acc /\ o.env = q.env /\ o.code = q.code

Kept == \A i \in DOMAIN orders : i \in DOMAIN orders' /\ SameOrder(orders'[i], orders[i])

\* An order of invocation p, as its command line asks for it.
Placed(p, o) ==
  /\ o \in Order /\ o.by = p /\ req[p].script \in Placing
  /\ o.env = IF IsCrypto(req[p]) THEN "REAL" ELSE req[p].env
  /\ o.acc \in Accounts /\ (req[p].acc # NoAcc => o.acc = req[p].acc)

LEMMA PlacesOrder ==
  ASSUME ProcType, DeskType, NEW p \in Procs, BrokerPlaces(p)
  PROVE  \E o : Placed(p, o) /\ orders' = orders \o <<o>>
<1>1. PICK acc \in IF req[p].acc = NoAcc THEN Accounts ELSE {req[p].acc} :
        orders' = orders \o <<[by |-> p, acc |-> acc,
                               env |-> IF IsCrypto(req[p]) THEN "REAL" ELSE req[p].env,
                               code |-> req[p].code, quantity |-> seen[p].quantity,
                               price |-> seen[p].price, state |-> "open"]>>
  BY DEF BrokerPlaces
<1> DEFINE o == [by |-> p, acc |-> acc,
                 env |-> IF IsCrypto(req[p]) THEN "REAL" ELSE req[p].env,
                 code |-> req[p].code, quantity |-> seen[p].quantity,
                 price |-> seen[p].price, state |-> "open"]
<1>2. /\ req[p].acc \in Accounts \cup {NoAcc} /\ req[p].env \in {"SIMULATE", "REAL"}
      /\ req[p].code \in Codes
  BY RequestType DEF Request
<1>3. seen[p].quantity \in Nat /\ seen[p].price \in Nat
  BY DEF ProcType
<1>4. acc \in Accounts /\ (req[p].acc # NoAcc => acc = req[p].acc)
  BY <1>1, <1>2
<1>5. o \in Order
  BY <1>2, <1>3, <1>4 DEF Order
<1>6. req[p].script \in Placing
  BY DEF BrokerPlaces
<1>7. Placed(p, o)
  BY <1>4, <1>5, <1>6 DEF Placed
<1>. QED
  BY <1>1, <1>7

LEMMA FirstOrderUpdates ==
  ASSUME DeskType, NEW x \in Order, SameOrder(x, orders[1]), orders' = [orders EXCEPT ![1] = x]
  PROVE  orders' \in Seq(Order) /\ orders' # <<>> /\ Kept /\ DOMAIN orders' = DOMAIN orders
<1>1. 1 \in DOMAIN orders /\ orders \in Seq(Order) /\ DOMAIN orders = 1..Len(orders)
  BY OrderOne DEF DeskType
<1>2. DOMAIN orders' = DOMAIN orders
      /\ \A i \in DOMAIN orders : orders'[i] = IF i = 1 THEN x ELSE orders[i]
  BY <1>1
<1>3. \A i \in DOMAIN orders : orders[i] \in Order
  BY <1>1
<1>4. orders' \in [1..Len(orders) -> Order]
  BY <1>1, <1>3
<1>5. orders' \in Seq(Order)
  <2>1. Len(orders) \in Nat
    BY <1>1
  <2>. QED
    BY <1>4, <2>1, FunctionIsSeq
<1>6. orders' # <<>>
  BY <1>1, <1>2
<1>7. Kept
  BY <1>2 DEF Kept, SameOrder
<1>. QED
  BY <1>2, <1>5, <1>6, <1>7

LEMMA FillKeeps ==
  ASSUME DeskType, Fill
  PROVE  DeskType' /\ Kept /\ DOMAIN orders' = DOMAIN orders
<1> DEFINE x == [orders[1] EXCEPT !.state = "filled"]
<1>1. orders[1] \in Order /\ 1 \in DOMAIN orders
  BY OrderOne
<1>2. x \in Order /\ SameOrder(x, orders[1])
  BY <1>1 DEF Order, SameOrder
<1>3. orders' = [orders EXCEPT ![1] = x]
  BY <1>1 DEF Fill
<1> HIDE DEF x
<1>4. orders' \in Seq(Order) /\ orders' # <<>> /\ Kept /\ DOMAIN orders' = DOMAIN orders
  BY <1>2, <1>3, FirstOrderUpdates
<1>. QED
  BY <1>4 DEF Fill, DeskType

LEMMA ModifyKeeps ==
  ASSUME ProcType, DeskType, NEW p \in Procs, BrokerModifies(p)
  PROVE  DeskType' /\ Kept /\ DOMAIN orders' = DOMAIN orders
<1> DEFINE x == [orders[1] EXCEPT !.price = seen[p].price, !.quantity = seen[p].quantity]
<1>1. orders[1] \in Order /\ 1 \in DOMAIN orders
  BY OrderOne
<1>2. seen[p].price \in Nat /\ seen[p].quantity \in Nat
  BY DEF ProcType
<1>3. x \in Order /\ SameOrder(x, orders[1])
  BY <1>1, <1>2 DEF Order, SameOrder
<1>4. orders' = [orders EXCEPT ![1] = x]
  BY <1>1 DEF BrokerModifies
<1> HIDE DEF x
<1>5. orders' \in Seq(Order) /\ orders' # <<>> /\ Kept /\ DOMAIN orders' = DOMAIN orders
  BY <1>3, <1>4, FirstOrderUpdates
<1>6. asked' \in [price : Nat, quantity : Nat]
  <2>1. req[p].price \in Nat /\ req[p].quantity \in Nat
    BY RequestType DEF Request
  <2>. QED
    BY <2>1 DEF BrokerModifies, DeskType
<1>7. crossed' \in BOOLEAN
  BY DEF BrokerModifies
<1>. QED
  BY <1>5, <1>6, <1>7 DEF DeskType

LEMMA CancelledOrder ==
  ASSUME NEW o \in Order
  PROVE  /\ [o EXCEPT !.state = "cancelled"] \in Order
         /\ SameOrder([o EXCEPT !.state = "cancelled"], o) /\ SameOrder(o, o)
BY DEF Order, SameOrder

LEMMA CancelKeeps ==
  ASSUME DeskType, NEW p \in Procs, BrokerCancels(p)
  PROVE  DeskType' /\ Kept /\ DOMAIN orders' = DOMAIN orders
<1>1. PICK hit : orders' = [i \in DOMAIN orders |->
        IF i \in hit THEN [orders[i] EXCEPT !.state = "cancelled"] ELSE orders[i]]
  BY DEF BrokerCancels
<1>2. \A i \in DOMAIN orders : orders[i] \in Order
  BY DEF DeskType
<1>3. \A i \in DOMAIN orders :
        orders'[i] = IF i \in hit THEN [orders[i] EXCEPT !.state = "cancelled"] ELSE orders[i]
  BY <1>1
<1>4. \A i \in DOMAIN orders : orders'[i] \in Order /\ SameOrder(orders'[i], orders[i])
  <2> SUFFICES ASSUME NEW i \in DOMAIN orders
               PROVE  orders'[i] \in Order /\ SameOrder(orders'[i], orders[i])
    OBVIOUS
  <2>1. orders[i] \in Order
    BY <1>2
  <2>2. \/ orders'[i] = [orders[i] EXCEPT !.state = "cancelled"]
        \/ orders'[i] = orders[i]
    BY <1>3
  <2>. QED
    BY <2>1, <2>2, CancelledOrder
<1>5. DOMAIN orders' = DOMAIN orders
  BY <1>1
<1>6. orders' \in Seq(Order)
  <2>1. Len(orders) \in Nat /\ DOMAIN orders = 1..Len(orders)
    BY DEF DeskType
  <2>2. orders' = [i \in 1..Len(orders) |-> orders'[i]]
    BY <1>1, <2>1
  <2>3. \A i \in 1..Len(orders) : orders'[i] \in Order
    BY <1>4, <2>1
  <2>4. orders' \in [1..Len(orders) -> Order]
    BY <2>2, <2>3
  <2>. QED
    BY <2>1, <2>4, FunctionIsSeq
<1>7. orders' # <<>>
  BY <1>5, OrderOne
<1>. QED
  BY <1>4, <1>5, <1>6, <1>7 DEF DeskType, Kept, BrokerCancels

LEMMA PlaceKeeps ==
  ASSUME ProcType, DeskType, NEW p \in Procs, BrokerPlaces(p)
  PROVE  DeskType' /\ Kept
<1>1. PICK o : Placed(p, o) /\ orders' = orders \o <<o>>
  BY PlacesOrder
<1>2. orders \in Seq(Order) /\ o \in Order
  BY <1>1 DEF DeskType, Placed
<1>3. /\ orders' \in Seq(Order) /\ Len(orders') = Len(orders) + 1
      /\ \A i \in 1..Len(orders) : orders'[i] = orders[i]
  BY <1>1, <1>2, OneMore
<1>4. DOMAIN orders = 1..Len(orders) /\ DOMAIN orders' = 1..Len(orders')
      /\ Len(orders) \in Nat
  BY <1>2, <1>3
<1>5. orders' # <<>> /\ Kept
  BY <1>3, <1>4 DEF Kept, SameOrder
<1>. QED
  BY <1>3, <1>5 DEF DeskType, BrokerPlaces

LEMMA SubmitKeeps ==
  ASSUME ProcType, DeskType, NEW p \in Procs, Submit(p)
  PROVE  DeskType' /\ Kept
<1>1. BrokerPlaces(p) \/ BrokerModifies(p) \/ BrokerCancels(p) \/ UNCHANGED <<orders, asked, crossed>>
  BY DEF Submit, BrokerActs
<1>2. CASE UNCHANGED <<orders, asked, crossed>>
  BY <1>2 DEF DeskType, Kept, SameOrder
<1>. QED
  BY <1>1, <1>2, PlaceKeeps, ModifyKeeps, CancelKeeps

\* Every step of an invocation but its request leaves the broker alone.
Quiet(p) ==
  CheckArgs(p) \/ Open(p) \/ CheckAccounts(p) \/ ReadOriginal(p) \/ Reply(p) \/ Kill(p)

LEMMA QuietSteps ==
  ASSUME NEW p \in Procs, Quiet(p)
  PROVE  /\ req' = req /\ sent' = sent /\ heard' = heard
         /\ orders' = orders /\ asked' = asked /\ crossed' = crossed
BY DEF Quiet, CheckArgs, Refusal, Open, CheckAccounts, ReadOriginal, Reply, Kill

LEMMA StepTyped ==
  ASSUME ProcType, DeskType, NEW p \in Procs, Step(p)
  PROVE  ProcType' /\ DeskType'
<1>1. ProcType'
  BY ArgsType, OpenType, AccountsType, OriginalType, SubmitType, ReplyType, KillType DEF Step
<1>2. Quiet(p) \/ Submit(p)
  BY DEF Step, Quiet
<1>3. CASE Quiet(p)
  <2>1. orders' = orders /\ asked' = asked /\ crossed' = crossed
    BY <1>3, QuietSteps
  <2>. QED
    BY <1>1, <2>1 DEF DeskType
<1>. QED
  BY <1>1, <1>2, <1>3, SubmitKeeps

LEMMA InitTyped == LiveInit => Typed
<1> SUFFICES ASSUME LiveInit PROVE Typed
  OBVIOUS
<1>1. ProcType
  BY DEF LiveInit, Init, ProcType, Pcs
<1>2. DeskType
  <2>1. PICK first \in FirstOrders : orders = <<FirstOrder(first)>>
    BY DEF LiveInit, Init
  <2>2. first.acc \in Accounts /\ first.code \in Codes
    BY <2>1, DeskAssumption
  <2>3. FirstOrder(first) \in Order
    BY <2>2 DEF FirstOrder, Order
  <2>4. orders \in Seq(Order) /\ orders # <<>>
    <3>1. \A o \in Order : <<o>> \in Seq(Order) /\ <<o>> # <<>>
      OBVIOUS
    <3>. QED
      BY <2>1, <2>3, <3>1
  <2>. QED
    BY <2>4 DEF DeskType, LiveInit, Init
<1>3. EngineType
  BY DEF LiveInit, EngineType
<1>. QED
  BY <1>1, <1>2, <1>3 DEF Typed

LEMMA NextTyped == Typed /\ [LiveNext]_liveVars => Typed'
<1> SUFFICES ASSUME Typed, [LiveNext]_liveVars PROVE Typed'
  OBVIOUS
<1>0. ProcType /\ DeskType /\ EngineType
  BY DEF Typed
<1>1. CASE UNCHANGED vars
  <2>1. ProcType' /\ DeskType'
    BY <1>0, <1>1 DEF vars, procVars, ProcType, DeskType
  <2>2. EngineType'
    <3>1. SetTarget \/ SetFlat \/ SubmitReturns \/ UNCHANGED engineVars
      BY DEF LiveNext, liveVars
    <3>. QED
      BY <1>0, <3>1 DEF EngineType, SetTarget, SetFlat, SubmitReturns, Targets, Position, engineVars
  <2>. QED
    BY <2>1, <2>2 DEF Typed
<1>2. CASE SetTarget /\ Spawn
  <2>1. ProcType'
    BY <1>0, <1>2, SpawnType
  <2>2. DeskType' /\ EngineType'
    BY <1>0, <1>2 DEF Spawn, SetTarget, DeskType, EngineType, Targets, Position
  <2>. QED
    BY <2>1, <2>2 DEF Typed
<1>3. CASE Fill /\ UNCHANGED engineVars
  <2>1. DeskType'
    BY <1>0, <1>3, FillKeeps
  <2>2. ProcType' /\ EngineType'
    BY <1>0, <1>3 DEF Fill, procVars, ProcType, engineVars, EngineType
  <2>. QED
    BY <2>1, <2>2 DEF Typed
<1>4. ASSUME NEW p \in Procs, Step(p), UNCHANGED engineVars PROVE Typed'
  <2>1. ProcType' /\ DeskType'
    BY <1>0, <1>4, StepTyped
  <2>2. EngineType'
    BY <1>0, <1>4 DEF engineVars, EngineType
  <2>. QED
    BY <2>1, <2>2 DEF Typed
<1>. QED
  BY <1>1, <1>2, <1>3, <1>4 DEF LiveNext, SetTarget, SetFlat, SubmitReturns, liveVars

\* The variables of the scripts, of the broker and of the engine keep their types.
THEOREM LiveTypeCorrect == LiveSpec => []LiveTypeOK
<1>1. LiveSpec => []Typed
  BY InitTyped, NextTyped, PTL DEF LiveSpec
<1>. QED
  BY <1>1, TypedLive, PTL

-----------------------------------------------------------------------------
(* Live mode only flattens: the engine's command line is refused, so its   *)
(* invocation never leaves "args" but for "done", with a status other than *)
(* 0.                                                                      *)

EngineRefused ==
  /\ req[Engine] \in EngineRequests
  /\ pc[Engine] \in {"args", "done"}
  /\ exit[Engine] # 0

LEMMA EngineRequestRefused ==
  ASSUME NEW r \in EngineRequests PROVE Refuses(r)
<1>1. r.script = "place_order" /\ r.quantity = 0 /\ r.amount = FALSE
  BY DEF EngineRequests, EngineRequest
<1>. QED
  BY <1>1 DEF Refuses, place_order_refuses

LEMMA EngineStep ==
  ASSUME ProcType, EngineRefused, NEW p \in Procs, Step(p)
  PROVE  EngineRefused'
<1>1. req' = req
  BY DEF Step, CheckArgs, Refusal, Open, CheckAccounts, ReadOriginal, Submit, Reply, Kill
<1>2. Refuses(req[Engine]) /\ Engine \in Procs
  BY EngineRequestRefused, EngineAssumption DEF EngineRefused
<1>3. CASE p # Engine
  <2>1. pc'[Engine] = pc[Engine]
    BY <1>2, <1>3 DEF Step, CheckArgs, Refusal, Open, CheckAccounts, ReadOriginal, Submit, Reply, Kill,
       Raises, Finish, Go, ProcType
  <2>2. exit'[Engine] = exit[Engine]
    BY <1>2, <1>3 DEF Step, CheckArgs, Refusal, Open, CheckAccounts, ReadOriginal, Submit, Reply, Kill,
       Raises, Finish, Go, ProcType
  <2>. QED
    BY <1>1, <2>1, <2>2 DEF EngineRefused
<1>4. CASE p = Engine
  <2>1. CheckArgs(p) \/ Kill(p)
    BY <1>4 DEF Step, EngineRefused, Open, CheckAccounts, ReadOriginal, Submit, Reply, At
  <2>2. Finish(p, 1) \/ Finish(p, 2) \/ Finish(p, Killed)
    BY <1>2, <1>4, <2>1 DEF CheckArgs, Refusal, Kill
  <2>3. pc'[Engine] = "done" /\ exit'[Engine] \in {1, 2, Killed}
    BY <1>2, <1>4, <2>2 DEF Finish, Go, ProcType
  <2>. QED
    BY <1>1, <2>3 DEF EngineRefused, Killed
<1>. QED
  BY <1>3, <1>4

LEMMA EngineNext == Typed /\ EngineRefused /\ [LiveNext]_liveVars => EngineRefused'
<1> SUFFICES ASSUME Typed, EngineRefused, [LiveNext]_liveVars PROVE EngineRefused'
  OBVIOUS
<1>0. ProcType
  BY DEF Typed
<1>1. CASE UNCHANGED vars
  BY <1>1 DEF vars, procVars, EngineRefused
<1>2. CASE SetTarget /\ Spawn
  <2>1. req' = req /\ pc'[Engine] = "args" /\ exit'[Engine] = Running
    BY <1>0, <1>2, EngineAssumption DEF Spawn, ProcType
  <2>. QED
    BY <2>1 DEF EngineRefused, Running
<1>3. CASE Fill
  BY <1>3 DEF Fill, procVars, EngineRefused
<1>4. ASSUME NEW p \in Procs, Step(p) PROVE EngineRefused'
  BY <1>0, <1>4, EngineStep
<1>. QED
  BY <1>1, <1>2, <1>3, <1>4 DEF LiveNext, SetTarget, SetFlat, SubmitReturns, liveVars

\* In live mode the engine commits no position but Flat, and no step that commits
\* one changes an order: place_order.py refuses the command line of submit_order.
THEOREM LiveOnlyFlattens == LiveSpec => OnlyFlattens
<1>1. LiveInit => Typed /\ EngineRefused
  <2> SUFFICES ASSUME LiveInit PROVE Typed /\ EngineRefused
    OBVIOUS
  <2>1. EngineRefused
    BY EngineAssumption DEF LiveInit, Init, EngineRefused, Running
  <2>. QED
    BY <2>1, InitTyped
<1>2. Typed /\ EngineRefused /\ [LiveNext]_liveVars => (Typed /\ EngineRefused)'
  BY NextTyped, EngineNext
<1>3. Typed /\ EngineRefused /\ [LiveNext]_liveVars
        => [position' # position => position' = Flat /\ orders' = orders]_liveVars
  <2> SUFFICES ASSUME Typed, EngineRefused, LiveNext, position' # position
               PROVE  position' = Flat /\ orders' = orders
    BY DEF liveVars, engineVars
  <2>1. SetFlat
    BY DEF LiveNext, SetTarget, SubmitReturns, EngineRefused, engineVars
  <2>. QED
    BY <2>1 DEF SetFlat, vars
<1>. QED
  BY <1>1, <1>2, <1>3, PTL DEF LiveSpec, OnlyFlattens

-----------------------------------------------------------------------------
(* What an invocation is known to have done at each of its steps.          *)

Ended(p) ==
  /\ exit[p] = 0 => sent[p] = "accepted"
  /\ exit[p] = 2 => sent[p] = "no"
  /\ exit[p] = 1 /\ sent[p] = "accepted" => heard[p] \in {"unprinted", "error", "exception"}
  /\ "success" \in log[p] => sent[p] = "accepted"
  /\ "error" \in log[p] => exit[p] = 1
  /\ sent[p] = "accepted" =>
       log[p] # {} \/ heard[p] = "error" \/ exit[p] = Killed \/ p \in unlogged \/ ~HasLog(p)

Fate(p) ==
  /\ pc[p] # "done" => exit[p] = Running /\ log[p] = {}
  /\ pc[p] \notin {"reply", "done"} => sent[p] = "no"
  /\ pc[p] = "reply" =>
       sent[p] \in {"accepted", "refused"}
       /\ (heard[p] \in {"ok", "unprinted"} => sent[p] = "accepted")
  /\ pc[p] = "done" => Ended(p)

Fates == \A p \in Procs : Fate(p)

LEMMA FatesTell == Fates => ExitTellsFate /\ LogIsTrue
BY DEF Fates, Fate, Ended, ExitTellsFate, LogIsTrue, At, Running

\* A step of one invocation changes nothing of another.
LEMMA Others ==
  ASSUME ProcType, NEW p \in Procs, Step(p), NEW q \in Procs, q # p
  PROVE  /\ pc'[q] = pc[q] /\ exit'[q] = exit[q] /\ sent'[q] = sent[q]
         /\ heard'[q] = heard[q] /\ log'[q] = log[q] /\ (q \in unlogged' <=> q \in unlogged)
<1>1. pc'[q] = pc[q] /\ exit'[q] = exit[q]
  BY DEF Step, CheckArgs, Refusal, Open, CheckAccounts, ReadOriginal, Submit, Reply, Kill,
     Raises, Finish, Go, ProcType
<1>2. sent'[q] = sent[q] /\ heard'[q] = heard[q]
  BY DEF Step, CheckArgs, Refusal, Open, CheckAccounts, ReadOriginal, Submit, Reply, Kill, ProcType
<1>3. log'[q] = log[q] /\ (q \in unlogged' <=> q \in unlogged)
  BY DEF Step, CheckArgs, Refusal, Open, CheckAccounts, ReadOriginal, Submit, Reply, Kill,
     Raises, Record, ProcType
<1>. QED
  BY <1>1, <1>2, <1>3

LEMMA RequestsStay ==
  ASSUME NEW p \in Procs, Step(p)
  PROVE  req' = req
BY DEF Step, CheckArgs, Refusal, Open, CheckAccounts, ReadOriginal, Submit, Reply, Kill

LEMMA FinishAt ==
  ASSUME ProcType, NEW p \in Procs, NEW status, Finish(p, status)
  PROVE  pc'[p] = "done" /\ exit'[p] = status
BY DEF Finish, Go, ProcType

LEMMA GoAt ==
  ASSUME ProcType, NEW p \in Procs, NEW next, Go(p, next)
  PROVE  pc'[p] = next
BY DEF Go, ProcType

LEMMA RecordAt ==
  ASSUME ProcType, NEW p \in Procs, NEW rows, Record(p, rows)
  PROVE  \/ HasLog(p) /\ log'[p] = rows
         \/ HasLog(p) /\ log'[p] = log[p] /\ p \in unlogged'
         \/ ~HasLog(p) /\ log'[p] = log[p]
BY DEF Record, ProcType

LEMMA RaisesAt ==
  ASSUME ProcType, NEW p \in Procs, Raises(p)
  PROVE  /\ pc'[p] = "done" /\ exit'[p] = 1
         /\ \/ HasLog(p) /\ log'[p] = {"error"}
            \/ HasLog(p) /\ log'[p] = log[p] /\ p \in unlogged'
            \/ ~HasLog(p) /\ log'[p] = log[p]
BY FinishAt, RecordAt DEF Raises

\* Before its request an invocation ends without having sent it.
LEMMA EndsUnsent ==
  ASSUME ProcType, NEW p \in Procs, sent'[p] = "no", pc'[p] = "done",
         exit'[p] \in {1, 2, Killed}, log'[p] \in {{}, {"error"}},
         log'[p] # {} => exit'[p] = 1
  PROVE  Fate(p)'
BY DEF Fate, Ended, Killed

LEMMA GoesOnUnsent ==
  ASSUME ProcType, NEW p \in Procs, sent'[p] = "no", pc'[p] \in Pcs,
         pc'[p] \notin {"reply", "done"}, exit'[p] = Running, log'[p] = {}
  PROVE  Fate(p)'
BY DEF Fate

LEMMA EarlyFate ==
  ASSUME ProcType, NEW p \in Procs, Fate(p),
         CheckArgs(p) \/ Open(p) \/ CheckAccounts(p) \/ ReadOriginal(p)
  PROVE  Fate(p)'
<1>1. sent'[p] = "no"
  BY DEF Fate, At, CheckArgs, Refusal, Open, CheckAccounts, ReadOriginal
<1>2. exit[p] = Running /\ log[p] = {}
  BY DEF Fate, At, CheckArgs, Refusal, Open, CheckAccounts, ReadOriginal
<1>3. \/ Finish(p, 1) /\ log' = log
      \/ Finish(p, 2) /\ log' = log
      \/ Raises(p)
      \/ /\ Go(p, "open") \/ Go(p, AfterOpen(req[p])) \/ Go(p, "submit")
         /\ exit' = exit /\ log' = log
  BY DEF CheckArgs, Refusal, Open, CheckAccounts, ReadOriginal
<1>4. CASE Finish(p, 1) /\ log' = log
  BY <1>1, <1>2, <1>4, FinishAt, EndsUnsent
<1>5. CASE Finish(p, 2) /\ log' = log
  BY <1>1, <1>2, <1>5, FinishAt, EndsUnsent
<1>6. CASE Raises(p)
  <2>1. pc'[p] = "done" /\ exit'[p] = 1 /\ log'[p] \in {{}, {"error"}}
    BY <1>2, <1>6, RaisesAt
  <2>. QED
    BY <1>1, <2>1, EndsUnsent
<1>7. CASE /\ Go(p, "open") \/ Go(p, AfterOpen(req[p])) \/ Go(p, "submit")
           /\ exit' = exit /\ log' = log
  <2>1. pc'[p] \in {"open", "submit", AfterOpen(req[p])}
    BY <1>7, GoAt
  <2>2. pc'[p] \in {"open", "accounts", "original", "submit"}
    BY <2>1 DEF AfterOpen
  <2>. QED
    BY <1>1, <1>2, <1>7, <2>2, GoesOnUnsent DEF Pcs
<1>. QED
  BY <1>3, <1>4, <1>5, <1>6, <1>7

LEMMA SubmitFate ==
  ASSUME ProcType, NEW p \in Procs, Fate(p), Submit(p)
  PROVE  Fate(p)'
<1>1. pc'[p] = "reply" /\ exit'[p] = Running /\ log'[p] = {}
  BY GoAt DEF Submit, Fate, At
<1>2. \/ sent'[p] = "accepted" /\ heard'[p] \in {"ok", "unprinted", "error", "exception"}
      \/ sent'[p] = "refused" /\ heard'[p] \in {"error", "exception"}
  BY DEF Submit, ProcType
<1>. QED
  BY <1>1, <1>2 DEF Fate

LEMMA ReplyFate ==
  ASSUME ProcType, NEW p \in Procs, Fate(p), Reply(p)
  PROVE  Fate(p)'
<1>1. /\ sent'[p] = sent[p] /\ heard'[p] = heard[p] /\ req' = req
      /\ sent[p] \in {"accepted", "refused"}
      /\ heard[p] \in {"ok", "unprinted"} => sent[p] = "accepted"
      /\ log[p] = {}
  BY DEF Reply, Fate, At
<1>2. HasLog(p)' = HasLog(p)
  BY <1>1 DEF HasLog
<1>3. CASE heard[p] = "ok" /\ Record(p, {"success"}) /\ Finish(p, 0)
  <2>1. pc'[p] = "done" /\ exit'[p] = 0 /\ sent'[p] = "accepted"
    BY <1>1, <1>3, FinishAt
  <2>2. \/ HasLog(p) /\ log'[p] = {"success"}
        \/ HasLog(p) /\ log'[p] = {} /\ p \in unlogged'
        \/ ~HasLog(p) /\ log'[p] = {}
    BY <1>1, <1>3, RecordAt
  <2>. QED
    BY <1>2, <2>1, <2>2 DEF Fate, Ended
<1>4. CASE heard[p] = "error" /\ Finish(p, 1) /\ UNCHANGED <<log, unlogged>>
  <2>1. pc'[p] = "done" /\ exit'[p] = 1 /\ heard'[p] = "error" /\ log'[p] = {}
    BY <1>1, <1>4, FinishAt
  <2>. QED
    BY <2>1 DEF Fate, Ended
<1>5. CASE heard[p] = "unprinted" /\ Record(p, {"success", "error"}) /\ Finish(p, 1)
  <2>1. pc'[p] = "done" /\ exit'[p] = 1 /\ heard'[p] = "unprinted" /\ sent'[p] = "accepted"
    BY <1>1, <1>5, FinishAt
  <2>2. \/ HasLog(p) /\ log'[p] = {"success", "error"}
        \/ HasLog(p) /\ log'[p] = {} /\ p \in unlogged'
        \/ ~HasLog(p) /\ log'[p] = {}
    BY <1>1, <1>5, RecordAt
  <2>. QED
    BY <1>2, <2>1, <2>2 DEF Fate, Ended
<1>6. CASE heard[p] = "exception" /\ Raises(p)
  <2>1. /\ pc'[p] = "done" /\ exit'[p] = 1 /\ heard'[p] = "exception"
        /\ \/ HasLog(p) /\ log'[p] = {"error"}
           \/ HasLog(p) /\ log'[p] = {} /\ p \in unlogged'
           \/ ~HasLog(p) /\ log'[p] = {}
    BY <1>1, <1>6, RaisesAt
  <2>. QED
    BY <1>2, <2>1 DEF Fate, Ended
<1>. QED
  BY <1>3, <1>4, <1>5, <1>6 DEF Reply

LEMMA KillFate ==
  ASSUME ProcType, NEW p \in Procs, Fate(p), Kill(p)
  PROVE  Fate(p)'
<1>1. pc'[p] = "done" /\ exit'[p] = Killed /\ log'[p] = {}
  BY FinishAt DEF Kill, Fate
<1>. QED
  BY <1>1 DEF Fate, Ended, Killed

LEMMA StepFates ==
  ASSUME ProcType, Fates, NEW p \in Procs, Step(p)
  PROVE  Fates'
<1> SUFFICES ASSUME NEW q \in Procs PROVE Fate(q)'
  BY DEF Fates
<1>1. Fate(q)
  BY DEF Fates
<1>2. CASE q = p
  BY <1>1, <1>2, EarlyFate, SubmitFate, ReplyFate, KillFate DEF Step
<1>3. CASE q # p
  <2>1. /\ pc'[q] = pc[q] /\ exit'[q] = exit[q] /\ sent'[q] = sent[q]
        /\ heard'[q] = heard[q] /\ log'[q] = log[q] /\ (q \in unlogged' <=> q \in unlogged)
    BY <1>3, Others
  <2>2. HasLog(q)' <=> HasLog(q)
    BY RequestsStay DEF HasLog
  <2>. QED
    BY <1>1, <2>1, <2>2 DEF Fate, Ended
<1>. QED
  BY <1>2, <1>3

LEMMA NextFates == Typed /\ Fates /\ [LiveNext]_liveVars => Fates'
<1> SUFFICES ASSUME Typed, Fates, [LiveNext]_liveVars PROVE Fates'
  OBVIOUS
<1>0. ProcType
  BY DEF Typed
<1>1. CASE UNCHANGED vars \/ Fill
  <2>1. /\ req' = req /\ pc' = pc /\ exit' = exit /\ sent' = sent /\ heard' = heard
        /\ log' = log /\ unlogged' = unlogged
    BY <1>1 DEF vars, procVars, Fill
  <2>. QED
    BY <2>1 DEF Fates, Fate, Ended, HasLog
<1>2. CASE Spawn
  <2> SUFFICES ASSUME NEW q \in Procs PROVE Fate(q)'
    BY DEF Fates
  <2>1. Fate(q)
    BY DEF Fates
  <2>2. CASE q = Engine
    <3>1. pc'[q] = "args" /\ exit'[q] = Running /\ sent'[q] = "no" /\ log'[q] = {}
      BY <1>0, <1>2, <2>2 DEF Spawn, ProcType
    <3>. QED
      BY <3>1 DEF Fate
  <2>3. CASE q # Engine
    <3>1. /\ pc'[q] = pc[q] /\ exit'[q] = exit[q] /\ sent'[q] = sent[q]
          /\ heard'[q] = heard[q] /\ log'[q] = log[q] /\ (q \in unlogged' <=> q \in unlogged)
      BY <1>0, <1>2, <2>3 DEF Spawn, ProcType
    <3>2. HasLog(q)' <=> HasLog(q)
      BY <1>2 DEF Spawn, HasLog
    <3>. QED
      BY <2>1, <3>1, <3>2 DEF Fate, Ended
  <2>. QED
    BY <2>2, <2>3
<1>3. ASSUME NEW p \in Procs, Step(p) PROVE Fates'
  BY <1>0, <1>3, StepFates
<1>. QED
  BY <1>1, <1>2, <1>3 DEF LiveNext, SetTarget, SetFlat, SubmitReturns, liveVars

LEMMA AlwaysFates == LiveSpec => []Fates
<1>1. LiveInit => Typed /\ Fates
  <2> SUFFICES ASSUME LiveInit PROVE Typed /\ Fates
    OBVIOUS
  <2>1. Fates
    BY DEF LiveInit, Init, Fates, Fate
  <2>. QED
    BY <2>1, InitTyped
<1>2. Typed /\ Fates /\ [LiveNext]_liveVars => (Typed /\ Fates)'
  BY NextTyped, NextFates
<1>. QED
  BY <1>1, <1>2, PTL DEF LiveSpec

\* The exit status of an order script says what became of its request, and only a
\* reply that was lost, unreadable or not printed leaves an accepted one with exit 1.
THEOREM StatusTellsFate == LiveSpec => []ExitTellsFate
BY AlwaysFates, FatesTell, PTL

\* The audit log says success only of what the broker accepted, and the ways an
\* accepted request can be missing from it are the five that are named.
THEOREM AuditLogIsTrue == LiveSpec => []LogIsTrue
BY AlwaysFates, FatesTell, PTL

-----------------------------------------------------------------------------
(* Where an order can come from.                                           *)

\* An invocation past its arguments has what it needs, and one past its account
\* check was either not refused by the list or never saw it.
PastChecks(p) ==
  /\ pc[p] \notin {"args", "done"} /\ NeedsConfirmation(req[p]) => req[p].confirmed
  /\ pc[p] = "original" => ~ChecksAccounts(req[p])
  /\ pc[p] = "submit" /\ ChecksAccounts(req[p]) => ~AccountFails(req[p]) \/ p \in blind

\* The engine's invocation places none, so a new one forgets no list that matters.
Explained(o) ==
  /\ o.by = Engine => o.by = "app"
  /\ o.env = "REAL" => o.by = "app" \/ req[o.by].confirmed
  /\ o.by # "app" /\ o.acc \in Master =>
       \/ req[o.by].acc = NoAcc \/ req[o.by].acc \notin Listed \/ o.by \in blind
       \/ req[o.by].script = "place_crypto_order"
       \/ req[o.by].script = "place_combo_order" /\ req[o.by].code # "EC"

Origins ==
  /\ \A p \in Procs : PastChecks(p)
  /\ \A i \in DOMAIN orders : Explained(orders[i])

LEMMA OriginsExplain == Origins => RealOrdersAreConfirmed /\ MasterOrdersExplained
BY DEF Origins, Explained, RealOrdersAreConfirmed, MasterOrdersExplained

\* Explained looks at who placed the order and where, and at nothing that changes
\* but the set of those without a list, which loses the engine's only.
LEMMA ExplainedStays ==
  ASSUME req' = req, blind \ {Engine} \subseteq blind', Kept, Origins,
         NEW i \in DOMAIN orders
  PROVE  Explained(orders[i])'
<1>1. SameOrder(orders'[i], orders[i]) /\ Explained(orders[i])
  BY DEF Kept, Origins
<1>. QED
  BY <1>1 DEF SameOrder, Explained

LEMMA PlacedExplained ==
  ASSUME ProcType, NEW p \in Procs, PastChecks(p), pc[p] = "submit", p # Engine, NEW o, Placed(p, o)
  PROVE  Explained(o)
<1>1. /\ o.by = p /\ req[p].script \in Placing
      /\ o.env = IF IsCrypto(req[p]) THEN "REAL" ELSE req[p].env
      /\ req[p].acc # NoAcc => o.acc = req[p].acc
  BY DEF Placed
<1>2. NeedsConfirmation(req[p]) => req[p].confirmed
  BY DEF PastChecks
<1>3. o.env = "REAL" => NeedsConfirmation(req[p])
  BY <1>1 DEF NeedsConfirmation, IsCrypto, Placing
<1>4. ASSUME o.acc \in Master, req[p].acc # NoAcc, req[p].acc \in Listed, p \notin blind,
             req[p].script # "place_crypto_order",
             ~(req[p].script = "place_combo_order" /\ req[p].code # "EC")
      PROVE  FALSE
  <2>1. req[p].acc \in Master
    BY <1>1, <1>4
  <2>2. \/ req[p].script = "place_order"
        \/ req[p].script = "place_combo_order" /\ req[p].code = "EC"
    BY <1>1, <1>4 DEF Placing
  <2>3. ChecksAccounts(req[p])
    BY <1>4, <2>2 DEF ChecksAccounts
  <2>4. ~AccountFails(req[p])
    BY <1>4, <2>3 DEF PastChecks
  <2>5. AccountFails(req[p])
    BY <1>4, <2>1, <2>2 DEF AccountFails, place_order_account_fails,
       validate_prediction_account_fails
  <2>. QED
    BY <2>4, <2>5
<1>. QED
  BY <1>1, <1>2, <1>3, <1>4 DEF Explained

LEMMA StepPast ==
  ASSUME ProcType, NEW p \in Procs, Step(p), \A q \in Procs : PastChecks(q)
  PROVE  \A q \in Procs : PastChecks(q)'
<1> SUFFICES ASSUME NEW q \in Procs PROVE PastChecks(q)'
  OBVIOUS
<1>0. req' = req /\ PastChecks(q)
  BY RequestsStay
<1>1. CASE q # p
  <2>1. pc'[q] = pc[q]
    BY <1>1, Others
  <2>2. q \in blind' <=> q \in blind
    BY <1>1 DEF Step, CheckArgs, Refusal, Open, CheckAccounts, ReadOriginal, Submit, Reply, Kill
  <2>. QED
    BY <1>0, <2>1, <2>2 DEF PastChecks
<1>2. CASE q = p
  <2>1. CASE CheckArgs(p)
    <3>1. \/ pc'[p] = "done"
          \/ pc'[p] = "open" /\ (NeedsConfirmation(req[p]) => req[p].confirmed)
      BY <2>1, FinishAt, GoAt DEF CheckArgs, Refusal
    <3>. QED
      BY <1>0, <1>2, <3>1 DEF PastChecks
  <2>2. CASE Open(p)
    <3>1. pc'[p] = "done" \/ pc'[p] = AfterOpen(req[p])
      BY <2>2, FinishAt, GoAt, RaisesAt DEF Open
    <3>2. pc[p] = "open"
      BY <2>2 DEF Open, At
    <3>3. pc'[p] \in {"submit", "original"} => ~ChecksAccounts(req[p])
      BY <3>1 DEF AfterOpen
    <3>. QED
      BY <1>0, <1>2, <3>1, <3>2, <3>3 DEF PastChecks
  <2>3. CASE CheckAccounts(p)
    <3>1. \/ pc'[p] = "done"
          \/ pc'[p] = "submit" /\ (~AccountFails(req[p]) \/ p \in blind')
      BY <2>3, FinishAt, GoAt, RaisesAt DEF CheckAccounts
    <3>2. pc[p] = "accounts"
      BY <2>3 DEF CheckAccounts, At
    <3>. QED
      BY <1>0, <1>2, <3>1, <3>2 DEF PastChecks
  <2>4. CASE ReadOriginal(p)
    <3>1. pc'[p] = "done" \/ pc'[p] = "submit"
      BY <2>4, FinishAt, GoAt, RaisesAt DEF ReadOriginal
    <3>2. pc[p] = "original" /\ blind' = blind
      BY <2>4 DEF ReadOriginal, At
    <3>. QED
      BY <1>0, <1>2, <3>1, <3>2 DEF PastChecks
  <2>5. CASE Submit(p)
    <3>1. pc'[p] = "reply" /\ pc[p] = "submit"
      BY <2>5, GoAt DEF Submit, At
    <3>. QED
      BY <1>0, <1>2, <3>1 DEF PastChecks
  <2>6. CASE Reply(p) \/ Kill(p)
    <3>1. pc'[p] = "done"
      BY <2>6, FinishAt, RaisesAt DEF Reply, Kill
    <3>. QED
      BY <1>2, <3>1 DEF PastChecks
  <2>. QED
    BY <2>1, <2>2, <2>3, <2>4, <2>5, <2>6 DEF Step
<1>. QED
  BY <1>1, <1>2

LEMMA StepOrigins ==
  ASSUME ProcType, DeskType, EngineRefused, Origins, NEW p \in Procs, Step(p)
  PROVE  Origins'
<1>1. \A q \in Procs : PastChecks(q)'
  BY StepPast DEF Origins
<1>2. req' = req
  BY RequestsStay
<1>3. blind \subseteq blind'
  BY DEF Step, CheckArgs, Refusal, Open, CheckAccounts, ReadOriginal, Submit, Reply, Kill
<1>4. CASE Kept /\ DOMAIN orders' = DOMAIN orders
  BY <1>1, <1>2, <1>3, <1>4, ExplainedStays DEF Origins
<1>5. CASE Submit(p) /\ BrokerPlaces(p)
  <2>1. PICK o : Placed(p, o) /\ orders' = orders \o <<o>>
    BY <1>5, PlacesOrder
  <2>2. pc[p] = "submit" /\ p # Engine /\ blind' = blind
    BY <1>5 DEF Submit, At, EngineRefused
  <2>3. PastChecks(p)
    BY DEF Origins
  <2>4. Explained(o)
    BY <2>1, <2>2, <2>3, PlacedExplained
  <2>5. /\ Len(orders') = Len(orders) + 1 /\ orders'[Len(orders) + 1] = o
        /\ orders' \in Seq(Order) /\ Len(orders) \in Nat
    BY <2>1, OneMore DEF DeskType, Placed
  <2>6. DOMAIN orders = 1..Len(orders) /\ DOMAIN orders' = 1..(Len(orders) + 1)
    BY <2>5 DEF DeskType
  <2>7. Kept
    BY <1>5, PlaceKeeps
  <2> SUFFICES ASSUME NEW i \in DOMAIN orders' PROVE Explained(orders[i])'
    BY <1>1 DEF Origins
  <2>8. CASE i \in DOMAIN orders
    BY <1>2, <1>3, <2>7, <2>8, ExplainedStays
  <2>9. CASE i = Len(orders) + 1
    <3>1. orders'[i] = o
      BY <2>5, <2>9
    <3>. QED
      BY <1>2, <2>2, <2>4, <3>1 DEF Explained
  <2>. QED
    BY <2>5, <2>6, <2>8, <2>9
<1>6. \/ Kept /\ DOMAIN orders' = DOMAIN orders
      \/ Submit(p) /\ BrokerPlaces(p)
  <2>1. CASE Quiet(p)
    <3>1. orders' = orders
      BY <2>1, QuietSteps
    <3>. QED
      BY <3>1 DEF Kept, SameOrder
  <2>2. CASE Submit(p)
    <3>1. BrokerPlaces(p) \/ BrokerModifies(p) \/ BrokerCancels(p) \/ orders' = orders
      BY <2>2 DEF Submit, BrokerActs
    <3>2. CASE orders' = orders
      BY <3>2 DEF Kept, SameOrder
    <3>. QED
      BY <2>2, <3>1, <3>2, ModifyKeeps, CancelKeeps
  <2>. QED
    BY <2>1, <2>2 DEF Step, Quiet
<1>. QED
  BY <1>4, <1>5, <1>6

LEMMA NextOrigins == Typed /\ EngineRefused /\ Origins /\ [LiveNext]_liveVars => Origins'
<1> SUFFICES ASSUME Typed, EngineRefused, Origins, [LiveNext]_liveVars PROVE Origins'
  OBVIOUS
<1>0. ProcType /\ DeskType
  BY DEF Typed
<1>1. CASE UNCHANGED vars
  <2>1. req' = req /\ pc' = pc /\ blind' = blind /\ orders' = orders
    BY <1>1 DEF vars, procVars
  <2>. QED
    BY <2>1 DEF Origins, PastChecks, Explained
<1>2. CASE Spawn
  <2>1. req' = req /\ orders' = orders /\ blind \ {Engine} \subseteq blind'
    BY <1>2 DEF Spawn
  <2>2. Kept
    BY <2>1 DEF Kept, SameOrder
  <2>3. ASSUME NEW q \in Procs PROVE PastChecks(q)'
    <3>1. PastChecks(q)
      BY DEF Origins
    <3>2. CASE q = Engine
      <4>1. pc'[q] = "args"
        BY <1>0, <1>2, <3>2 DEF Spawn, ProcType
      <4>. QED
        BY <4>1 DEF PastChecks
    <3>3. CASE q # Engine
      <4>1. pc'[q] = pc[q] /\ (q \in blind' <=> q \in blind)
        BY <1>0, <1>2, <3>3 DEF Spawn, ProcType
      <4>. QED
        BY <2>1, <3>1, <4>1 DEF PastChecks
    <3>. QED
      BY <3>2, <3>3
  <2>. QED
    BY <2>1, <2>2, <2>3, ExplainedStays DEF Origins
<1>3. CASE Fill
  <2>1. Kept /\ DOMAIN orders' = DOMAIN orders
    BY <1>0, <1>3, FillKeeps
  <2>2. req' = req /\ pc' = pc /\ blind' = blind
    BY <1>3 DEF Fill, procVars
  <2>3. \A q \in Procs : PastChecks(q)'
    BY <2>2 DEF Origins, PastChecks
  <2>. QED
    BY <2>1, <2>2, <2>3, ExplainedStays DEF Origins
<1>4. ASSUME NEW p \in Procs, Step(p) PROVE Origins'
  BY <1>0, <1>4, StepOrigins
<1>. QED
  BY <1>1, <1>2, <1>3, <1>4 DEF LiveNext, SetTarget, SetFlat, SubmitReturns, liveVars

LEMMA AlwaysOrigins == LiveSpec => []Origins
<1>1. LiveInit => Typed /\ EngineRefused /\ Origins
  <2> SUFFICES ASSUME LiveInit PROVE Typed /\ EngineRefused /\ Origins
    OBVIOUS
  <2>1. EngineRefused
    BY EngineAssumption DEF LiveInit, Init, EngineRefused, Running
  <2>2. \A p \in Procs : PastChecks(p)
    BY DEF LiveInit, Init, PastChecks
  <2>3. PICK first \in FirstOrders : orders = <<FirstOrder(first)>>
    BY DEF LiveInit, Init
  <2>4. Explained(FirstOrder(first))
    BY DEF FirstOrder, Explained
  <2>5. DOMAIN orders = {1} /\ orders[1] = FirstOrder(first)
    BY <2>3
  <2>. QED
    BY <2>1, <2>2, <2>4, <2>5, InitTyped DEF Origins
<1>2. Typed /\ EngineRefused /\ Origins /\ [LiveNext]_liveVars
        => (Typed /\ EngineRefused /\ Origins)'
  BY NextTyped, EngineNext, NextOrigins
<1>. QED
  BY <1>1, <1>2, PTL DEF LiveSpec

\* No order with real money is placed by a script whose command line had no
\* --confirmed, the engine's child included.
THEOREM RealMoneyIsConfirmed == LiveSpec => []RealOrdersAreConfirmed
BY AlwaysOrigins, OriginsExplain, PTL

\* Every order a script placed on a MASTER account got past the role check in one
\* of the five ways that are named.
THEOREM MasterIsExplained == LiveSpec => []MasterOrdersExplained
BY AlwaysOrigins, OriginsExplain, PTL

-----------------------------------------------------------------------------
(* Changes of order 1.                                                     *)

\* What modify_order will send: what its command line gives, completed from the
\* order unless another change was applied since.
Intends(p) ==
  /\ pc[p] = "accounts" => req[p].script # "modify_order"
  /\ pc[p] \in {"open", "accounts", "original"} =>
       seen[p].price = req[p].price /\ seen[p].quantity = req[p].quantity
  /\ pc[p] = "submit" /\ req[p].script = "modify_order" /\ (ReadsOriginal(req[p]) => ~crossed) =>
       /\ seen[p].price = IF req[p].price = 0 THEN orders[1].price ELSE req[p].price
       /\ seen[p].quantity = IF req[p].quantity = 0 THEN orders[1].quantity ELSE req[p].quantity

Intentions == ModifyKeepsTheRest /\ \A p \in Procs : Intends(p)

\* The step leaves the price and the quantity of order 1.
SameTerms == orders'[1].price = orders[1].price /\ orders'[1].quantity = orders[1].quantity

LEMMA FillTerms == ASSUME DeskType, Fill PROVE SameTerms
BY OrderOne DEF Fill, SameTerms, DeskType, Order

LEMMA CancelTerms == ASSUME DeskType, NEW p \in Procs, BrokerCancels(p) PROVE SameTerms
<1>1. PICK hit : orders' = [i \in DOMAIN orders |->
        IF i \in hit THEN [orders[i] EXCEPT !.state = "cancelled"] ELSE orders[i]]
  BY DEF BrokerCancels
<1>2. \/ orders'[1] = [orders[1] EXCEPT !.state = "cancelled"]
      \/ orders'[1] = orders[1]
  BY <1>1, OrderOne
<1>3. \A o \in Order : [o EXCEPT !.state = "cancelled"].price = o.price
                       /\ [o EXCEPT !.state = "cancelled"].quantity = o.quantity
  BY DEF Order
<1>. QED
  BY <1>2, <1>3, OrderOne DEF SameTerms

LEMMA PlaceTerms == ASSUME ProcType, DeskType, NEW p \in Procs, BrokerPlaces(p) PROVE SameTerms
<1>1. PICK o : Placed(p, o) /\ orders' = orders \o <<o>>
  BY PlacesOrder
<1>2. orders \in Seq(Order) /\ o \in Order /\ 1 \in 1..Len(orders)
  BY <1>1, OrderOne DEF DeskType, Placed
<1>3. orders'[1] = orders[1]
  BY <1>1, <1>2, OneMore
<1>. QED
  BY <1>3 DEF SameTerms

LEMMA ModifyTerms ==
  ASSUME ProcType, DeskType, NEW p \in Procs, BrokerModifies(p)
  PROVE  orders'[1].price = seen[p].price /\ orders'[1].quantity = seen[p].quantity
<1>1. orders[1] \in Order /\ 1 \in DOMAIN orders
  BY OrderOne
<1>. QED
  BY <1>1 DEF BrokerModifies, DeskType, Order

\* Another invocation's step, when the terms of the order stay.
LEMMA IntendsStays ==
  ASSUME NEW p \in Procs, Intends(p), req' = req, pc'[p] = pc[p], seen'[p] = seen[p],
         crossed => crossed', SameTerms
  PROVE  Intends(p)'
BY DEF Intends, SameTerms

LEMMA ReplyIntends ==
  ASSUME NEW p \in Procs, pc'[p] \in {"args", "reply", "done"} PROVE Intends(p)'
BY DEF Intends

LEMMA OwnIntends ==
  ASSUME ProcType, DeskType, NEW p \in Procs, Intends(p), Quiet(p)
  PROVE  Intends(p)'
<1>0. req' = req /\ orders' = orders /\ crossed' = crossed
  BY QuietSteps
<1>1. CASE CheckArgs(p)
  <2>1. pc'[p] \in {"open", "done"}
    BY <1>1, FinishAt, GoAt DEF CheckArgs, Refusal
  <2>2. seen'[p].price = req[p].price /\ seen'[p].quantity = req[p].quantity
    BY <1>1 DEF CheckArgs, Refusal, ProcType
  <2>. QED
    BY <1>0, <2>1, <2>2 DEF Intends
<1>2. CASE Open(p)
  <2>1. pc[p] = "open" /\ seen' = seen
    BY <1>2 DEF Open, At
  <2>2. pc'[p] = "done" \/ pc'[p] = AfterOpen(req[p])
    BY <1>2, FinishAt, GoAt, RaisesAt DEF Open
  <2>3. pc'[p] = "submit" => ~ReadsOriginal(req[p])
    BY <2>2 DEF AfterOpen, ChecksAccounts, ReadsOriginal
  <2>4. pc'[p] = "submit" /\ req[p].script = "modify_order"
          => req[p].price # 0 /\ req[p].quantity # 0
    BY <2>3 DEF ReadsOriginal
  <2>5. pc'[p] = "accounts" => req[p].script # "modify_order"
    BY <2>2 DEF AfterOpen, ChecksAccounts
  <2>. QED
    BY <1>0, <2>1, <2>4, <2>5 DEF Intends
<1>3. CASE CheckAccounts(p)
  <2>1. pc[p] = "accounts" /\ seen' = seen
    BY <1>3 DEF CheckAccounts, At
  <2>2. pc'[p] \in {"done", "submit"}
    BY <1>3, FinishAt, GoAt, RaisesAt DEF CheckAccounts
  <2>. QED
    BY <1>0, <2>1, <2>2 DEF Intends
<1>4. CASE ReadOriginal(p)
  <2>1. pc[p] = "original"
    BY <1>4 DEF ReadOriginal, At
  <2>2. seen[p].price = req[p].price /\ seen[p].quantity = req[p].quantity
    BY <2>1 DEF Intends
  <2>3. CASE pc'[p] = "done"
    BY <2>3, ReplyIntends
  <2>4. CASE pc'[p] # "done"
    <3>1. seen' = [seen EXCEPT ![p] =
             [price |-> IF seen[p].price = 0 THEN orders[1].price ELSE seen[p].price,
              quantity |-> IF seen[p].quantity = 0 THEN orders[1].quantity ELSE seen[p].quantity]]
          /\ pc'[p] = "submit"
      BY <1>4, <2>4, FinishAt, GoAt, RaisesAt DEF ReadOriginal, ProcType
    <3>2. /\ seen'[p].price = IF req[p].price = 0 THEN orders[1].price ELSE req[p].price
          /\ seen'[p].quantity = IF req[p].quantity = 0 THEN orders[1].quantity ELSE req[p].quantity
      BY <2>2, <3>1 DEF ProcType
    <3>. QED
      BY <1>0, <3>1, <3>2 DEF Intends
  <2>. QED
    BY <2>3, <2>4
<1>5. CASE Reply(p) \/ Kill(p)
  <2>1. pc'[p] = "done"
    BY <1>5, FinishAt, RaisesAt DEF Reply, Kill
  <2>. QED
    BY <2>1, ReplyIntends
<1>. QED
  BY <1>1, <1>2, <1>3, <1>4, <1>5 DEF Quiet

LEMMA OthersSeen ==
  ASSUME ProcType, NEW p \in Procs, Step(p), NEW q \in Procs, q # p PROVE seen'[q] = seen[q]
BY DEF Step, CheckArgs, Refusal, Open, CheckAccounts, ReadOriginal, Submit, Reply, Kill, ProcType

LEMMA StepIntentions ==
  ASSUME ProcType, DeskType, Intentions, NEW p \in Procs, Step(p)
  PROVE  Intentions'
<1>0. req' = req /\ \A q \in Procs : Intends(q)
  BY RequestsStay DEF Intentions
<1>1. \A q \in Procs \ {p} : pc'[q] = pc[q] /\ seen'[q] = seen[q]
  BY Others, OthersSeen
<1>2. CASE Quiet(p)
  <2>1. orders' = orders /\ asked' = asked /\ crossed' = crossed
    BY <1>2, QuietSteps
  <2>2. SameTerms
    BY <2>1 DEF SameTerms
  <2>3. ASSUME NEW q \in Procs PROVE Intends(q)'
    BY <1>0, <1>1, <1>2, <2>1, <2>2, OwnIntends, IntendsStays
  <2>. QED
    BY <2>1, <2>3 DEF Intentions, ModifyKeepsTheRest
<1>3. CASE Submit(p)
  <2>0. pc'[p] = "reply" /\ pc[p] = "submit" /\ Intends(p)'
    BY <1>3, GoAt, ReplyIntends DEF Submit, At
  <2>1. CASE SameTerms /\ asked' = asked /\ crossed' = crossed
    <3>1. ASSUME NEW q \in Procs PROVE Intends(q)'
      BY <1>0, <1>1, <2>0, <2>1, IntendsStays
    <3>. QED
      BY <2>1, <3>1 DEF Intentions, ModifyKeepsTheRest, SameTerms
  <2>2. CASE BrokerModifies(p)
    <3>1. /\ orders'[1].price = seen[p].price /\ orders'[1].quantity = seen[p].quantity
          /\ req[p].script = "modify_order"
          /\ crossed' <=> (crossed \/ \E q \in Procs \ {p} : HoldsOldValues(q))
      BY <2>2, ModifyTerms DEF BrokerModifies
    <3>2. asked' = [price |-> IF req[p].price = 0 THEN asked.price ELSE req[p].price,
                    quantity |-> IF req[p].quantity = 0 THEN asked.quantity ELSE req[p].quantity]
      BY <2>2 DEF BrokerModifies
    <3>3. ModifyKeepsTheRest'
      <4> SUFFICES ASSUME ~crossed'
                   PROVE  orders'[1].price = asked'.price /\ orders'[1].quantity = asked'.quantity
        BY DEF ModifyKeepsTheRest
      <4>1. ~crossed /\ orders[1].price = asked.price /\ orders[1].quantity = asked.quantity
        BY <3>1 DEF Intentions, ModifyKeepsTheRest
      <4>2. /\ seen[p].price = IF req[p].price = 0 THEN orders[1].price ELSE req[p].price
            /\ seen[p].quantity = IF req[p].quantity = 0 THEN orders[1].quantity ELSE req[p].quantity
        BY <1>0, <2>0, <3>1, <4>1 DEF Intends
      <4>. QED
        BY <3>1, <3>2, <4>1, <4>2
    <3>4. ASSUME NEW q \in Procs, q # p PROVE Intends(q)'
      <4>1. pc'[q] = pc[q] /\ seen'[q] = seen[q] /\ Intends(q)
        BY <1>0, <1>1, <3>4
      <4>2. CASE pc[q] = "submit" /\ ReadsOriginal(req[q])
        <5>1. crossed'
          BY <3>1, <3>4, <4>2 DEF HoldsOldValues, At
        <5>. QED
          BY <1>0, <4>1, <4>2, <5>1 DEF Intends
      <4>3. CASE pc[q] = "submit" /\ req[q].script = "modify_order" /\ ~ReadsOriginal(req[q])
        <5>1. req[q].price # 0 /\ req[q].quantity # 0
          BY <4>3 DEF ReadsOriginal
        <5>. QED
          BY <1>0, <4>1, <4>3, <5>1 DEF Intends
      <4>4. CASE pc[q] # "submit" \/ req[q].script # "modify_order"
        BY <1>0, <4>1, <4>4 DEF Intends
      <4>. QED
        BY <4>2, <4>3, <4>4
    <3>. QED
      BY <2>0, <3>3, <3>4 DEF Intentions
  <2>3. BrokerModifies(p) \/ (SameTerms /\ asked' = asked /\ crossed' = crossed)
    <3>1. \/ BrokerPlaces(p) \/ BrokerModifies(p) \/ BrokerCancels(p)
          \/ orders' = orders /\ asked' = asked /\ crossed' = crossed
      BY <1>3 DEF Submit, BrokerActs
    <3>2. BrokerPlaces(p) \/ BrokerCancels(p) => asked' = asked /\ crossed' = crossed
      BY DEF BrokerPlaces, BrokerCancels
    <3>3. orders' = orders => SameTerms
      BY DEF SameTerms
    <3>. QED
      BY <3>1, <3>2, <3>3, PlaceTerms, CancelTerms
  <2>. QED
    BY <2>1, <2>2, <2>3
<1>. QED
  BY <1>2, <1>3 DEF Step, Quiet

LEMMA NextIntentions == Typed /\ Intentions /\ [LiveNext]_liveVars => Intentions'
<1> SUFFICES ASSUME Typed, Intentions, [LiveNext]_liveVars PROVE Intentions'
  OBVIOUS
<1>0. ProcType /\ DeskType /\ ModifyKeepsTheRest /\ \A q \in Procs : Intends(q)
  BY DEF Typed, Intentions
<1>1. CASE UNCHANGED vars
  <2>1. /\ req' = req /\ pc' = pc /\ seen' = seen /\ orders' = orders
        /\ asked' = asked /\ crossed' = crossed
    BY <1>1 DEF vars, procVars
  <2>. QED
    BY <1>0, <2>1 DEF Intentions, Intends, ModifyKeepsTheRest
<1>2. CASE Spawn
  <2>1. req' = req /\ orders' = orders /\ asked' = asked /\ crossed' = crossed /\ SameTerms
    BY <1>2 DEF Spawn, SameTerms
  <2>2. ASSUME NEW q \in Procs PROVE Intends(q)'
    <3>1. CASE q = Engine
      <4>1. pc'[q] = "args"
        BY <1>0, <1>2, <3>1 DEF Spawn, ProcType
      <4>. QED
        BY <4>1, ReplyIntends
    <3>2. CASE q # Engine
      <4>1. pc'[q] = pc[q] /\ seen'[q] = seen[q]
        BY <1>0, <1>2, <3>2 DEF Spawn, ProcType
      <4>. QED
        BY <1>0, <2>1, <4>1, IntendsStays
    <3>. QED
      BY <3>1, <3>2
  <2>. QED
    BY <1>0, <2>1, <2>2 DEF Intentions, ModifyKeepsTheRest
<1>3. CASE Fill
  <2>1. /\ req' = req /\ pc' = pc /\ seen' = seen /\ asked' = asked /\ crossed' = crossed
        /\ SameTerms
    BY <1>0, <1>3, FillTerms DEF Fill, procVars
  <2>2. \A q \in Procs : Intends(q)'
    BY <1>0, <2>1, IntendsStays
  <2>. QED
    BY <1>0, <2>1, <2>2 DEF Intentions, ModifyKeepsTheRest, SameTerms
<1>4. ASSUME NEW p \in Procs, Step(p) PROVE Intentions'
  BY <1>0, <1>4, StepIntentions
<1>. QED
  BY <1>1, <1>2, <1>3, <1>4 DEF LiveNext, SetTarget, SetFlat, SubmitReturns, liveVars

\* Changes of one order that do not cross keep what they were not asked to change.
THEOREM UncrossedChangesKeepTheRest == LiveSpec => []ModifyKeepsTheRest
<1>1. LiveInit => Typed /\ Intentions
  <2> SUFFICES ASSUME LiveInit PROVE Typed /\ Intentions
    OBVIOUS
  <2>1. \A p \in Procs : Intends(p)
    BY DEF LiveInit, Init, Intends
  <2>2. PICK first \in FirstOrders : orders = <<FirstOrder(first)>>
    BY DEF LiveInit, Init
  <2>3. orders[1].price = 1 /\ orders[1].quantity = 1
    BY <2>2 DEF FirstOrder
  <2>4. ModifyKeepsTheRest
    BY <2>3 DEF LiveInit, Init, ModifyKeepsTheRest
  <2>. QED
    BY <2>1, <2>4, InitTyped DEF Intentions
<1>2. Typed /\ Intentions /\ [LiveNext]_liveVars => (Typed /\ Intentions)'
  BY NextTyped, NextIntentions
<1>3. Intentions => ModifyKeepsTheRest
  BY DEF Intentions
<1>. QED
  BY <1>1, <1>2, <1>3, PTL DEF LiveSpec
=============================================================================
