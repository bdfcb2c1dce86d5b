------------------------ MODULE PredictionLink_proofs ------------------------
(***************************************************************************)
(* Proofs about PredictionLink: how many replies a connection still owes,  *)
(* and whose answer a row holds, for every number of candles, calls,       *)
(* attempts and backfill requests.                                         *)
(***************************************************************************)
EXTENDS PredictionLink, SequenceTheorems, TLAPS

-----------------------------------------------------------------------------
(* Types. *)

\* No client is at a candle that has not been stored yet, and the service
\* answers only what was asked.
TypeInv ==
  /\ TypeOK
  /\ \A c \in Clients : candle[c] <= latest /\ ready[c] <= Len(inflight[c])
  /\ todo <= latest

LEMMA InitType == Init => TypeInv
BY LinkAssumption, NoRowAssumption
DEF Init, TypeInv, TypeOK, Ts, Clients

\* What happens after a failed attempt is well typed, whichever it was.
LEMMA AttemptFailsType ==
  ASSUME TypeInv, NEW c \in Clients, AttemptFails(c), phase[c] \in {"send", "recv"}
  PROVE  /\ attempt' \in [Clients -> 0..Attempts]
         /\ phase' \in [Clients -> {"idle", "read", "rows", "next", "send", "recv", "persist"}]
         /\ phase'["scheduler"] \notin {"rows", "next"} /\ phase'["backfill"] # "read"
         /\ \A d \in Clients : d # c => phase'[d] = phase[d]
         /\ phase'[c] \in {"send", "idle", "next"}
<1>1. PICK p \in {"send", After(c)} : phase' = [phase EXCEPT ![c] = p]
  BY DEF AttemptFails
<1>2. p \in {"send", "idle", "next"} /\ (c = "scheduler" => p # "next")
  BY DEF After
<1>3. attempt' \in [Clients -> 0..Attempts]
  <2>1. Attempts \in Nat /\ attempt \in [Clients -> 0..Attempts]
    BY LinkAssumption DEF TypeInv, TypeOK
  <2>2. PICK n \in Int : attempt' = [attempt EXCEPT ![c] = n] /\ n \in 0..Attempts
    <3>1. CASE attempt[c] < Attempts
      BY <2>1, <3>1 DEF AttemptFails
    <3>2. CASE ~(attempt[c] < Attempts)
      BY <2>1, <3>2 DEF AttemptFails
    <3>. QED
      BY <3>1, <3>2
  <2>. QED
    BY <2>1, <2>2
<1>4. phase \in [Clients -> {"idle", "read", "rows", "next", "send", "recv", "persist"}]
  BY DEF TypeInv, TypeOK
<1>5. /\ phase["scheduler"] \notin {"rows", "next"} /\ phase["backfill"] # "read"
      /\ "scheduler" \in Clients /\ "backfill" \in Clients
  BY DEF TypeInv, TypeOK, Clients
<1>. QED
  BY <1>1, <1>2, <1>3, <1>4, <1>5

\* A step on one connection that leaves candles, windows and tables alone.
LEMMA ConnectionType ==
  ASSUME TypeInv, NEW c \in Clients, UNCHANGED <<tables, memory, work, bounds>>,
         attempt' \in [Clients -> 0..Attempts],
         inflight' \in [Clients -> Seq(Request)],
         ready' \in [Clients -> Nat], late' \in [Clients -> Nat],
         got' \in [Clients -> Reply \cup {NoRow}],
         phase' \in [Clients -> {"idle", "read", "rows", "next", "send", "recv", "persist"}],
         phase'["scheduler"] \notin {"rows", "next"}, phase'["backfill"] # "read",
         \A d \in Clients : ready'[d] <= Len(inflight'[d]),
         \A d \in Clients : d # c => phase'[d] = phase[d] /\ got'[d] = got[d],
         \/ UNCHANGED <<phase, got>>
         \/ phase'[c] \in {"idle", "next"}
         \/ candle[c] \in Ts /\ window[c] \in Ts /\ (phase'[c] # "persist" \/ got'[c] \in Reply)
  PROVE  TypeInv'
<1>1. UNCHANGED <<latest, predictions, last_processed_ts, existing, todo, candle, window, calls, runs>>
  BY DEF tables, memory, work, bounds
<1>2. \A d \in Clients :
        /\ phase'[d] \in {"read", "send", "recv", "persist"} => candle[d] \in Ts
        /\ phase'[d] \in {"send", "recv", "persist"} => window[d] \in Ts
        /\ phase'[d] = "persist" => got'[d] \in Reply
  BY DEF TypeInv, TypeOK
<1>3. TypeOK'
  BY <1>1, <1>2 DEF TypeInv, TypeOK
<1>4. (\A d \in Clients : candle[d] <= latest) /\ todo <= latest
  BY DEF TypeInv
<1>. QED
  BY <1>1, <1>3, <1>4 DEF TypeInv

LEMMA ConnTypes ==
  ASSUME TypeInv
  PROVE  /\ attempt \in [Clients -> 0..Attempts]
         /\ inflight \in [Clients -> Seq(Request)]
         /\ ready \in [Clients -> Nat] /\ late \in [Clients -> Nat]
         /\ got \in [Clients -> Reply \cup {NoRow}]
         /\ phase \in [Clients -> {"idle", "read", "rows", "next", "send", "recv", "persist"}]
         /\ phase["scheduler"] \notin {"rows", "next"} /\ phase["backfill"] # "read"
         /\ \A d \in Clients : ready[d] <= Len(inflight[d])
BY DEF TypeInv, TypeOK

LEMMA WellTypedReply ==
  ASSUME NEW r \in Request, NEW n \in Nat
  PROVE  [for |-> r.for, upto |-> r.upto, late |-> n] \in Reply
BY DEF Request, Reply

LEMMA SendType ==
  ASSUME TypeInv, NEW c \in Clients, Send(c) PROVE TypeInv'
<1>1. [for |-> candle[c], upto |-> window[c]] \in Request
  BY DEF Send, Request, TypeInv, TypeOK
<1>2. inflight' \in [Clients -> Seq(Request)]
  BY <1>1 DEF Send, TypeInv, TypeOK
<1>3. \A d \in Clients : ready[d] <= Len(inflight'[d])
  BY <1>1 DEF Send, TypeInv, TypeOK
<1>4. /\ phase' \in [Clients -> {"idle", "read", "rows", "next", "send", "recv", "persist"}]
      /\ phase'["scheduler"] \notin {"rows", "next"} /\ phase'["backfill"] # "read"
      /\ \A d \in Clients : d # c => phase'[d] = phase[d]
      /\ phase'[c] = "recv" /\ candle[c] \in Ts /\ window[c] \in Ts
  BY DEF Send, TypeInv, TypeOK, Clients
<1>5. /\ UNCHANGED <<tables, memory, work, bounds>>
      /\ attempt' = attempt /\ ready' = ready /\ late' = late /\ got' = got
  BY DEF Send
<1>. QED
  BY <1>2, <1>3, <1>4, <1>5, ConnTypes, ConnectionType

LEMMA TailType ==
  ASSUME TypeInv, NEW c \in Clients, phase[c] = "recv", ready[c] > 0
  PROVE  /\ OldestReply(c) \in Reply
         /\ Tail(inflight[c]) \in Seq(Request)
         /\ Len(Tail(inflight[c])) = Len(inflight[c]) - 1
<1>1. inflight[c] \in Seq(Request) /\ inflight[c] # <<>>
  BY DEF TypeInv, TypeOK
<1>2. /\ Head(inflight[c]) \in Request
      /\ Tail(inflight[c]) \in Seq(Request)
      /\ Len(Tail(inflight[c])) = Len(inflight[c]) - 1
  BY <1>1, HeadTailProperties
<1>3. late[c] \in Nat
  BY DEF TypeInv, TypeOK
<1>4. OldestReply(c) \in Reply
  BY <1>2, <1>3, WellTypedReply DEF OldestReply
<1>. QED
  BY <1>2, <1>4

LEMMA RecvType ==
  ASSUME TypeInv, NEW c \in Clients, Recv(c) PROVE TypeInv'
<1>1. inflight' \in [Clients -> Seq(Request)] /\ got' \in [Clients -> Reply \cup {NoRow}]
  BY TailType DEF Recv, TypeInv, TypeOK
<1>2. \A d \in Clients : ready'[d] \in Nat /\ ready'[d] <= Len(inflight'[d])
  <2>1. /\ inflight'[c] = Tail(inflight[c]) /\ ready'[c] = ready[c] - 1 /\ ready[c] > 0
        /\ \A d \in Clients : d # c => inflight'[d] = inflight[d] /\ ready'[d] = ready[d]
    BY ConnTypes DEF Recv
  <2>2. Len(inflight'[c]) = Len(inflight[c]) - 1 /\ Len(inflight[c]) \in Nat
    BY <2>1, ConnTypes, TailType DEF Recv
  <2>3. ready'[c] \in Nat /\ ready'[c] <= Len(inflight'[c])
    <3>1. ready[c] \in Nat /\ ready[c] <= Len(inflight[c])
      BY ConnTypes
    <3>. QED
      BY <2>1, <2>2, <3>1
  <2>4. \A d \in Clients : d # c => ready'[d] \in Nat /\ ready'[d] <= Len(inflight'[d])
    BY <2>1, ConnTypes
  <2>. QED
    BY <2>3, <2>4
<1>3. got'[c] \in Reply /\ candle[c] \in Ts /\ window[c] \in Ts
  BY TailType DEF Recv, TypeInv, TypeOK
<1>4. ready' \in [Clients -> Nat] /\ attempt' \in [Clients -> 0..Attempts]
  BY <1>2, LinkAssumption DEF Recv, TypeInv, TypeOK
<1>5. /\ phase' \in [Clients -> {"idle", "read", "rows", "next", "send", "recv", "persist"}]
      /\ phase'["scheduler"] \notin {"rows", "next"} /\ phase'["backfill"] # "read"
      /\ phase'[c] = "persist"
  BY DEF Recv, TypeInv, TypeOK, Clients
<1>6. \A d \in Clients : d # c => got'[d] = got[d] /\ phase'[d] = phase[d]
  BY DEF Recv, TypeInv, TypeOK
<1>7. /\ UNCHANGED <<tables, memory, work, bounds>>
      /\ late' = late
  BY DEF Recv
<1>. QED
  BY <1>1, <1>2, <1>3, <1>4, <1>5, <1>6, <1>7, ConnTypes, ConnectionType

LEMMA RecvErrorType ==
  ASSUME TypeInv, NEW c \in Clients, RecvError(c) PROVE TypeInv'
<1>0. /\ attempt' \in [Clients -> 0..Attempts]
      /\ phase' \in [Clients -> {"idle", "read", "rows", "next", "send", "recv", "persist"}]
      /\ phase'["scheduler"] \notin {"rows", "next"} /\ phase'["backfill"] # "read"
      /\ \A d \in Clients : d # c => phase'[d] = phase[d]
      /\ phase'[c] \in {"send", "idle", "next"}
  BY AttemptFailsType DEF RecvError, TypeInv, TypeOK
<1>1. inflight' \in [Clients -> Seq(Request)]
  BY TailType DEF RecvError, TypeInv, TypeOK
<1>2. \A d \in Clients : ready'[d] \in Nat /\ ready'[d] <= Len(inflight'[d])
  <2>1. /\ inflight'[c] = Tail(inflight[c]) /\ ready'[c] = ready[c] - 1 /\ ready[c] > 0
        /\ \A d \in Clients : d # c => inflight'[d] = inflight[d] /\ ready'[d] = ready[d]
    BY ConnTypes DEF RecvError
  <2>2. Len(inflight'[c]) = Len(inflight[c]) - 1 /\ Len(inflight[c]) \in Nat
    BY <2>1, ConnTypes, TailType DEF RecvError
  <2>3. ready'[c] \in Nat /\ ready'[c] <= Len(inflight'[c])
    <3>1. ready[c] \in Nat /\ ready[c] <= Len(inflight[c])
      BY ConnTypes
    <3>. QED
      BY <2>1, <2>2, <3>1
  <2>4. \A d \in Clients : d # c => ready'[d] \in Nat /\ ready'[d] <= Len(inflight'[d])
    BY <2>1, ConnTypes
  <2>. QED
    BY <2>3, <2>4
<1>3. candle[c] \in Ts /\ window[c] \in Ts
  BY DEF RecvError, TypeInv, TypeOK
<1>4. ready' \in [Clients -> Nat]
  BY <1>2 DEF RecvError, TypeInv, TypeOK
<1>5. /\ UNCHANGED <<tables, memory, work, bounds>>
      /\ late' = late /\ got' = got
  BY DEF RecvError
<1>. QED
  BY <1>0, <1>1, <1>2, <1>3, <1>4, <1>5, ConnTypes, ConnectionType

LEMMA TimeoutType ==
  ASSUME TypeInv, NEW c \in Clients, Timeout(c) PROVE TypeInv'
<1>0. /\ attempt' \in [Clients -> 0..Attempts]
      /\ phase' \in [Clients -> {"idle", "read", "rows", "next", "send", "recv", "persist"}]
      /\ phase'["scheduler"] \notin {"rows", "next"} /\ phase'["backfill"] # "read"
      /\ \A d \in Clients : d # c => phase'[d] = phase[d]
      /\ phase'[c] \in {"send", "idle", "next"}
  BY AttemptFailsType DEF Timeout, TypeInv, TypeOK
<1>1. /\ candle[c] \in Ts /\ window[c] \in Ts
      /\ late' \in [Clients -> Nat]
  BY DEF Timeout, TypeInv, TypeOK
<1>2. /\ UNCHANGED <<tables, memory, work, bounds>>
      /\ inflight' = inflight /\ ready' = ready /\ got' = got
  BY DEF Timeout
<1>. QED
  BY <1>0, <1>1, <1>2, ConnTypes, ConnectionType

LEMMA ServeType ==
  ASSUME TypeInv, NEW c \in Clients, Serve(c) PROVE TypeInv'
<1>1. Len(inflight[c]) \in Nat
  BY DEF TypeInv, TypeOK
<1>2. ready' \in [Clients -> Nat] /\ inflight' = inflight
  BY DEF Serve, TypeInv, TypeOK
<1>3. \A d \in Clients : ready'[d] <= Len(inflight[d])
  BY <1>1 DEF Serve, TypeInv, TypeOK
<1>4. /\ UNCHANGED <<tables, memory, work, bounds>>
      /\ phase' = phase /\ attempt' = attempt /\ late' = late /\ got' = got
  BY DEF Serve
<1>. QED
  BY <1>2, <1>3, <1>4, ConnTypes, ConnectionType

LEMMA ConnectionLostType ==
  ASSUME TypeInv, NEW c \in Clients, ConnectionLost(c) PROVE TypeInv'
<1>1. /\ inflight' \in [Clients -> Seq(Request)] /\ ready' \in [Clients -> Nat]
      /\ late' \in [Clients -> Nat] /\ got' \in [Clients -> Reply \cup {NoRow}]
      /\ \A d \in Clients : ready'[d] <= Len(inflight'[d])
      /\ got' = got
  BY ConnTypes DEF ConnectionLost
<1>2. UNCHANGED <<tables, memory, work, bounds>>
  BY DEF ConnectionLost
<1>3. CASE phase[c] = "recv"
  <2>1. AttemptFails(c) /\ candle[c] \in Ts /\ window[c] \in Ts
    BY <1>3 DEF ConnectionLost, TypeInv, TypeOK
  <2>2. /\ attempt' \in [Clients -> 0..Attempts]
        /\ phase' \in [Clients -> {"idle", "read", "rows", "next", "send", "recv", "persist"}]
        /\ phase'["scheduler"] \notin {"rows", "next"} /\ phase'["backfill"] # "read"
        /\ \A d \in Clients : d # c => phase'[d] = phase[d]
        /\ phase'[c] \in {"send", "idle", "next"}
    BY <1>3, <2>1, AttemptFailsType
  <2>. QED
    BY <1>1, <1>2, <2>1, <2>2, ConnectionType
<1>4. CASE phase[c] # "recv"
  <2>1. phase' = phase /\ attempt' = attempt
    BY <1>4 DEF ConnectionLost
  <2>. QED
    BY <1>1, <1>2, <2>1, ConnTypes, ConnectionType
<1>. QED
  BY <1>3, <1>4

LEMMA NextType == TypeInv /\ [Next]_vars => TypeInv'
<1> SUFFICES ASSUME TypeInv, [Next]_vars PROVE TypeInv'
  OBVIOUS
<1> USE LinkAssumption DEF TypeInv, TypeOK, Ts, Clients
<1>1. CASE NewCandle
  BY <1>1 DEF NewCandle, memory, work, conn, bounds
<1>2. CASE SchedulerCalls
  BY <1>2 DEF SchedulerCalls, tables, memory, conn
<1>3. CASE FetchCandles
  BY <1>3 DEF FetchCandles, tables, memory, conn, bounds
<1>4. CASE FetchFails
  BY <1>4 DEF FetchFails, tables, memory, work, conn, bounds
<1>5. CASE BackfillBegins
  BY <1>5 DEF BackfillBegins, tables, work, conn
<1>8. CASE BackfillReads
  BY <1>8 DEF BackfillReads, tables, bounds
<1>10. CASE BackfillFails
  BY <1>10 DEF BackfillFails, tables, memory, work, conn, bounds
<1>6. ASSUME NEW t \in Ts, BackfillCalls(t) PROVE TypeInv'
  BY <1>6 DEF BackfillCalls, tables, memory, conn, bounds
<1>7. CASE BackfillEnds
  BY <1>7 DEF BackfillEnds, tables, memory, work, conn, bounds
<1>9. ASSUME NEW c \in Clients, SendFails(c) PROVE TypeInv'
  BY <1>9, AttemptFailsType DEF SendFails, tables, memory, work, conn, bounds
<1>16. ASSUME NEW c \in Clients, Persist(c) PROVE TypeInv'
  <2>1. got[c] \in Reply /\ candle[c] \in Ts
    BY <1>16 DEF Persist
  <2>2. NewRow(c) \in Row
    BY <2>1 DEF NewRow, Reply, Row
  <2>. QED
    BY <1>16, <2>1, <2>2 DEF Persist, insert_equity_prediction, After, conn, work, bounds
<1>17. ASSUME NEW c \in Clients, PersistFails(c) PROVE TypeInv'
  BY <1>17 DEF PersistFails, After, tables, memory, work, conn, bounds
<1>18. CASE UNCHANGED vars
  BY <1>18 DEF vars, tables, memory, work, conn, bounds
<1>. QED
  BY <1>1, <1>2, <1>3, <1>4, <1>5, <1>6, <1>7, <1>8, <1>9, <1>10, <1>16, <1>17, <1>18,
     ConnectionLostType, SendType, RecvType, RecvErrorType, TimeoutType, ServeType
  DEF Next, Client, Bridge, Backfill

\* Every state of the link is well typed: a call counts at most its attempts, a
\* row names stored candles, and only requests are on a connection.
THEOREM TypeCorrect == Spec => []TypeOK
<1>1. TypeInv => TypeOK
  BY DEF TypeInv
<1>. QED
  BY InitType, NextType, <1>1, PTL DEF Spec
-----------------------------------------------------------------------------
(* Whose answer a reply is. *)

\* A connection owes one reply for each attempt given up and the one waited
\* for; what is on it was asked for no newer candle; the newest request is the
\* one waited for; a reply read with nothing owed answers its own candle.
ClientInv(c) ==
  /\ Len(inflight[c]) = late[c] + (IF phase[c] = "recv" THEN 1 ELSE 0)
  /\ \A i \in 1..Len(inflight[c]) :
       /\ inflight[c][i].for <= candle[c]
       /\ c = "backfill" => inflight[c][i].upto <= inflight[c][i].for
  /\ phase[c] = "recv" => inflight[c][Len(inflight[c])].for = candle[c]
  /\ c = "backfill" /\ phase[c] \in {"send", "recv"} => window[c] = candle[c]
  /\ phase[c] = "persist" =>
       /\ got[c].for <= candle[c]
       /\ got[c].late = 0 => got[c].for = candle[c]
       /\ c = "backfill" => got[c].upto <= got[c].for

LinkInv ==
  /\ TypeInv
  /\ \A c \in Clients : ClientInv(c)
  /\ OnTimeRowsAreOwn
  /\ NoLookAhead

LEMMA InitLink == Init => LinkInv
<1> SUFFICES ASSUME Init PROVE LinkInv
  OBVIOUS
<1>1. TypeInv
  BY InitType
<1>2. ASSUME NEW c \in Clients PROVE ClientInv(c)
  BY DEF Init, ClientInv
<1>3. OnTimeRowsAreOwn /\ NoLookAhead
  BY DEF Init, OnTimeRowsAreOwn, NoLookAhead
<1>. QED
  BY <1>1, <1>2, <1>3 DEF LinkInv

\* A step that leaves a client alone keeps its part of the invariant.
LEMMA Untouched ==
  ASSUME NEW c \in Clients, ClientInv(c),
         phase'[c] = phase[c], candle'[c] = candle[c], window'[c] = window[c],
         inflight'[c] = inflight[c], late'[c] = late[c], got'[c] = got[c]
  PROVE  ClientInv(c)'
BY DEF ClientInv

\* A step that writes no row keeps what is said of the rows.
LEMMA RowsUntouched ==
  ASSUME OnTimeRowsAreOwn, NoLookAhead, predictions' = predictions
  PROVE  OnTimeRowsAreOwn' /\ NoLookAhead'
BY DEF OnTimeRowsAreOwn, NoLookAhead

\* A client that does not wait, before and after the step, and may have moved
\* to a newer candle.
LEMMA NotWaiting ==
  ASSUME NEW c \in Clients, TypeInv, ClientInv(c), phase[c] # "recv",
         phase'[c] \in {"idle", "read", "rows", "next", "send"},
         c = "backfill" /\ phase'[c] = "send" => window'[c] = candle'[c],
         candle'[c] \in Nat, candle[c] <= candle'[c],
         inflight'[c] = inflight[c], late'[c] = late[c]
  PROVE  ClientInv(c)'
<1>1. \A i \in 1..Len(inflight[c]) : inflight[c][i] \in Request
  BY DEF TypeInv, TypeOK
<1>2. \A i \in 1..Len(inflight[c]) : inflight[c][i].for \in Nat
  BY <1>1 DEF Request, Ts
<1>3. candle[c] \in Nat
  BY DEF TypeInv, TypeOK
<1>. QED
  BY <1>2, <1>3 DEF ClientInv

\* Reading the oldest reply: what it answers and what is left.
LEMMA OldestRead ==
  ASSUME NEW c \in Clients, TypeInv, ClientInv(c), phase[c] = "recv", ready[c] > 0
  PROVE  /\ Len(Tail(inflight[c])) = late[c]
         /\ \A i \in 1..Len(Tail(inflight[c])) :
              /\ Tail(inflight[c])[i].for <= candle[c]
              /\ c = "backfill" => Tail(inflight[c])[i].upto <= Tail(inflight[c])[i].for
         /\ Head(inflight[c]).for <= candle[c]
         /\ late[c] = 0 => Head(inflight[c]).for = candle[c]
         /\ c = "backfill" => Head(inflight[c]).upto <= Head(inflight[c]).for
<1>1. inflight[c] \in Seq(Request) /\ inflight[c] # <<>> /\ late[c] \in Nat
  BY DEF TypeInv, TypeOK
<1>2. Len(inflight[c]) = late[c] + 1
  BY DEF ClientInv
<1>3. Head(inflight[c]) = inflight[c][1]
  BY <1>1
<1>4. /\ Len(Tail(inflight[c])) = Len(inflight[c]) - 1
      /\ \A i \in 1..Len(Tail(inflight[c])) : Tail(inflight[c])[i] = inflight[c][i + 1]
  BY <1>1, HeadTailProperties
<1>5. 1 \in 1..Len(inflight[c])
      /\ \A i \in 1..Len(Tail(inflight[c])) : i + 1 \in 1..Len(inflight[c])
  BY <1>1, <1>2, <1>4
<1>6. late[c] = 0 => Head(inflight[c]).for = candle[c]
  BY <1>1, <1>2, <1>3 DEF ClientInv
<1>7. Len(Tail(inflight[c])) = late[c]
  BY <1>1, <1>2, <1>4
<1>8. \A i \in 1..Len(inflight[c]) :
        /\ inflight[c][i].for <= candle[c]
        /\ c = "backfill" => inflight[c][i].upto <= inflight[c][i].for
  BY DEF ClientInv
<1>. QED
  BY <1>3, <1>4, <1>5, <1>6, <1>7, <1>8

\* A client after an attempt has ended, owed as many replies as it gave up.
LEMMA AttemptOver ==
  ASSUME NEW c \in Clients, ClientInv(c), phase[c] = "recv",
         phase'[c] \in {"send", "idle", "next"},
         candle'[c] = candle[c], window'[c] = window[c],
         late'[c] \in Nat, Len(inflight'[c]) = late'[c],
         \A i \in 1..Len(inflight'[c]) :
           /\ inflight'[c][i].for <= candle[c]
           /\ c = "backfill" => inflight'[c][i].upto <= inflight'[c][i].for
  PROVE  ClientInv(c)'
BY DEF ClientInv

\* A client that waits for nothing and whose connection is lost.
LEMMA DroppedInv ==
  ASSUME NEW c \in Clients, ClientInv(c), phase[c] # "recv", phase'[c] = phase[c],
         candle' = candle, window' = window, got' = got, late'[c] = 0,
         Len(inflight'[c]) = 0, 1..Len(inflight'[c]) = {}
  PROVE  ClientInv(c)'
BY DEF ClientInv

\* A client after it has read a reply.
LEMMA ReadInv ==
  ASSUME NEW c \in Clients, phase'[c] = "persist", late'[c] = late[c], late[c] \in Nat,
         candle'[c] = candle[c], Len(inflight'[c]) = late[c],
         \A i \in 1..Len(inflight'[c]) :
           /\ inflight'[c][i].for <= candle[c]
           /\ c = "backfill" => inflight'[c][i].upto <= inflight'[c][i].for,
         got'[c].late = late[c], got'[c].for <= candle[c],
         late[c] = 0 => got'[c].for = candle[c],
         c = "backfill" => got'[c].upto <= got'[c].for
  PROVE  ClientInv(c)'
BY DEF ClientInv

\* A client after a send, waiting for the request it has just appended.
LEMMA SentInv ==
  ASSUME NEW c \in Clients, NEW n \in Nat, NEW r,
         late[c] = n, late' = late, candle' = candle, window' = window,
         candle[c] \in Nat, phase'[c] = "recv",
         Len(inflight'[c]) = n + 1,
         \A i \in 1..n : inflight'[c][i] = inflight[c][i],
         inflight'[c][n + 1] = r, r.for = candle[c], r.upto = window[c],
         c = "backfill" => window[c] = candle[c],
         \A i \in 1..n :
           /\ inflight[c][i].for <= candle[c]
           /\ c = "backfill" => inflight[c][i].upto <= inflight[c][i].for
  PROVE  ClientInv(c)'
<1>1. \A i \in 1..(n + 1) : i \in 1..n \/ i = n + 1
  OBVIOUS
<1>2. \A i \in 1..Len(inflight'[c]) :
        /\ inflight'[c][i].for <= candle[c]
        /\ c = "backfill" => inflight'[c][i].upto <= inflight'[c][i].for
  BY <1>1
<1>. QED
  BY <1>2 DEF ClientInv

\* What a client that is about to send has.
LEMMA AboutToSend ==
  ASSUME TypeInv, NEW c \in Clients, ClientInv(c), phase[c] = "send"
  PROVE  /\ window[c] \in Nat
         /\ c = "backfill" => window[c] = candle[c]
<1>1. window[c] \in Nat
  BY DEF TypeInv, TypeOK
<1>. QED
  BY <1>1 DEF ClientInv

\* The part of one client, by the action that touches it.
LEMMA ClientStep ==
  ASSUME TypeInv, \A d \in Clients : ClientInv(d), NEW c \in Clients, [Next]_vars
  PROVE  ClientInv(c)'
<1>0. /\ ClientInv(c) /\ late[c] \in Nat /\ candle[c] \in Nat
      /\ inflight[c] \in Seq(Request) /\ Len(inflight[c]) \in Nat
  BY DEF TypeInv, TypeOK
<1> USE DEF TypeInv, TypeOK, Clients
<1>1. CASE NewCandle
  BY <1>1, Untouched DEF NewCandle, work, conn
<1>2. CASE SchedulerCalls
  <2>1. CASE c = "scheduler"
    BY <1>2, <2>1, NotWaiting DEF SchedulerCalls, conn
  <2>. QED
    BY <1>2, <2>1, Untouched DEF SchedulerCalls, conn
<1>3. CASE FetchCandles
  <2>1. CASE c = "scheduler"
    BY <1>3, <2>1, NotWaiting DEF FetchCandles, conn
  <2>. QED
    BY <1>3, <2>1, Untouched DEF FetchCandles, conn
<1>4. CASE FetchFails
  <2>1. CASE c = "scheduler"
    BY <1>4, <2>1, NotWaiting DEF FetchFails, work, conn
  <2>. QED
    BY <1>4, <2>1, Untouched DEF FetchFails, work, conn
<1>5. CASE BackfillBegins \/ BackfillFails
  <2>1. CASE c = "backfill"
    <3>1. /\ phase' = [phase EXCEPT !["backfill"] = phase'["backfill"]]
          /\ phase'["backfill"] \in {"rows", "idle"} /\ phase["backfill"] \in {"rows", "idle"}
          /\ UNCHANGED <<work, conn>>
      BY <1>5 DEF BackfillBegins, BackfillFails
    <3>. QED
      BY <2>1, <3>1, NotWaiting DEF work, conn
  <2>. QED
    BY <1>5, <2>1, Untouched DEF BackfillBegins, BackfillFails, work, conn
<1>17. CASE BackfillReads
  <2>1. CASE c = "backfill"
    BY <1>17, <2>1 DEF BackfillReads, ClientInv
  <2>. QED
    BY <1>17, <2>1, Untouched DEF BackfillReads
<1>6. ASSUME NEW t \in Ts, BackfillCalls(t) PROVE ClientInv(c)'
  <2>1. CASE c = "backfill"
    <3>1. t \in Nat /\ candle[c] <= t
      BY <1>6, <2>1 DEF BackfillCalls, Ts
    <3>. QED
      BY <1>6, <2>1, <3>1, NotWaiting DEF BackfillCalls, conn
  <2>. QED
    BY <1>6, <2>1, Untouched DEF BackfillCalls, conn
<1>7. CASE BackfillEnds
  <2>1. CASE c = "backfill"
    BY <1>7, <2>1, NotWaiting DEF BackfillEnds, work, conn
  <2>. QED
    BY <1>7, <2>1, Untouched DEF BackfillEnds, work, conn
<1>8. ASSUME NEW d \in Clients, Send(d) PROVE ClientInv(c)'
  <2>1. CASE c = d
    <3> DEFINE r == [for |-> candle[c], upto |-> window[c]]
    <3>1. r \in Request /\ inflight[c] \in Seq(Request)
      BY <1>8, <2>1 DEF Send, Request
    <3>2. /\ inflight'[c] = Append(inflight[c], r) /\ phase'[c] = "recv"
          /\ candle' = candle /\ window' = window /\ late' = late
      BY <1>8, <2>1 DEF Send, work
    <3>3. /\ Len(inflight'[c]) = Len(inflight[c]) + 1
          /\ \A i \in 1..Len(inflight[c]) : inflight'[c][i] = inflight[c][i]
          /\ inflight'[c][Len(inflight[c]) + 1] = r
      <4> HIDE DEF r
      <4>1. /\ Len(Append(inflight[c], r)) = Len(inflight[c]) + 1
            /\ \A i \in 1..Len(inflight[c]) : Append(inflight[c], r)[i] = inflight[c][i]
            /\ Append(inflight[c], r)[Len(inflight[c]) + 1] = r
        BY <3>1, AppendProperties
      <4>. QED
        BY <3>2, <4>1
    <3>4. phase[c] = "send"
      BY <1>8, <2>1 DEF Send
    <3>5. Len(inflight[c]) = late[c]
      BY <1>0, <3>4 DEF ClientInv
    <3>6. /\ r.for = candle[c] /\ r.upto = window[c]
          /\ window[c] \in Nat
          /\ c = "backfill" => window[c] = candle[c]
      BY <1>0, <3>4, AboutToSend
    <3> HIDE DEF r
    <3>7. \A i \in 1..Len(inflight[c]) :
            /\ inflight[c][i].for <= candle[c]
            /\ c = "backfill" => inflight[c][i].upto <= inflight[c][i].for
      BY <1>0 DEF ClientInv
    <3>. QED
      BY <1>0, <3>2, <3>3, <3>5, <3>6, <3>7, SentInv
  <2>. QED
    BY <1>8, <2>1, Untouched DEF Send, work
<1>9. ASSUME NEW d \in Clients, SendFails(d) PROVE ClientInv(c)'
  <2>1. CASE c = d
    <3>0. phase[c] = "send" /\ AttemptFails(c)
      BY <1>9, <2>1 DEF SendFails
    <3>1. phase'[c] \in {"send", "idle", "next"} /\ candle[c] \in Nat
      BY <1>0, <3>0, AttemptFailsType
    <3>2. UNCHANGED <<candle, window, inflight, late>>
      BY <1>9 DEF SendFails, work, conn
    <3>3. c = "backfill" => window[c] = candle[c]
      BY <1>0, <3>0, AboutToSend
    <3>4. /\ TypeInv /\ ClientInv(c)
          /\ phase[c] # "recv" /\ phase'[c] \in {"idle", "read", "next", "send"}
      BY <1>0, <3>0, <3>1
    <3>5. /\ candle'[c] \in Nat /\ candle[c] <= candle'[c]
          /\ inflight'[c] = inflight[c] /\ late'[c] = late[c]
          /\ c = "backfill" /\ phase'[c] = "send" => window'[c] = candle'[c]
      BY <3>1, <3>2, <3>3
    <3>. QED
      BY <3>4, <3>5, NotWaiting
  <2>2. CASE c # d
    <3>1. phase'[c] = phase[c]
      BY <1>9, <2>2, AttemptFailsType DEF SendFails
    <3>. QED
      BY <1>9, <3>1, Untouched DEF SendFails, work, conn
  <2>. QED
    BY <2>1, <2>2
<1>10. ASSUME NEW d \in Clients, Recv(d) PROVE ClientInv(c)'
  <2>1. CASE c = d
    <3>1. /\ phase[c] = "recv" /\ ready[c] > 0
          /\ inflight'[c] = Tail(inflight[c]) /\ phase'[c] = "persist"
          /\ candle' = candle /\ window' = window /\ late' = late
          /\ got'[c] = OldestReply(c)
      BY <1>10, <2>1 DEF Recv, work
    <3>0. Len(Tail(inflight[c])) = late[c]
      BY <1>0, <3>1, OldestRead
    <3>2. got'[c].for = Head(inflight[c]).for /\ got'[c].upto = Head(inflight[c]).upto
          /\ got'[c].late = late[c]
      BY <3>1 DEF OldestReply
    <3>3. /\ Head(inflight[c]).for <= candle[c]
          /\ late[c] = 0 => Head(inflight[c]).for = candle[c]
          /\ c = "backfill" => Head(inflight[c]).upto <= Head(inflight[c]).for
          /\ \A i \in 1..Len(Tail(inflight[c])) :
               /\ Tail(inflight[c])[i].for <= candle[c]
               /\ c = "backfill" => Tail(inflight[c])[i].upto <= Tail(inflight[c])[i].for
      BY <1>0, <3>1, OldestRead
    <3>. QED
      BY <1>0, <3>0, <3>1, <3>2, <3>3, ReadInv
  <2>. QED
    BY <1>10, <2>1, Untouched DEF Recv, work
<1>11. ASSUME NEW d \in Clients, RecvError(d) PROVE ClientInv(c)'
  <2>1. CASE c = d
    <3>1. /\ phase[c] = "recv" /\ ready[c] > 0
          /\ inflight'[c] = Tail(inflight[c]) /\ phase'[c] \in {"send", "idle", "next"}
          /\ candle' = candle /\ window' = window /\ late' = late
      BY <1>11, <2>1, AttemptFailsType DEF RecvError, work
    <3>2. /\ Len(Tail(inflight[c])) = late[c]
          /\ \A i \in 1..Len(Tail(inflight[c])) :
               /\ Tail(inflight[c])[i].for <= candle[c]
               /\ c = "backfill" => Tail(inflight[c])[i].upto <= Tail(inflight[c])[i].for
      BY <1>0, <3>1, OldestRead
    <3>. QED
      BY <1>0, <3>1, <3>2, AttemptOver
  <2>2. CASE c # d
    <3>1. phase'[c] = phase[c]
      BY <1>11, <2>2, AttemptFailsType DEF RecvError
    <3>. QED
      BY <1>11, <2>2, <3>1, Untouched DEF RecvError, work
  <2>. QED
    BY <2>1, <2>2
<1>12. ASSUME NEW d \in Clients, Timeout(d) PROVE ClientInv(c)'
  <2>1. CASE c = d
    <3>1. /\ phase[c] = "recv" /\ phase'[c] \in {"send", "idle", "next"}
          /\ candle' = candle /\ window' = window /\ inflight' = inflight
          /\ late'[c] = late[c] + 1
      BY <1>12, <2>1, AttemptFailsType DEF Timeout, work
    <3>2. /\ Len(inflight[c]) = late[c] + 1
          /\ \A i \in 1..Len(inflight[c]) :
               /\ inflight[c][i].for <= candle[c]
               /\ c = "backfill" => inflight[c][i].upto <= inflight[c][i].for
      BY <1>0, <3>1 DEF ClientInv
    <3>. QED
      BY <1>0, <3>1, <3>2, AttemptOver
  <2>2. CASE c # d
    <3>1. phase'[c] = phase[c]
      BY <1>12, <2>2, AttemptFailsType DEF Timeout
    <3>. QED
      BY <1>12, <2>2, <3>1, Untouched DEF Timeout, work
  <2>. QED
    BY <2>1, <2>2
<1>13. ASSUME NEW d \in Clients, Serve(d) PROVE ClientInv(c)'
  BY <1>13, Untouched DEF Serve, work
<1>14. ASSUME NEW d \in Clients, ConnectionLost(d) PROVE ClientInv(c)'
  <2>1. CASE c = d
    <3>1. /\ inflight'[c] = <<>> /\ late'[c] = 0
          /\ candle' = candle /\ window' = window /\ got' = got
          /\ phase[c] = "recv" => phase'[c] \in {"send", "idle", "next"}
          /\ phase[c] # "recv" => phase'[c] = phase[c]
      BY <1>14, <2>1, AttemptFailsType DEF ConnectionLost, work
    <3>2. Len(inflight'[c]) = 0 /\ 1..Len(inflight'[c]) = {}
      BY <3>1
    <3>3. CASE phase[c] = "recv"
      <4>1. phase'[c] \in {"send", "idle", "next"} /\ late'[c] \in Nat
            /\ Len(inflight'[c]) = late'[c]
        BY <3>1, <3>2, <3>3
      <4>2. \A i \in 1..Len(inflight'[c]) :
              /\ inflight'[c][i].for <= candle[c]
              /\ c = "backfill" => inflight'[c][i].upto <= inflight'[c][i].for
        BY <3>2
      <4>. QED
        BY <1>0, <3>1, <3>3, <4>1, <4>2, AttemptOver
    <3>4. CASE phase[c] # "recv"
      <4>1. phase'[c] = phase[c] /\ got' = got /\ late'[c] = 0
        BY <3>1, <3>4
      <4>. QED
        BY <1>0, <3>1, <3>2, <3>4, <4>1, DroppedInv
    <3>. QED
      BY <3>3, <3>4
  <2>2. CASE c # d
    <3>1. phase'[c] = phase[c]
      BY <1>14, <2>2, AttemptFailsType DEF ConnectionLost
    <3>. QED
      BY <1>14, <2>2, <3>1, Untouched DEF ConnectionLost, work
  <2>. QED
    BY <2>1, <2>2
<1>15. ASSUME NEW d \in Clients, Persist(d) \/ PersistFails(d) PROVE ClientInv(c)'
  <2>1. /\ phase[d] = "persist" /\ phase' = [phase EXCEPT ![d] = After(d)]
        /\ got' = [got EXCEPT ![d] = NoRow]
        /\ UNCHANGED <<candle, window, inflight, late>>
    BY <1>15 DEF Persist, PersistFails, work, conn
  <2>2. CASE c = d
    <3>1. phase'[c] \in {"idle", "next"} /\ candle[c] \in Nat
      BY <2>1, <2>2 DEF After
    <3>. QED
      BY <2>1, <2>2, <3>1, NotWaiting
  <2>. QED
    BY <2>1, <2>2, Untouched
<1>16. CASE UNCHANGED vars
  BY <1>16, Untouched DEF vars, work, conn
<1>. QED
  BY <1>1, <1>2, <1>3, <1>4, <1>5, <1>6, <1>7, <1>8, <1>9, <1>10, <1>11, <1>12, <1>13,
     <1>14, <1>15, <1>16, <1>17
  DEF Next, Client, Bridge, Backfill

\* Only Persist writes a row, and the row is what the client has read.
LEMMA RowStep ==
  ASSUME TypeInv, \A d \in Clients : ClientInv(d), OnTimeRowsAreOwn, NoLookAhead, [Next]_vars
  PROVE  OnTimeRowsAreOwn' /\ NoLookAhead'
<1>1. ASSUME NEW d \in Clients, Persist(d) PROVE OnTimeRowsAreOwn' /\ NoLookAhead'
  <2>1. /\ candle[d] \in Ts /\ got[d] \in Reply
        /\ got[d].for <= candle[d]
        /\ got[d].late = 0 => got[d].for = candle[d]
        /\ d = "backfill" => got[d].upto <= got[d].for
    BY <1>1 DEF Persist, TypeInv, TypeOK, ClientInv
  <2>2. /\ got[d].for \in Nat /\ got[d].upto \in Nat /\ candle[d] \in Nat
    BY <2>1 DEF Reply, Ts
  <2>3. /\ NewRow(d).for = got[d].for /\ NewRow(d).upto = got[d].upto
        /\ NewRow(d).late = got[d].late /\ NewRow(d).by = d
    BY DEF NewRow
  <2>4. d = "backfill" => got[d].upto <= candle[d]
    BY <2>1, <2>2
  <2>5. /\ predictions \in [Ts -> Row \cup {NoRow}]
        /\ predictions' = [predictions EXCEPT ![candle[d]] = NewRow(d)]
    BY <1>1 DEF Persist, insert_equity_prediction, TypeInv, TypeOK
  <2>6. \A t \in Ts : predictions'[t] = IF t = candle[d] THEN NewRow(d) ELSE predictions[t]
    BY <2>5
  <2>7. OnTimeRowsAreOwn'
    BY <2>1, <2>3, <2>6 DEF OnTimeRowsAreOwn
  <2>8. NoLookAhead'
    BY <2>1, <2>3, <2>4, <2>6 DEF NoLookAhead
  <2>. QED
    BY <2>7, <2>8
<1>2. ASSUME ~ \E d \in Clients : Persist(d) PROVE predictions' = predictions
  BY <1>2
  DEF Next, vars, Client, Bridge, Backfill, NewCandle, SchedulerCalls, FetchCandles, FetchFails,
      BackfillBegins, BackfillReads, BackfillFails, BackfillCalls, BackfillEnds, Send, SendFails, Recv, RecvError, Timeout,
      Serve, ConnectionLost, PersistFails, tables
<1>. QED
  BY <1>1, <1>2, RowsUntouched

LEMMA NextLink == LinkInv /\ [Next]_vars => LinkInv'
<1> SUFFICES ASSUME LinkInv, [Next]_vars PROVE LinkInv'
  OBVIOUS
<1>1. TypeInv'
  BY NextType DEF LinkInv
<1>2. \A c \in Clients : ClientInv(c)'
  BY ClientStep DEF LinkInv
<1>3. OnTimeRowsAreOwn' /\ NoLookAhead'
  BY RowStep DEF LinkInv
<1>. QED
  BY <1>1, <1>2, <1>3 DEF LinkInv

LEMMA LinkAlways == Spec => []LinkInv
BY InitLink, NextLink, PTL DEF Spec

\* However calls fail, are retried, time out or lose their connection, a
\* connection owes exactly the replies of the attempts given up after the send
\* and the one that predict_v3 is waiting for.
THEOREM Backlog == Spec => []BacklogIsTimeouts
<1>1. LinkInv => BacklogIsTimeouts
  BY DEF LinkInv, TypeInv, ClientInv, BacklogIsTimeouts
<1>. QED
  BY LinkAlways, <1>1, PTL

\* A stored prediction that was read when no attempt of its connection had timed
\* out is the answer to a request of its own candle.
THEOREM OnTimeIsOwn == Spec => []OnTimeRowsAreOwn
<1>1. LinkInv => OnTimeRowsAreOwn
  BY DEF LinkInv
<1>. QED
  BY LinkAlways, <1>1, PTL

\* No stored prediction answers a request of a later candle, and none of the
\* backfill has seen a candle after its own.
THEOREM NothingLooksAhead == Spec => []NoLookAhead
<1>1. LinkInv => NoLookAhead
  BY DEF LinkInv
<1>. QED
  BY LinkAlways, <1>1, PTL
-----------------------------------------------------------------------------
(* The marks. *)

\* The candle of a call of the scheduler is newer than the one marked.
MarkInv ==
  /\ last_processed_ts <= latest
  /\ phase["scheduler"] \in {"read", "send", "recv", "persist"} =>
       last_processed_ts < candle["scheduler"]

\* A step that marks nothing and moves the scheduler on only within its call.
LEMMA SameCall ==
  ASSUME TypeInv, MarkInv, last_processed_ts' = last_processed_ts,
         latest' = latest \/ latest' = latest + 1,
         candle'["scheduler"] = candle["scheduler"],
         phase["scheduler"] = "idle" => phase'["scheduler"] = "idle"
  PROVE  MarkInv'
<1>1. latest \in Nat /\ last_processed_ts \in Nat
  BY LinkAssumption DEF TypeInv, TypeOK
<1>2. phase["scheduler"] \in {"idle", "read", "send", "recv", "persist"}
  BY DEF TypeInv, TypeOK, Clients
<1>3. last_processed_ts <= latest'
  BY <1>1 DEF MarkInv
<1>. QED
  BY <1>2, <1>3 DEF MarkInv

LEMMA MarkStep == TypeInv /\ MarkInv /\ [Next]_vars => MarkInv'
<1> SUFFICES ASSUME TypeInv, MarkInv, [Next]_vars PROVE MarkInv'
  OBVIOUS
<1>0. /\ phase \in [Clients -> {"idle", "read", "rows", "next", "send", "recv", "persist"}]
      /\ candle \in [Clients -> 0..MaxTs]
      /\ "scheduler" \in Clients /\ "backfill" \in Clients
      /\ latest \in Nat /\ last_processed_ts \in Nat
  BY LinkAssumption DEF TypeInv, TypeOK, Clients
<1> USE DEF tables, memory, work
<1>1. CASE NewCandle
  BY <1>1, SameCall DEF NewCandle
<1>2. CASE SchedulerCalls
  <2>1. candle'["scheduler"] = latest /\ last_processed_ts' = last_processed_ts /\ latest' = latest
    BY <1>0, <1>2 DEF SchedulerCalls
  <2>2. last_processed_ts < latest
    BY <1>0, <1>2 DEF SchedulerCalls
  <2>. QED
    BY <1>0, <2>1, <2>2 DEF MarkInv
<1>3. CASE FetchCandles \/ FetchFails
  BY <1>0, <1>3, SameCall DEF FetchCandles, FetchFails
<1>4. CASE BackfillBegins
  BY <1>0, <1>4, SameCall DEF BackfillBegins
<1>5. CASE Backfill
  BY <1>0, <1>5, SameCall DEF Backfill, BackfillReads, BackfillFails, BackfillEnds, BackfillCalls
<1>6. ASSUME NEW c \in Clients, Bridge(c) PROVE MarkInv'
  <2>1. phase[c] \in {"send", "recv"} /\ UNCHANGED <<tables, memory, work>>
    BY <1>6 DEF Bridge, Send, SendFails, Recv, RecvError, Timeout
  <2>2. \A d \in Clients : d # c => phase'[d] = phase[d]
    BY <1>0, <1>6, AttemptFailsType DEF Bridge, Send, SendFails, Recv, RecvError, Timeout
  <2>. QED
    BY <1>0, <2>1, <2>2, SameCall
<1>7. ASSUME NEW c \in Clients, Persist(c) PROVE MarkInv'
  <2>1. CASE c = "scheduler"
    <3>1. /\ last_processed_ts' = candle["scheduler"] /\ latest' = latest
          /\ phase'["scheduler"] = "idle"
      BY <1>0, <1>7, <2>1 DEF Persist, After
    <3>2. candle["scheduler"] <= latest
      BY <1>0 DEF TypeInv
    <3>. QED
      BY <3>1, <3>2 DEF MarkInv
  <2>2. CASE c # "scheduler"
    BY <1>0, <1>7, <2>2, SameCall DEF Persist
  <2>. QED
    BY <2>1, <2>2
<1>8. ASSUME NEW c \in Clients, PersistFails(c) PROVE MarkInv'
  BY <1>0, <1>8, SameCall DEF PersistFails
<1>9. ASSUME NEW c \in Clients, Serve(c) PROVE MarkInv'
  BY <1>9, SameCall DEF Serve
<1>10. ASSUME NEW c \in Clients, ConnectionLost(c) PROVE MarkInv'
  <2>1. \/ phase' = phase
        \/ phase[c] = "recv" /\ \A d \in Clients : d # c => phase'[d] = phase[d]
    BY <1>10, AttemptFailsType DEF ConnectionLost
  <2>. QED
    BY <1>0, <1>10, <2>1, SameCall DEF ConnectionLost
<1>11. CASE UNCHANGED vars
  BY <1>11, SameCall DEF vars
<1>. QED
  BY <1>1, <1>2, <1>3, <1>4, <1>5, <1>6, <1>7, <1>8, <1>9, <1>10, <1>11 DEF Next, Client

LEMMA MarkInvariant == Spec => [](TypeInv /\ MarkInv)
<1>1. Init => MarkInv
  BY DEF Init, MarkInv, Clients
<1>. QED
  BY <1>1, InitType, NextType, MarkStep, PTL DEF Spec

Predicted == {t \in Ts : predictions[t] # NoRow}

\* The row of a client's candle is added to those there were, or replaces one.
LEMMA Adds ==
  ASSUME TypeInv, NEW c \in Clients, Persist(c)
  PROVE  candle[c] \in Ts /\ Predicted' = Predicted \cup {candle[c]}
<1>1. candle[c] \in Ts /\ got[c] \in Reply
  BY DEF Persist, TypeInv, TypeOK
<1>2. NewRow(c) \in Row
  BY <1>1 DEF NewRow, Reply, Row
<1>3. NewRow(c) # NoRow
  BY <1>2, NoRowAssumption
<1>4. \A t \in Ts : predictions'[t] = IF t = candle[c] THEN NewRow(c) ELSE predictions[t]
  BY DEF Persist, insert_equity_prediction, TypeInv, TypeOK
<1>. QED
  BY <1>1, <1>3, <1>4 DEF Predicted

\* The link keeps the promise about candles: each client's Persist adds the row of
\* its own candle, the scheduler's marks it, and no other step does either.
THEOREM LinkImplementsCandleMarks == Spec => ImplementsCandleMarks
<1>1. Init => CM!Init
  BY DEF Init, CM!Init
<1>2. TypeInv /\ MarkInv /\ [Next]_vars => [CM!Next]_(CM!marks)
  <2> SUFFICES ASSUME TypeInv, MarkInv, [Next]_vars PROVE CM!Next \/ UNCHANGED CM!marks
    OBVIOUS
  <2>0. latest \in Nat /\ last_processed_ts \in Nat
    BY LinkAssumption DEF TypeInv, TypeOK
  <2>1. ASSUME NEW c \in Clients, Persist(c) PROVE CM!Next
    <3>1. candle[c] \in 1..latest /\ Predicted' = Predicted \cup {candle[c]}
      BY <2>0, <2>1, Adds DEF TypeInv, Ts
    <3>2. latest' = latest
      BY <2>1 DEF Persist
    <3>3. CASE c = "scheduler"
      <4>1. last_processed_ts' = candle[c] /\ candle[c] > last_processed_ts
        BY <2>0, <2>1, <3>1, <3>3 DEF Persist, MarkInv
      <4>2. CM!Mark(candle[c])
        BY <3>1, <3>2, <4>1 DEF CM!Mark, Predicted
      <4>. QED
        BY <3>1, <4>2 DEF CM!Next, CM!Mark
    <3>4. CASE c # "scheduler"
      <4>1. CM!Predict(candle[c])
        BY <2>1, <3>1, <3>2, <3>4 DEF Persist, CM!Predict, Predicted
      <4>. QED
        BY <3>1, <4>1 DEF CM!Next, CM!Predict
    <3>. QED
      BY <3>3, <3>4
  <2>2. CASE NewCandle
    BY <2>2 DEF NewCandle, memory, CM!Next, CM!Arrive
  <2>3. CASE ~ NewCandle /\ ~ \E c \in Clients : Persist(c)
    <3>1. UNCHANGED <<latest, predictions, last_processed_ts>>
      BY <2>3
      DEF Next, vars, tables, memory, Client, Bridge, Backfill, SchedulerCalls, FetchCandles,
          FetchFails, BackfillBegins, BackfillReads, BackfillFails, BackfillCalls, BackfillEnds, Send, SendFails, Recv,
          RecvError, Timeout, Serve, ConnectionLost, PersistFails
    <3>. QED
      BY <3>1 DEF CM!marks
  <2>. QED
    BY <2>1, <2>2, <2>3
<1>. QED
  BY <1>1, <1>2, MarkInvariant, PTL DEF Spec, ImplementsCandleMarks, CM!Spec
=============================================================================
