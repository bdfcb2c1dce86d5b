---------------------------- MODULE PredictionLink ----------------------------
(***************************************************************************)
(* How a prediction gets from the inference service into the table.  Two   *)
(* clients of the engine, the scheduler's process() and the handler of     *)
(* POST /api/equity/backfill_predictions, each own a ZmqBridge (a REQ      *)
(* socket), call it with retries, and upsert what it returns under their   *)
(* candle.  The inference service answers one request at a time.           *)
(*                                                                         *)
(* A request carries no identifier.  When the timeout drops the future of  *)
(* predict_v3 after the send, the request stays in flight; the library's   *)
(* socket then lets the next attempt send again, and the next recv takes   *)
(* the oldest reply of the connection.  A request in flight is represented *)
(* by the candle it was sent for and the last candle of its window.        *)
(***************************************************************************)
EXTENDS Naturals, Sequences

CONSTANTS
  FetchCount, \* rows that process() asks of fetch_equity_candles_asc
  MaxTs,      \* candles are numbered 1..MaxTs in the order of their ts
  Attempts,   \* attempts of one call: retries + 1
  MaxCalls,   \* bound on the calls of the scheduler
  MaxRuns,    \* bound on the backfill requests
  NoRow       \* a candle without a prediction

ASSUME LinkAssumption ==
  /\ MaxTs \in Nat /\ FetchCount \in Nat \ {0} /\ Attempts \in Nat \ {0}
  /\ MaxCalls \in Nat /\ MaxRuns \in Nat

Ts == 1..MaxTs
Clients == {"scheduler", "backfill"}

Request == [for : Ts, upto : Ts]
Reply == [for : Ts, upto : Ts, late : Nat]
Row == [for : Ts, upto : Ts, late : Nat, by : Clients]

ASSUME NoRowAssumption == NoRow \notin Row /\ NoRow \notin Reply

VARIABLES
  latest,            \* equity_candles: ts of the newest candle
  predictions,       \* equity_predictions: the row of each candle
  last_processed_ts, \* EquityScheduler.last_processed_ts
  existing,          \* the candles the backfill took to be predicted when it began
  todo,              \* the last candle of the list the backfill fetched
  phase,             \* what each client awaits
  candle,            \* the candle each client is working on
  window,            \* the last candle of the feature window it sends
  attempt,           \* the attempt of the call in progress
  inflight,          \* requests of each connection not yet read as a reply
  ready,             \* how many of them the service has answered
  late,              \* attempts of this connection given up after the send
  got,               \* the reply the call returned, and late when it was read
  calls,             \* calls of the scheduler so far
  runs               \* backfill requests so far

tables == <<latest, predictions>>
memory == <<last_processed_ts, existing, todo>>
conn == <<inflight, ready, late>>
work == <<candle, window>>
bounds == <<calls, runs>>
vars == <<tables, memory, phase, work, attempt, conn, got, bounds>>

Init ==
  /\ latest = 0
  /\ predictions = [t \in Ts |-> NoRow]
  /\ last_processed_ts = 0
  /\ existing = {}
  /\ todo = 0
  /\ phase = [c \in Clients |-> "idle"]
  /\ candle = [c \in Clients |-> 0]
  /\ window = [c \in Clients |-> 0]
  /\ attempt = [c \in Clients |-> 0]
  /\ inflight = [c \in Clients |-> <<>>]
  /\ ready = [c \in Clients |-> 0]
  /\ late = [c \in Clients |-> 0]
  /\ got = [c \in Clients |-> NoRow]
  /\ calls = 0
  /\ runs = 0

\* The ingestion supervisor stores the next daily candle.
NewCandle ==
  /\ latest < MaxTs
  /\ latest' = latest + 1
  /\ UNCHANGED <<predictions, memory, phase, work, attempt, conn, got, bounds>>
-----------------------------------------------------------------------------
(* The callers. *)

\* The scheduler's poll finds a candle newer than the one it has marked.
SchedulerCalls ==
  /\ phase["scheduler"] = "idle"
  /\ latest > last_processed_ts
  /\ calls < MaxCalls
  /\ calls' = calls + 1
  /\ candle' = [candle EXCEPT !["scheduler"] = latest]
  /\ phase' = [phase EXCEPT !["scheduler"] = "read"]
  /\ UNCHANGED <<tables, memory, window, attempt, conn, got, runs>>

\* process() reads the candles once more: the FetchCount oldest rows.
FetchCandles ==
  /\ phase["scheduler"] = "read"
  /\ window' = [window EXCEPT !["scheduler"] = IF latest < FetchCount THEN latest ELSE FetchCount]
  /\ attempt' = [attempt EXCEPT !["scheduler"] = 1]
  /\ phase' = [phase EXCEPT !["scheduler"] = "send"]
  /\ UNCHANGED <<tables, memory, candle, conn, got, bounds>>

\* The candles cannot be read, are too few, or give no features.
FetchFails ==
  /\ phase["scheduler"] = "read"
  /\ phase' = [phase EXCEPT !["scheduler"] = "idle"]
  /\ UNCHANGED <<tables, memory, work, attempt, conn, got, bounds>>

\* The handler reads the candles once.
BackfillBegins ==
  /\ phase["backfill"] = "idle"
  /\ runs < MaxRuns
  /\ runs' = runs + 1
  /\ todo' = latest
  /\ phase' = [phase EXCEPT !["backfill"] = "rows"]
  /\ UNCHANGED <<tables, last_processed_ts, existing, work, attempt, conn, got, calls>>

\* Then it reads the rows, of which it finds none when they cannot be read, and
\* connects its own socket.
BackfillReads ==
  /\ phase["backfill"] = "rows"
  /\ existing' \in {{}, {t \in Ts : predictions[t] # NoRow}}
  /\ candle' = [candle EXCEPT !["backfill"] = 0]
  /\ inflight' = [inflight EXCEPT !["backfill"] = <<>>]
  /\ ready' = [ready EXCEPT !["backfill"] = 0]
  /\ late' = [late EXCEPT !["backfill"] = 0]
  /\ phase' = [phase EXCEPT !["backfill"] = "next"]
  /\ UNCHANGED <<tables, last_processed_ts, todo, window, attempt, got, bounds>>

\* The candles cannot be read, are too few or give no features, or the socket does
\* not connect.
BackfillFails ==
  /\ phase["backfill"] = "rows"
  /\ phase' = [phase EXCEPT !["backfill"] = "idle"]
  /\ UNCHANGED <<tables, memory, work, attempt, conn, got, bounds>>

\* The next candle for which the handler found no row.
BackfillCalls(t) ==
  /\ phase["backfill"] = "next"
  /\ t \in (candle["backfill"] + 1)..todo
  /\ t \notin existing
  /\ \A u \in (candle["backfill"] + 1)..(t - 1) : u \in existing
  /\ candle' = [candle EXCEPT !["backfill"] = t]
  /\ window' = [window EXCEPT !["backfill"] = t]
  /\ attempt' = [attempt EXCEPT !["backfill"] = 1]
  /\ phase' = [phase EXCEPT !["backfill"] = "send"]
  /\ UNCHANGED <<tables, memory, conn, got, bounds>>

BackfillEnds ==
  /\ phase["backfill"] = "next"
  /\ (candle["backfill"] + 1)..todo \subseteq existing
  /\ phase' = [phase EXCEPT !["backfill"] = "idle"]
  /\ UNCHANGED <<tables, memory, work, attempt, conn, got, bounds>>

\* Where a client goes after a candle: the scheduler back to its poll, the
\* handler to the next candle of its list.
After(c) == IF c = "scheduler" THEN "idle" ELSE "next"
-----------------------------------------------------------------------------
(* ZmqBridge::predict_v3 and predict_v3_with_retry. *)

\* Mutant: one attempt more than retries + 1.
AttemptFails_OneMore(c) ==
  IF attempt[c] <= Attempts
  THEN /\ attempt' = [attempt EXCEPT ![c] = @ + 1]
       /\ phase' = [phase EXCEPT ![c] = "send"]
  ELSE /\ phase' = [phase EXCEPT ![c] = After(c)]
       /\ attempt' = [attempt EXCEPT ![c] = 0]

AttemptFails(c) ==
  IF attempt[c] < Attempts
  THEN /\ attempt' = [attempt EXCEPT ![c] = @ + 1]
       /\ phase' = [phase EXCEPT ![c] = "send"]
  ELSE /\ phase' = [phase EXCEPT ![c] = After(c)]
       /\ attempt' = [attempt EXCEPT ![c] = 0]

Send(c) ==
  /\ phase[c] = "send"
  /\ inflight' = [inflight EXCEPT ![c] = Append(@, [for |-> candle[c], upto |-> window[c]])]
  /\ phase' = [phase EXCEPT ![c] = "recv"]
  /\ UNCHANGED <<tables, memory, work, attempt, ready, late, got, bounds>>

\* No peer is connected, or the timeout comes before the request is queued.
SendFails(c) ==
  /\ phase[c] = "send"
  /\ AttemptFails(c)
  /\ UNCHANGED <<tables, memory, work, conn, got, bounds>>

\* What recv returns: the oldest reply of the connection.
OldestReply(c) ==
  [for |-> Head(inflight[c]).for, upto |-> Head(inflight[c]).upto, late |-> late[c]]

\* Mutant: the reply is looked at but left on the connection.
Recv_LeavesReply(c) ==
  /\ phase[c] = "recv"
  /\ ready[c] > 0
  /\ got' = [got EXCEPT ![c] = OldestReply(c)]
  /\ phase' = [phase EXCEPT ![c] = "persist"]
  /\ UNCHANGED <<tables, memory, work, attempt, conn, bounds>>

\* The reply has the three horizons.
Recv(c) ==
  /\ phase[c] = "recv"
  /\ ready[c] > 0
  /\ inflight' = [inflight EXCEPT ![c] = Tail(@)]
  /\ ready' = [ready EXCEPT ![c] = @ - 1]
  /\ got' = [got EXCEPT ![c] = OldestReply(c)]
  /\ phase' = [phase EXCEPT ![c] = "persist"]
  /\ attempt' = [attempt EXCEPT ![c] = 0]
  /\ UNCHANGED <<tables, memory, work, late, bounds>>

\* The reply has an error key or lacks a horizon.
RecvError(c) ==
  /\ phase[c] = "recv"
  /\ ready[c] > 0
  /\ inflight' = [inflight EXCEPT ![c] = Tail(@)]
  /\ ready' = [ready EXCEPT ![c] = @ - 1]
  /\ AttemptFails(c)
  /\ UNCHANGED <<tables, memory, work, late, got, bounds>>

\* Mutant: a timeout leaves the retry loop waiting on the same request.
Timeout_WaitsAgain(c) ==
  /\ phase[c] = "recv"
  /\ attempt[c] < Attempts
  /\ attempt' = [attempt EXCEPT ![c] = @ + 1]
  /\ UNCHANGED <<tables, memory, phase, work, conn, got, bounds>>

\* The timeout drops the future while it waits; the request stays in flight.
Timeout(c) ==
  /\ phase[c] = "recv"
  /\ late' = [late EXCEPT ![c] = @ + 1]
  /\ AttemptFails(c)
  /\ UNCHANGED <<tables, memory, work, inflight, ready, got, bounds>>
-----------------------------------------------------------------------------
(* The inference service. *)

\* One turn of the REP loop: the oldest request of a connection is answered.
Serve(c) ==
  /\ ready[c] < Len(inflight[c])
  /\ ready' = [ready EXCEPT ![c] = @ + 1]
  /\ UNCHANGED <<tables, memory, phase, work, attempt, inflight, late, got, bounds>>

\* The service restarts: what was in flight on a connection is lost with it
\* and a call that waits on it fails.
ConnectionLost(c) ==
  /\ inflight[c] # <<>>
  /\ inflight' = [inflight EXCEPT ![c] = <<>>]
  /\ ready' = [ready EXCEPT ![c] = 0]
  /\ late' = [late EXCEPT ![c] = 0]
  /\ IF phase[c] = "recv" THEN AttemptFails(c) ELSE UNCHANGED <<phase, attempt>>
  /\ UNCHANGED <<tables, memory, work, got, bounds>>
-----------------------------------------------------------------------------
(* The row. *)

NewRow(c) == [for |-> got[c].for, upto |-> got[c].upto, late |-> got[c].late, by |-> c]

\* Mutant: the row is stored under the candle before.
insert_equity_prediction_previous(c) ==
  predictions' = [t \in Ts |-> IF t + 1 = candle[c] THEN NewRow(c) ELSE predictions[t]]

\* The upsert: whatever row the candle has is replaced.
insert_equity_prediction(c) ==
  predictions' = [predictions EXCEPT ![candle[c]] = NewRow(c)]

\* Mutant: the newest candle is marked, which may not be the one in process.
Persist_MarksLatest(c) ==
  /\ phase[c] = "persist"
  /\ insert_equity_prediction(c)
  /\ last_processed_ts' = IF c = "scheduler" THEN latest ELSE last_processed_ts
  /\ phase' = [phase EXCEPT ![c] = After(c)]
  /\ got' = [got EXCEPT ![c] = NoRow]
  /\ UNCHANGED <<latest, existing, todo, work, attempt, conn, bounds>>

Persist(c) ==
  /\ phase[c] = "persist"
  /\ insert_equity_prediction(c)
  /\ last_processed_ts' = IF c = "scheduler" THEN candle[c] ELSE last_processed_ts
  /\ phase' = [phase EXCEPT ![c] = After(c)]
  /\ got' = [got EXCEPT ![c] = NoRow]
  /\ UNCHANGED <<latest, existing, todo, work, attempt, conn, bounds>>

\* The statement fails: the scheduler has not marked the candle, the handler
\* counts an error and goes on.
PersistFails(c) ==
  /\ phase[c] = "persist"
  /\ phase' = [phase EXCEPT ![c] = After(c)]
  /\ got' = [got EXCEPT ![c] = NoRow]
  /\ UNCHANGED <<tables, memory, work, attempt, conn, bounds>>
-----------------------------------------------------------------------------
Bridge(c) ==
  Send(c) \/ SendFails(c) \/ Recv(c) \/ RecvError(c) \/ Timeout(c)

Client(c) == Bridge(c) \/ Persist(c) \/ PersistFails(c)

Backfill ==
  \/ BackfillReads \/ BackfillFails \/ BackfillEnds
  \/ \E t \in Ts : BackfillCalls(t)

Next ==
  \/ NewCandle \/ SchedulerCalls \/ FetchCandles \/ FetchFails \/ BackfillBegins \/ Backfill
  \/ \E c \in Clients : Client(c) \/ Serve(c) \/ ConnectionLost(c)

Spec == Init /\ [][Next]_vars

\* The runtime runs each client; the timer of a call always fires, so nothing
\* is asked of the service.
FairSpec == Spec /\ WF_vars(FetchCandles \/ FetchFails) /\ WF_vars(Backfill) /\ \A c \in Clients : WF_vars(Client(c))
-----------------------------------------------------------------------------
(* Properties. *)

TypeOK ==
  /\ latest \in 0..MaxTs
  /\ predictions \in [Ts -> Row \cup {NoRow}]
  /\ last_processed_ts \in 0..MaxTs
  /\ existing \subseteq Ts
  /\ todo \in 0..MaxTs
  /\ phase \in [Clients -> {"idle", "read", "rows", "next", "send", "recv", "persist"}]
  /\ phase["scheduler"] \notin {"rows", "next"} /\ phase["backfill"] # "read"
  /\ candle \in [Clients -> 0..MaxTs]
  /\ window \in [Clients -> 0..MaxTs]
  /\ \A c \in Clients :
       /\ phase[c] \in {"read", "send", "recv", "persist"} => candle[c] \in Ts
       /\ phase[c] \in {"send", "recv", "persist"} => window[c] \in Ts
       /\ phase[c] = "persist" => got[c] \in Reply
  /\ attempt \in [Clients -> 0..Attempts]
  /\ inflight \in [Clients -> Seq(Request)]
  /\ ready \in [Clients -> Nat]
  /\ late \in [Clients -> Nat]
  /\ got \in [Clients -> Reply \cup {NoRow}]
  /\ calls \in 0..MaxCalls
  /\ runs \in 0..MaxRuns

\* The replies a connection still owes are one for each attempt given up after
\* its send, and the one being waited for: errors, retries and lost
\* connections neither lose nor add one (predict_v3).
BacklogIsTimeouts ==
  \A c \in Clients :
    /\ Len(inflight[c]) = late[c] + (IF phase[c] = "recv" THEN 1 ELSE 0)
    /\ ready[c] <= Len(inflight[c])

\* A row holds the answer to a request of its own candle unless an attempt of
\* the same connection had timed out before the reply was read.
OnTimeRowsAreOwn ==
  \A t \in Ts : predictions[t] # NoRow /\ predictions[t].late = 0 => predictions[t].for = t

\* However late, a row never holds the answer to a request of a newer candle,
\* and what the backfill writes at t has seen nothing after t.
NoLookAhead ==
  \A t \in Ts : predictions[t] # NoRow =>
    /\ predictions[t].for <= t
    /\ predictions[t].by = "backfill" => predictions[t].upto <= t

\* With two writers of one table, candles that arrive while a call is under way and
\* any number of timeouts, the scheduler marks a candle only together with a row
\* of that candle and never after a newer one, and no row is taken back.
CM == INSTANCE CandleMarks
        WITH newest <- latest,
             predicted <- {t \in Ts : predictions[t] # NoRow},
             marked <- last_processed_ts
ImplementsCandleMarks == CM!Spec

\* A backfill request ends although the service never answers.
BackfillReturns == phase["backfill"] # "idle" ~> phase["backfill"] = "idle"

\* What the comment of compute_atr_ratio says of the rows that process() gives
\* it: the last one is the most recent candle, the one in process.
WindowEndsAtCandle ==
  phase["scheduler"] = "send" => window["scheduler"] >= candle["scheduler"]
=============================================================================
