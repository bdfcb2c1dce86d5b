----------------------------- MODULE Telemetry -----------------------------
(***************************************************************************)
(* How an engine event reaches the Events page: a row of engine_events and *)
(* the bounded broadcast channel, a task per WebSocket that forwards it,   *)
(* and the browser, which keeps one socket in a variable for all its pages *)
(* and also loads the history.  The browser runs one callback at a time;   *)
(* fetches, socket events and the reconnect timer come in any order.  What *)
(* an event says, filters and the length of the backoff are left out.      *)
(***************************************************************************)
EXTENDS Naturals, SequencesExt

CONSTANTS
  Capacity,    \* of the broadcast channel
  ListMax,     \* the list and the history have that many events
  MaxEvents,   \* bound
  MaxSockets,  \* bound: sockets that are not closed yet
  MaxLoads,    \* bound: fetches of the history that are pending
  MaxMounts    \* bound: dashboards that are at their fetches

ASSUME TelemetryAssumption ==
  /\ {Capacity, ListMax, MaxSockets, MaxLoads, MaxMounts} \subseteq Nat \ {0}
  /\ MaxEvents \in Nat

Events == 1..MaxEvents
Sockets == 1..MaxSockets
Loads == 1..MaxLoads
None == 0  \* null in the variable ws

VARIABLES
  emitted,   \* events that the engine began to emit
  emitting,  \* of them, those not broadcast yet
  log,       \* engine_events
  chan,      \* what was sent on the channel of this life, in order
  pump,      \* a task forwards to the socket
  cursor,    \* the next position of chan that it receives; what is in flight counts as to come
  client,    \* the browser's readyState, "none" for a socket that is not there
  deaf,      \* its onclose is removed
  ws, timer, manuallyClosed,
  page,
  mounting,  \* the onMount of the dashboard shown is at its fetches
  left,      \* how many are at theirs of dashboards that were left
  load,      \* fetches of the history
  history,   \* what they returned
  list,      \* the store events, newest first
  gone,      \* ghost: events that a step took from the list, or from the way to it
  loaded,    \* ghost: events that the history brought
  late       \* ghost: a dashboard connected after it was left

engine == <<emitted, emitting, log>>
sockets == <<chan, pump, cursor>>
browser == <<client, deaf, ws, timer, manuallyClosed>>
views == <<page, mounting, left, load, history, list>>
ghosts == <<gone, loaded, late>>
vars == <<engine, sockets, browser, views, ghosts>>

Init ==
  /\ emitted = 0 /\ emitting = {} /\ log = {}
  /\ chan = <<>> /\ pump = [s \in Sockets |-> FALSE]
  /\ cursor = [s \in Sockets |-> 1]
  /\ client = [s \in Sockets |-> "none"] /\ deaf = [s \in Sockets |-> FALSE]
  /\ ws = None /\ timer = FALSE /\ manuallyClosed = FALSE
  /\ page = "dashboard" /\ mounting = TRUE /\ left = 0
  /\ load = [l \in Loads |-> "idle"] /\ history = [l \in Loads |-> {}]
  /\ list = <<>> /\ gone = {} /\ loaded = {} /\ late = FALSE

Live(s) == client[s] \in {"connecting", "open"}

\* Events that socket s would still have delivered.
Ahead(s) == IF pump[s] THEN {chan[i] : i \in {j \in DOMAIN chan : j >= cursor[s]}} ELSE {}
-----------------------------------------------------------------------------
(* The engine. *)

\* The row is inserted, or an error is logged; emit goes on either way.
Insert ==
  /\ emitted < MaxEvents
  /\ emitted' = emitted + 1 /\ emitting' = emitting \cup {emitted + 1}
  /\ log' \in {log, log \cup {emitted + 1}}
  /\ UNCHANGED <<sockets, browser, views, ghosts>>

\* Those who emit at a time send in any order.  A send that nobody receives is
\* no error.
Broadcast(e) ==
  /\ e \in emitting
  /\ emitting' = emitting \ {e} /\ chan' = Append(chan, e)
  /\ gone' = IF \E s \in Sockets : pump[s] /\ Live(s) THEN gone ELSE gone \cup {e}
  /\ UNCHANGED <<emitted, log, pump, cursor, browser, views, loaded, late>>

\* ws_handler subscribes before the upgrade.
Accept(s) ==
  /\ client[s] = "connecting" /\ ~pump[s]
  /\ pump' = [pump EXCEPT ![s] = TRUE] /\ cursor' = [cursor EXCEPT ![s] = Len(chan) + 1]
  /\ UNCHANGED <<engine, chan, browser, views, ghosts>>

Behind(s) == Len(chan) - cursor[s] + 1

\* Mutant: one event too many is skipped, and not said to be.
Oldest_TooNew == Len(chan) - Capacity + 2

\* The position of the oldest event that the channel still holds.
Oldest == Len(chan) - Capacity + 1

\* RecvError::Lagged: go on with the oldest event there is.
Lag(s) ==
  /\ pump[s] /\ Behind(s) > Capacity
  /\ cursor' = [cursor EXCEPT ![s] = Oldest]
  /\ gone' = gone \cup {chan[i] : i \in cursor[s]..(Len(chan) - Capacity)}
  /\ UNCHANGED <<engine, chan, pump, browser, views, loaded, late>>

\* The process ends between any two steps and is started again.
Crash ==
  /\ gone' = gone \cup emitting \cup UNION {Ahead(s) : s \in Sockets}
  /\ emitting' = {} /\ chan' = <<>> /\ pump' = [s \in Sockets |-> FALSE]
  /\ cursor' = [s \in Sockets |-> 1]
  /\ UNCHANGED <<emitted, log, browser, views, loaded, late>>
-----------------------------------------------------------------------------
(* websocket.js. *)

Free == CHOOSE s \in Sockets : client[s] = "none"
CanConnect == \E s \in Sockets : client[s] = "none"

Connected(w, c) == w # None /\ c[w] \in {"open", "connecting"}

\* connectWebSocket, after the variables were given the values w, c, and so on.
ConnectFrom(w, c, d, t, m) ==
  /\ timer' = t
  /\ \/ /\ Connected(w, c)
        /\ ws' = w /\ client' = c /\ deaf' = d /\ manuallyClosed' = m
     \/ /\ ~Connected(w, c) /\ CanConnect
        /\ ws' = Free /\ client' = [c EXCEPT ![Free] = "connecting"]
        /\ deaf' = [d EXCEPT ![Free] = FALSE] /\ manuallyClosed' = FALSE

connectWebSocket == ConnectFrom(ws, client, deaf, timer, manuallyClosed)

\* close(): nothing is delivered from then on.
Closing(c, w) == IF w # None /\ c[w] \in {"open", "connecting"} THEN [c EXCEPT ![w] = "closing"] ELSE c
Deafened == IF ws # None THEN [deaf EXCEPT ![ws] = TRUE] ELSE deaf
Unheard(w) == IF w # None /\ Live(w) THEN Ahead(w) ELSE {}

\* disconnectWebSocket.
Disconnected ==
  /\ client' = Closing(client, ws) /\ deaf' = Deafened /\ ws' = None
  /\ timer' = FALSE /\ manuallyClosed' = TRUE

OnOpen(s) ==
  /\ client[s] = "connecting" /\ pump[s]
  /\ client' = [client EXCEPT ![s] = "open"]
  /\ UNCHANGED <<engine, sockets, deaf, ws, timer, manuallyClosed, views, ghosts>>

\* Mutant: a socket that was closed ends the reconnecting.
Reconnects_Never == FALSE

Reconnects == ~manuallyClosed

\* The connection ends: refused, lost, or after close().  If it failed, onerror comes
\* first and closes the socket that ws holds by then; then onclose comes, unless it
\* was removed.
OnClose(s, failed) ==
  /\ client[s] \in {"connecting", "open", "closing"}
  /\ client[s] = "connecting" => failed
  /\ LET rest == [client EXCEPT ![s] = "none"] IN
       client' = IF failed /\ ws # s THEN Closing(rest, ws) ELSE rest
  /\ gone' = gone \cup Unheard(s) \cup (IF failed THEN Unheard(ws) ELSE {})
  /\ IF deaf[s] THEN UNCHANGED <<ws, timer>>
     ELSE ws' = None /\ timer' = (timer \/ Reconnects)
  /\ pump' = [pump EXCEPT ![s] = FALSE] /\ cursor' = [cursor EXCEPT ![s] = 1]
  /\ deaf' = [deaf EXCEPT ![s] = FALSE]
  /\ UNCHANGED <<engine, chan, manuallyClosed, views, loaded, late>>

TimerFires ==
  /\ timer
  /\ ConnectFrom(ws, client, deaf, FALSE, manuallyClosed)
  /\ UNCHANGED <<engine, sockets, views, ghosts>>

\* What an events.set or an update with the list l and the events new leaves.
Cut(l) == SubSeq(l, 1, IF Len(l) < ListMax THEN Len(l) ELSE ListMax)

\* The task forwards an event and the page handles it.
HandleMessage(s) ==
  /\ client[s] = "open" /\ pump[s] /\ Behind(s) \in 1..Capacity
  /\ list' = Cut(<<chan[cursor[s]]>> \o list)
  /\ gone' = gone \cup (Range(list) \ Range(list'))
  /\ cursor' = [cursor EXCEPT ![s] = @ + 1]
  /\ UNCHANGED <<engine, chan, pump, browser, page, mounting, left, load,
                 history, loaded, late>>
-----------------------------------------------------------------------------
(* Events.svelte and Dashboard.svelte. *)

Asks == \E l \in Loads : load[l] = "idle" /\ load' = [load EXCEPT ![l] = "asked"]

\* The fetches of a dashboard go on when it is left.
LeavesDashboard ==
  mounting' = FALSE /\ left' = IF mounting THEN left + 1 ELSE left

\* The page that is left disconnects, if it is one of the two; Events loads and
\* connects as it is mounted, the dashboard connects after its fetches.
Leave ==
  /\ page # "other" /\ page' = "other"
  /\ Disconnected /\ gone' = gone \cup Unheard(ws) /\ LeavesDashboard
  /\ UNCHANGED <<engine, sockets, load, history, list, loaded, late>>

MountEvents ==
  /\ page # "events" /\ page' = "events" /\ Asks
  /\ IF page = "other"
     THEN connectWebSocket /\ UNCHANGED gone
     ELSE /\ ConnectFrom(None, Closing(client, ws), Deafened, FALSE, TRUE)
          /\ gone' = gone \cup Unheard(ws)
  /\ LeavesDashboard
  /\ UNCHANGED <<engine, sockets, history, list, loaded, late>>

MountDashboard ==
  /\ page # "dashboard" /\ page' = "dashboard" /\ mounting' = TRUE
  /\ left < MaxMounts
  /\ IF page = "other"
     THEN UNCHANGED <<browser, gone>>
     ELSE Disconnected /\ gone' = gone \cup Unheard(ws)
  /\ UNCHANGED <<engine, sockets, left, load, history, list, loaded, late>>

\* The fetches of the dashboard shown are over, or those of one that was left.
DashboardConnects ==
  /\ \/ mounting /\ mounting' = FALSE /\ UNCHANGED <<left, late>>
     \/ left > 0 /\ left' = left - 1 /\ late' = TRUE /\ UNCHANGED mounting
  /\ connectWebSocket
  /\ UNCHANGED <<engine, sockets, page, load, history, list, gone, loaded>>

\* A filter is chosen.
FilterChanges ==
  /\ page = "events" /\ Asks
  /\ UNCHANGED <<engine, sockets, browser, page, mounting, left, history, list, ghosts>>

\* The newest rows; or the request fails and the list stays.
LoadAnswered(l) ==
  /\ load[l] = "asked"
  /\ \/ /\ load' = [load EXCEPT ![l] = "answered"]
        /\ history' = [history EXCEPT ![l] =
                         {e \in log : Cardinality({f \in log : f >= e}) <= ListMax}]
     \/ load' = [load EXCEPT ![l] = "idle"] /\ UNCHANGED history
  /\ UNCHANGED <<engine, sockets, browser, page, mounting, left, list, ghosts>>

NewestFirst(events) == {l \in SetToSeqs(events) : \A i, j \in DOMAIN l : i < j => l[i] > l[j]}

\* events.set replaces what the socket brought since the request was read.
LoadSets(l) ==
  /\ load[l] = "answered"
  /\ load' = [load EXCEPT ![l] = "idle"] /\ history' = [history EXCEPT ![l] = {}]
  /\ list' \in NewestFirst(history[l])
  /\ gone' = (gone \cup Range(list)) \ history[l]
  /\ loaded' = loaded \cup history[l]
  /\ UNCHANGED <<engine, sockets, browser, page, mounting, left, late>>

Next ==
  \/ Insert \/ (\E e \in Events : Broadcast(e)) \/ Crash
  \/ TimerFires \/ Leave \/ MountEvents \/ MountDashboard \/ DashboardConnects \/ FilterChanges
  \/ \E s \in Sockets :
       \/ Accept(s) \/ Lag(s) \/ OnOpen(s) \/ HandleMessage(s)
       \/ \E failed \in BOOLEAN : OnClose(s, failed)
  \/ \E l \in Loads : LoadAnswered(l) \/ LoadSets(l)

Spec == Init /\ [][Next]_vars
-----------------------------------------------------------------------------
(* Properties. *)

Shown(e) == Cardinality({i \in DOMAIN list : list[i] = e})
Coming(e) == \E s \in Sockets : Live(s) /\ e \in Ahead(s)

\* What the Events page may be relied on for.  An event that was broadcast is shown
\* or on its way unless nobody was subscribed, the socket ended with it, the
\* subscriber lagged, the history replaced it or newer ones pushed it out.  An event
\* is shown twice only when the history brought it too, or after a dashboard that
\* was left has connected: then two sockets may feed the list.
ViewIsExplained ==
  /\ \A e \in 1..emitted : e \in emitting \/ e \in gone \/ Shown(e) > 0 \/ Coming(e)
  /\ \A e \in 1..emitted : Shown(e) > 1 => e \in loaded \/ late
  /\ \A s, t \in Sockets : s # t /\ Live(s) /\ Live(t) => late

\* No order of callbacks leaves the Events page without a way to connect again: the
\* timer runs, or ws holds a socket whose end is noticed and starts it.
NeverStranded ==
  page = "events" =>
    timer \/ (ws # None /\ client[ws] # "none" /\ ~deaf[ws] /\ ~manuallyClosed)
=============================================================================
