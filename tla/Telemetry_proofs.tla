-------------------------- MODULE Telemetry_proofs --------------------------
(***************************************************************************)
(* A proof that the Events page can always connect again, for every number *)
(* of sockets, pending fetches and events, and every order of callbacks.   *)
(***************************************************************************)
EXTENDS Telemetry, FiniteSetTheorems, SequenceTheorems, TLAPS

ReadyStates == {"none", "connecting", "open", "closing"}

BrowserType ==
  /\ client \in [Sockets -> ReadyStates] /\ deaf \in [Sockets -> BOOLEAN]
  /\ ws \in Sockets \cup {None}
  /\ timer \in BOOLEAN /\ manuallyClosed \in BOOLEAN

\* The variable ws holds a socket that is there and is heard; nothing is set to
\* connect again, or holds a socket, after a disconnect.
SocketInv ==
  /\ ws # None => client[ws] # "none" /\ ~ deaf[ws] /\ ~ manuallyClosed
  /\ timer => ~ manuallyClosed
  /\ page = "events" => timer \/ ws # None

Inv == BrowserType /\ SocketInv

LEMMA SocketsFacts == None \notin Sockets
BY DEF None, Sockets

LEMMA FreeFacts == ASSUME CanConnect PROVE Free \in Sockets /\ client[Free] = "none"
BY DEF CanConnect, Free

LEMMA ClosingType ==
  ASSUME NEW c \in [Sockets -> ReadyStates], NEW w \in Sockets \cup {None}
  PROVE  /\ Closing(c, w) \in [Sockets -> ReadyStates]
         /\ \A s \in Sockets : Closing(c, w)[s] = "none" <=> c[s] = "none"
BY DEF Closing, ReadyStates

LEMMA DeafenedType == ASSUME BrowserType PROVE Deafened \in [Sockets -> BOOLEAN]
BY DEF BrowserType, Deafened

\* Whatever connects leaves a socket that is heard, as long as the variables it
\* starts from do not hold one that is not.
LEMMA ConnectInv ==
  ASSUME NEW w \in Sockets \cup {None}, NEW c \in [Sockets -> ReadyStates],
         NEW d \in [Sockets -> BOOLEAN], NEW t \in BOOLEAN, NEW m \in BOOLEAN,
         w # None => c[w] # "none" /\ ~ d[w] /\ ~ m,
         t => ~ m,
         ConnectFrom(w, c, d, t, m)
  PROVE  /\ BrowserType' /\ ws' # None
         /\ client'[ws'] # "none" /\ ~ deaf'[ws'] /\ ~ manuallyClosed' /\ timer' = t
<1>1. CASE Connected(w, c) /\ ws' = w /\ client' = c /\ deaf' = d /\ manuallyClosed' = m
  BY <1>1 DEF ConnectFrom, Connected, BrowserType
<1>2. CASE ~ (Connected(w, c) /\ ws' = w /\ client' = c /\ deaf' = d /\ manuallyClosed' = m)
  <2>1. /\ CanConnect /\ timer' = t /\ manuallyClosed' = FALSE /\ ws' = Free
        /\ client' = [c EXCEPT ![Free] = "connecting"] /\ deaf' = [d EXCEPT ![Free] = FALSE]
    BY <1>2 DEF ConnectFrom
  <2>2. Free \in Sockets
    BY <2>1, FreeFacts
  <2>. QED
    BY <2>1, <2>2, SocketsFacts DEF BrowserType, ReadyStates
<1>. QED
  BY <1>1, <1>2

LEMMA InitInv == Init => Inv
BY DEF Init, Inv, BrowserType, SocketInv, ReadyStates
-----------------------------------------------------------------------------
LEMMA TypedBrowser ==
  ASSUME Inv
  PROVE  /\ client \in [Sockets -> ReadyStates] /\ deaf \in [Sockets -> BOOLEAN]
         /\ ws \in Sockets \cup {None} /\ timer \in BOOLEAN /\ manuallyClosed \in BOOLEAN
BY DEF Inv, BrowserType

\* Connecting, from a dashboard or from the Events page.
LEMMA ConnectStep == ASSUME Inv, connectWebSocket PROVE Inv'
<1>1. /\ ws # None => client[ws] # "none" /\ ~ deaf[ws] /\ ~ manuallyClosed
      /\ timer => ~ manuallyClosed
  BY DEF Inv, SocketInv
<1>2. ConnectFrom(ws, client, deaf, timer, manuallyClosed)
  BY DEF connectWebSocket
<1>3. /\ BrowserType' /\ ws' # None
      /\ client'[ws'] # "none" /\ ~ deaf'[ws'] /\ ~ manuallyClosed'
  BY <1>1, <1>2, TypedBrowser, ConnectInv
<1>. QED
  BY <1>3 DEF Inv, SocketInv

\* Connecting when the timer fires.
LEMMA TimerStep == ASSUME Inv, TimerFires PROVE Inv'
<1>1. ws # None => client[ws] # "none" /\ ~ deaf[ws] /\ ~ manuallyClosed
  BY DEF Inv, SocketInv
<1>2. ConnectFrom(ws, client, deaf, FALSE, manuallyClosed)
  BY DEF TimerFires
<1>3. /\ BrowserType' /\ ws' # None
      /\ client'[ws'] # "none" /\ ~ deaf'[ws'] /\ ~ manuallyClosed'
  BY <1>1, <1>2, TypedBrowser, ConnectInv
<1>. QED
  BY <1>3 DEF Inv, SocketInv

\* The Events page follows a dashboard: disconnect, then connect.
LEMMA ReconnectStep ==
  ASSUME Inv, ConnectFrom(None, Closing(client, ws), Deafened, FALSE, TRUE)
  PROVE  Inv'
<1>1. Closing(client, ws) \in [Sockets -> ReadyStates] /\ Deafened \in [Sockets -> BOOLEAN]
  BY TypedBrowser, ClosingType, DeafenedType DEF Inv
<1>2. /\ BrowserType' /\ ws' # None
      /\ client'[ws'] # "none" /\ ~ deaf'[ws'] /\ ~ manuallyClosed'
  BY <1>1, ConnectInv
<1>. QED
  BY <1>2 DEF Inv, SocketInv

LEMMA DisconnectStep ==
  ASSUME Inv, Disconnected, page' # "events"
  PROVE  Inv'
<1>1. Closing(client, ws) \in [Sockets -> ReadyStates] /\ Deafened \in [Sockets -> BOOLEAN]
  BY TypedBrowser, ClosingType, DeafenedType DEF Inv
<1>. QED
  BY <1>1 DEF Disconnected, Inv, SocketInv, BrowserType

\* The end of a socket: if ws holds it, it is heard and the timer is set.
LEMMA CloseStep ==
  ASSUME Inv, NEW s \in Sockets, NEW failed \in BOOLEAN, OnClose(s, failed)
  PROVE  Inv'
<1>1. page' = page /\ manuallyClosed' = manuallyClosed /\ deaf' = [deaf EXCEPT ![s] = FALSE]
  BY DEF OnClose, views
<1>2. [client EXCEPT ![s] = "none"] \in [Sockets -> ReadyStates]
  BY TypedBrowser DEF ReadyStates
<1>3. /\ client' \in [Sockets -> ReadyStates]
      /\ \A x \in Sockets : client'[x] = "none" <=> x = s \/ client[x] = "none"
  <2>1. \A x \in Sockets : [client EXCEPT ![s] = "none"][x] = "none" <=> x = s \/ client[x] = "none"
    BY TypedBrowser
  <2>2. CASE failed /\ ws # s
    BY <1>2, <2>1, <2>2, TypedBrowser, ClosingType DEF OnClose
  <2>3. CASE ~ (failed /\ ws # s)
    BY <1>2, <2>1, <2>3 DEF OnClose
  <2>. QED
    BY <2>2, <2>3
<1>4. CASE deaf[s]
  <2>1. ws' = ws /\ timer' = timer
    BY <1>4 DEF OnClose
  <2>2. ws # s
    BY <1>4, SocketsFacts DEF Inv, SocketInv
  <2>3. BrowserType'
    BY <1>1, <1>3, <2>1, TypedBrowser DEF BrowserType
  <2>4. SocketInv'
    BY <1>1, <1>3, <2>1, <2>2, TypedBrowser DEF Inv, SocketInv
  <2>. QED
    BY <2>3, <2>4 DEF Inv
<1>5. CASE ~ deaf[s]
  <2>1. ws' = None /\ timer' = (timer \/ ~ manuallyClosed)
    BY <1>5 DEF OnClose, Reconnects
  <2>2. BrowserType'
    BY <1>1, <1>3, <2>1, TypedBrowser DEF BrowserType
  <2>3. page = "events" => timer \/ ~ manuallyClosed
    BY DEF Inv, SocketInv
  <2>4. SocketInv'
    BY <1>1, <2>1, <2>3, Zenon DEF Inv, SocketInv
  <2>. QED
    BY <2>2, <2>4 DEF Inv
<1>. QED
  BY <1>4, <1>5

LEMMA OpenStep ==
  ASSUME Inv, NEW s \in Sockets, OnOpen(s)
  PROVE  Inv'
<1>1. /\ client' = [client EXCEPT ![s] = "open"]
      /\ UNCHANGED <<deaf, ws, timer, manuallyClosed, page>>
  BY DEF OnOpen, views
<1>2. client' \in [Sockets -> ReadyStates] /\ \A x \in Sockets : client[x] # "none" => client'[x] # "none"
  BY <1>1, TypedBrowser DEF ReadyStates
<1>. QED
  BY <1>1, <1>2, TypedBrowser DEF Inv, BrowserType, SocketInv

LEMMA QuietStep ==
  ASSUME Inv, UNCHANGED browser, page' = page \/ page' # "events"
  PROVE  Inv'
BY DEF Inv, browser, BrowserType, SocketInv

LEMMA NextInv == Inv /\ [Next]_vars => Inv'
<1> SUFFICES ASSUME Inv, [Next]_vars PROVE Inv'
  OBVIOUS
<1>1. CASE TimerFires
  BY <1>1, TimerStep
<1>2. CASE Leave
  BY <1>2, DisconnectStep DEF Leave
<1>3. CASE MountEvents
  BY <1>3, ConnectStep, ReconnectStep DEF MountEvents
<1>4. CASE MountDashboard
  <2>1. page' # "events"
    BY <1>4 DEF MountDashboard
  <2>. QED
    BY <1>4, <2>1, DisconnectStep, QuietStep DEF MountDashboard
<1>5. CASE DashboardConnects
  BY <1>5, ConnectStep DEF DashboardConnects
<1>6. ASSUME NEW s \in Sockets, NEW failed \in BOOLEAN, OnClose(s, failed) PROVE Inv'
  BY <1>6, CloseStep
<1>7. ASSUME NEW s \in Sockets, OnOpen(s) PROVE Inv'
  BY <1>7, OpenStep
<1>8. CASE UNCHANGED <<browser, page>>
  BY <1>8, QuietStep
<1>. QED
  BY <1>1, <1>2, <1>3, <1>4, <1>5, <1>6, <1>7, <1>8
     DEF Next, Insert, Broadcast, Crash, FilterChanges, Accept, Lag, HandleMessage,
         LoadAnswered, LoadSets, views, vars

\* However sockets open, fail and close, and whatever pages are left and mounted in
\* between, the Events page keeps a way to connect.
THEOREM AlwaysReconnects == Spec => []NeverStranded
<1>1. Inv => NeverStranded
  BY DEF Inv, SocketInv, NeverStranded
<1>. QED
  BY InitInv, NextInv, <1>1, PTL DEF Spec
-----------------------------------------------------------------------------
(* What the page shows.                                                    *)

FeedType ==
  /\ emitted \in Nat /\ emitting \subseteq 1..emitted /\ log \subseteq 1..emitted
  /\ chan \in Seq(Nat) /\ Range(chan) \subseteq 1..emitted
  /\ list \in Seq(Nat) /\ Range(list) \subseteq 1..emitted
  /\ pump \in [Sockets -> BOOLEAN] /\ cursor \in [Sockets -> Nat \ {0}]
  /\ \A s \in Sockets : cursor[s] <= Len(chan) + 1
  /\ history \in [Loads -> SUBSET (1..emitted)]
  /\ late \in BOOLEAN

\* Unless a dashboard that was left has connected, every socket that is heard is
\* the one that ws holds, and nothing connects while it holds one.
OneSocket ==
  /\ mounting => page = "dashboard"
  /\ \A s \in Sockets : (deaf[s] => client[s] = "closing") /\ (pump[s] => client[s] # "none")
  /\ ~late =>
       /\ \A s \in Sockets : client[s] # "none" /\ ~deaf[s] => s = ws
       /\ timer => ws = None
       /\ page = "other" \/ (page = "dashboard" /\ mounting) => ws = None /\ ~timer

\* An event is sent once, and what a socket is still to bring is not shown, unless
\* the history brought it.
SentOnce ==
  /\ \A i, j \in DOMAIN chan : chan[i] = chan[j] => i = j
  /\ Range(chan) \cap emitting = {}
  /\ Range(list) \cap emitting \subseteq loaded

ShownOnce ==
  ~late =>
    /\ \A s \in Sockets : Unheard(s) \cap Range(list) \subseteq loaded
    /\ \A i, j \in DOMAIN list : list[i] = list[j] => i = j \/ list[i] \in loaded

\* Nothing is lost without a reason.
Kept ==
  \A e \in 1..emitted :
    e \in emitting \/ e \in gone \/ e \in Range(list) \/ \E s \in Sockets : e \in Unheard(s)

FeedInv == FeedType /\ OneSocket /\ SentOnce /\ ShownOnce /\ Kept

LEMMA ConstantFacts ==
  /\ Capacity \in Nat \ {0} /\ ListMax \in Nat \ {0}
  /\ None \notin Sockets /\ \A s \in Sockets : s # None
BY TelemetryAssumption, SocketsFacts

LEMMA UnheardFacts ==
  ASSUME NEW s \in Sockets
  PROVE  \A e : e \in Unheard(s) <=>
           Live(s) /\ pump[s] /\ \E i \in DOMAIN chan : i >= cursor[s] /\ e = chan[i]
BY SocketsFacts DEF Unheard, Ahead

LEMMA UnheardNext ==
  ASSUME NEW s \in Sockets
  PROVE  \A e : e \in Unheard(s)' <=>
           Live(s)' /\ pump'[s] /\ \E i \in DOMAIN chan' : i >= cursor'[s] /\ e = chan'[i]
BY SocketsFacts DEF Unheard, Ahead, Live

\* Nobody hears more than before, and what is not heard any more is gone.
Loses ==
  \A s \in Sockets : Unheard(s)' \subseteq Unheard(s) /\ Unheard(s) \subseteq Unheard(s)' \cup gone'

LEMMA LosesFeed ==
  ASSUME FeedInv, Loses, UNCHANGED <<emitted, list, loaded>>, gone \subseteq gone',
         emitting' \subseteq emitting, emitting \subseteq emitting' \cup gone',
         chan' = chan \/ chan' = <<>>, late => late'
  PROVE  SentOnce' /\ ShownOnce' /\ Kept'
<1>1. SentOnce'
  <2>1. SentOnce
    BY DEF FeedInv
  <2>2. CASE chan' = chan
    BY <2>1, <2>2 DEF SentOnce, Range
  <2>3. CASE chan' = <<>>
    <3>1. DOMAIN chan' = {}
      BY <2>3
    <3>. QED
      BY <2>1, <3>1 DEF SentOnce, Range
  <2>. QED
    BY <2>2, <2>3
<1>2. ShownOnce'
  <2>1. ShownOnce
    BY DEF FeedInv
  <2>. QED
    BY <2>1 DEF ShownOnce, Loses, Range
<1>3. Kept'
  <2>1. Kept
    BY DEF FeedInv
  <2> SUFFICES ASSUME NEW e \in 1..emitted
               PROVE  (e \in emitting \/ e \in gone \/ e \in Range(list)
                         \/ \E s \in Sockets : e \in Unheard(s))'
    BY DEF Kept
  <2>2. CASE e \in emitting \/ e \in gone \/ e \in Range(list)
    BY <2>2 DEF Range
  <2>3. CASE \E s \in Sockets : e \in Unheard(s)
    BY <2>3 DEF Loses
  <2>. QED
    BY <2>1, <2>2, <2>3 DEF Kept
<1>. QED
  BY <1>1, <1>2, <1>3

LEMMA FeedTypeStays ==
  ASSUME FeedType, UNCHANGED <<engine, sockets, list, history>>, late' \in BOOLEAN
  PROVE  FeedType'
BY DEF FeedType, engine, sockets, Range
-----------------------------------------------------------------------------
(* Connecting and disconnecting.                                           *)

LEMMA ConnectClient ==
  ASSUME OneSocket, NEW w, NEW c \in [Sockets -> ReadyStates], NEW d, NEW t, NEW m,
         \A s \in Sockets : c[s] = "none" <=> client[s] = "none",
         ConnectFrom(w, c, d, t, m)
  PROVE  \A s \in Sockets : client'[s] = c[s] \/ ~pump[s]
<1>1. CASE client' = c
  BY <1>1
<1>2. CASE client' # c
  <2>1. CanConnect /\ client' = [c EXCEPT ![Free] = "connecting"]
    BY <1>2 DEF ConnectFrom
  <2>2. Free \in Sockets /\ client[Free] = "none"
    BY <2>1, FreeFacts
  <2>. QED
    BY <2>1, <2>2 DEF OneSocket
<1>. QED
  BY <1>1, <1>2

LEMMA HearsTheSame ==
  ASSUME UNCHANGED sockets, \A s \in Sockets : client'[s] = client[s] \/ ~pump[s]
  PROVE  Loses
<1>1. ASSUME NEW s \in Sockets PROVE \A e : e \in Unheard(s)' <=> e \in Unheard(s)
  <2>1. Live(s)' = Live(s) \/ ~pump[s]
    BY DEF Live
  <2>2. pump' = pump /\ chan' = chan /\ cursor' = cursor
    BY DEF sockets
  <2>. QED
    BY <2>1, <2>2, UnheardFacts, UnheardNext
<1>. QED
  BY <1>1 DEF Loses

\* close() of the socket in ws loses what it was to bring.
LEMMA ClosingLoses ==
  ASSUME Inv, UNCHANGED sockets, gone' = gone \cup Unheard(ws),
         \A s \in Sockets : client'[s] = Closing(client, ws)[s] \/ ~pump[s]
  PROVE  Loses
<1>1. ASSUME NEW s \in Sockets
      PROVE  /\ Unheard(s)' \subseteq Unheard(s)
             /\ Unheard(s) \subseteq Unheard(s)' \cup gone'
  <2>0. pump' = pump /\ chan' = chan /\ cursor' = cursor
    BY DEF sockets
  <2>1. CASE s = ws
    <3>1. Live(s)' /\ pump[s] => Live(s)
      BY <2>1, ConstantFacts, TypedBrowser DEF Live, Closing
    <3>. QED
      BY <2>0, <2>1, <3>1, UnheardFacts, UnheardNext
  <2>2. CASE s # ws
    <3>1. Closing(client, ws)[s] = client[s]
      BY <2>2, TypedBrowser DEF Closing
    <3>2. Live(s)' = Live(s) \/ ~pump[s]
      BY <3>1 DEF Live
    <3>. QED
      BY <2>0, <3>2, UnheardFacts, UnheardNext
  <2>. QED
    BY <2>1, <2>2
<1>. QED
  BY <1>1 DEF Loses
-----------------------------------------------------------------------------
(* One socket is heard.                                                    *)

LEMMA ConnectOne ==
  ASSUME Inv, OneSocket, NEW w, NEW c \in [Sockets -> ReadyStates],
         NEW d \in [Sockets -> BOOLEAN], NEW t \in BOOLEAN, NEW m,
         \A s \in Sockets : c[s] = "none" <=> client[s] = "none",
         \A s \in Sockets : d[s] => c[s] = "closing",
         ~late' => w = None /\ ~t /\ \A s \in Sockets : c[s] # "none" => d[s],
         ConnectFrom(w, c, d, t, m), UNCHANGED pump,
         ~late' => page' # "other" /\ ~(page' = "dashboard" /\ mounting'),
         mounting' => page' = "dashboard"
  PROVE  OneSocket'
<1>1. timer' = t /\ pump' = pump
  BY DEF ConnectFrom
<1>2. CASE client' = c /\ deaf' = d /\ ws' = w /\ Connected(w, c)
  <2>1. late'
    BY <1>2 DEF Connected
  <2>. QED
    BY <1>1, <1>2, <2>1 DEF OneSocket
<1>3. CASE ~(client' = c /\ deaf' = d /\ ws' = w /\ Connected(w, c))
  <2>1. /\ CanConnect /\ ws' = Free /\ client' = [c EXCEPT ![Free] = "connecting"]
        /\ deaf' = [d EXCEPT ![Free] = FALSE]
    BY <1>3 DEF ConnectFrom
  <2>2. Free \in Sockets /\ client[Free] = "none"
    BY <2>1, FreeFacts
  <2>3. \A s \in Sockets :
          /\ s # Free => client'[s] = c[s] /\ deaf'[s] = d[s]
          /\ s = Free => client'[s] = "connecting" /\ ~deaf'[s]
    BY <2>1, <2>2
  <2>4. \A s \in Sockets : (deaf'[s] => client'[s] = "closing") /\ (pump'[s] => client'[s] # "none")
    BY <1>1, <2>2, <2>3 DEF OneSocket
  <2>5. ~late' => \A s \in Sockets : client'[s] # "none" /\ ~deaf'[s] => s = ws'
    BY <2>1, <2>3
  <2>. QED
    BY <1>1, <2>4, <2>5 DEF OneSocket
<1>. QED
  BY <1>2, <1>3

\* Without a late dashboard no socket is heard when ws holds none.
LEMMA NoneHeard ==
  ASSUME OneSocket, ~late, ws = None
  PROVE  \A s \in Sockets : client[s] # "none" => deaf[s]
BY SocketsFacts DEF OneSocket

LEMMA DisconnectedFacts ==
  ASSUME Inv, OneSocket
  PROVE  /\ Closing(client, ws) \in [Sockets -> ReadyStates] /\ Deafened \in [Sockets -> BOOLEAN]
         /\ \A s \in Sockets : Closing(client, ws)[s] = "none" <=> client[s] = "none"
         /\ \A s \in Sockets : Deafened[s] => Closing(client, ws)[s] = "closing"
         /\ ~late => \A s \in Sockets : Closing(client, ws)[s] # "none" => Deafened[s]
<1>1. /\ Closing(client, ws) \in [Sockets -> ReadyStates] /\ Deafened \in [Sockets -> BOOLEAN]
      /\ \A s \in Sockets : Closing(client, ws)[s] = "none" <=> client[s] = "none"
  BY TypedBrowser, ClosingType, DeafenedType DEF Inv
<1>2. \A s \in Sockets : s = ws \/ Deafened[s] = deaf[s]
  BY TypedBrowser DEF Deafened
<1>3. ws # None => Deafened[ws]
  BY TypedBrowser DEF Deafened
<1>4. \A s \in Sockets : s = ws \/ Closing(client, ws)[s] = client[s]
  BY TypedBrowser DEF Closing
<1>5. ws # None => Closing(client, ws)[ws] = "closing"
  BY TypedBrowser DEF Closing, Inv, SocketInv, ReadyStates
<1>. QED
  BY <1>1, <1>2, <1>3, <1>4, <1>5, SocketsFacts DEF OneSocket

LEMMA DisconnectOne ==
  ASSUME Inv, OneSocket, Disconnected, UNCHANGED <<pump, late>>,
         mounting' => page' = "dashboard"
  PROVE  OneSocket'
BY DisconnectedFacts DEF Disconnected, OneSocket

LEMMA CloseOne ==
  ASSUME Inv, FeedType, OneSocket, NEW s \in Sockets, NEW failed \in BOOLEAN, OnClose(s, failed)
  PROVE  OneSocket'
<1>1. /\ page' = page /\ mounting' = mounting /\ late' = late
      /\ deaf' = [deaf EXCEPT ![s] = FALSE] /\ pump' = [pump EXCEPT ![s] = FALSE]
      /\ client[s] # "none"
  BY DEF OnClose, views
<1>2. [client EXCEPT ![s] = "none"] \in [Sockets -> ReadyStates]
  BY TypedBrowser DEF ReadyStates
<1>3. /\ \A x \in Sockets : client'[x] = "none" <=> x = s \/ client[x] = "none"
      /\ \A x \in Sockets : x # s /\ client[x] = "closing" => client'[x] = "closing"
  <2>1. \A x \in Sockets : [client EXCEPT ![s] = "none"][x] = IF x = s THEN "none" ELSE client[x]
    BY TypedBrowser
  <2>2. CASE failed /\ ws # s
    <3>1. client' = Closing([client EXCEPT ![s] = "none"], ws)
      BY <2>2 DEF OnClose
    <3>2. \A x \in Sockets :
            \/ client'[x] = [client EXCEPT ![s] = "none"][x]
            \/ (client'[x] = "closing" /\ [client EXCEPT ![s] = "none"][x] # "none")
      BY <1>2, <3>1 DEF Closing
    <3>. QED
      BY <2>1, <3>2
  <2>3. CASE ~ (failed /\ ws # s)
    BY <1>2, <2>1, <2>3 DEF OnClose
  <2>. QED
    BY <2>2, <2>3
<1>4. \A x \in Sockets :
        /\ deaf'[x] => x # s /\ deaf[x]
        /\ pump'[x] => x # s /\ pump[x]
        /\ x # s => deaf'[x] = deaf[x]
  BY <1>1, TypedBrowser DEF FeedType
<1>5. \A x \in Sockets : (deaf'[x] => client'[x] = "closing") /\ (pump'[x] => client'[x] # "none")
  BY <1>3, <1>4 DEF OneSocket
<1>6. CASE deaf[s]
  <2>1. ws' = ws /\ timer' = timer
    BY <1>6 DEF OnClose
  <2>. QED
    BY <1>1, <1>3, <1>4, <1>5, <2>1 DEF OneSocket
<1>7. CASE ~deaf[s]
  <2>1. ws' = None /\ (timer' => timer \/ ~manuallyClosed)
    BY <1>7 DEF OnClose, Reconnects
  <2>2. ~late => s = ws
    BY <1>1, <1>7 DEF OneSocket
  <2>3. ~late => \A x \in Sockets : client'[x] # "none" => deaf'[x]
    BY <1>3, <1>4, <2>2 DEF OneSocket
  <2>4. ~late => ~(page = "other" \/ (page = "dashboard" /\ mounting))
    BY <2>2, SocketsFacts DEF OneSocket
  <2>. QED
    BY <1>1, <1>5, <2>1, <2>3, <2>4 DEF OneSocket
<1>. QED
  BY <1>6, <1>7

LEMMA QuietOne ==
  ASSUME OneSocket, UNCHANGED <<browser, page, mounting, late>>,
         \A s \in Sockets : pump'[s] => pump[s] \/ client[s] = "connecting"
  PROVE  OneSocket'
BY DEF OneSocket, browser

LEMMA NextOne ==
  ASSUME Inv, FeedType, OneSocket, [Next]_vars
  PROVE  OneSocket'
<1>1. CASE TimerFires
  <2>1. ConnectFrom(ws, client, deaf, FALSE, manuallyClosed) /\ UNCHANGED <<pump, page, mounting, late>>
    BY <1>1 DEF TimerFires, sockets, views, ghosts
  <2>2. ~late => ws = None /\ ~(page = "other" \/ (page = "dashboard" /\ mounting))
    BY <1>1 DEF TimerFires, OneSocket
  <2>3. (mounting => page = "dashboard") /\ \A s \in Sockets : deaf[s] => client[s] = "closing"
    BY DEF OneSocket
  <2>. QED
    BY <2>1, <2>2, <2>3, TypedBrowser, NoneHeard, ConnectOne
<1>2. CASE Leave
  BY <1>2, DisconnectOne DEF Leave, LeavesDashboard, sockets
<1>3. CASE MountEvents
  <2>1. page' = "events" /\ mounting' = FALSE /\ UNCHANGED <<pump, late>>
    BY <1>3 DEF MountEvents, LeavesDashboard, sockets
  <2>2. CASE page = "other"
    <3>1. ConnectFrom(ws, client, deaf, timer, manuallyClosed)
      BY <1>3, <2>2 DEF MountEvents, connectWebSocket
    <3>2. ~late => ws = None /\ ~timer
      BY <2>2 DEF OneSocket
    <3>3. \A s \in Sockets : deaf[s] => client[s] = "closing"
      BY DEF OneSocket
    <3>. QED
      BY <2>1, <3>1, <3>2, <3>3, TypedBrowser, NoneHeard, ConnectOne
  <2>3. CASE page # "other"
    <3>1. ConnectFrom(None, Closing(client, ws), Deafened, FALSE, TRUE)
      BY <1>3, <2>3 DEF MountEvents
    <3>. QED
      BY <2>1, <3>1, DisconnectedFacts, ConnectOne
  <2>. QED
    BY <2>2, <2>3
<1>4. CASE MountDashboard
  <2>1. page' = "dashboard" /\ UNCHANGED <<pump, late>>
    BY <1>4 DEF MountDashboard, sockets
  <2>2. CASE page = "other"
    BY <1>4, <2>1, <2>2 DEF MountDashboard, browser, OneSocket
  <2>3. CASE page # "other"
    BY <1>4, <2>1, <2>3, DisconnectOne DEF MountDashboard
  <2>. QED
    BY <2>2, <2>3
<1>5. CASE DashboardConnects
  <2>1. ConnectFrom(ws, client, deaf, timer, manuallyClosed) /\ UNCHANGED <<pump, page>>
    BY <1>5 DEF DashboardConnects, connectWebSocket, sockets
  <2>2. /\ mounting' => page' = "dashboard"
        /\ ~late' => ~late /\ mounting /\ ~mounting'
    BY <1>5 DEF DashboardConnects, OneSocket
  <2>3. ~late' => ws = None /\ ~timer /\ ~late /\ page' = "dashboard"
    BY <2>1, <2>2 DEF OneSocket
  <2>4. \A s \in Sockets : deaf[s] => client[s] = "closing"
    BY DEF OneSocket
  <2>. QED
    BY <2>1, <2>2, <2>3, <2>4, TypedBrowser, NoneHeard, ConnectOne
<1>6. ASSUME NEW s \in Sockets, NEW failed \in BOOLEAN, OnClose(s, failed) PROVE OneSocket'
  BY <1>6, CloseOne
<1>7. ASSUME NEW s \in Sockets, OnOpen(s) PROVE OneSocket'
  <2>1. /\ client' = [client EXCEPT ![s] = "open"] /\ client[s] = "connecting"
        /\ UNCHANGED <<deaf, ws, timer, manuallyClosed, page, mounting, late, pump>>
    BY <1>7 DEF OnOpen, views, ghosts, sockets
  <2>2. \A x \in Sockets : client'[x] = IF x = s THEN "open" ELSE client[x]
    BY <2>1, TypedBrowser
  <2>. QED
    BY <2>1, <2>2 DEF OneSocket
<1>8. ASSUME NEW s \in Sockets, Accept(s) PROVE OneSocket'
  <2>1. /\ pump' = [pump EXCEPT ![s] = TRUE] /\ client[s] = "connecting"
        /\ UNCHANGED <<browser, page, mounting, late>>
    BY <1>8 DEF Accept, views, ghosts
  <2>2. \A x \in Sockets : pump'[x] => pump[x] \/ client[x] = "connecting"
    BY <2>1 DEF FeedType
  <2>. QED
    BY <2>1, <2>2, QuietOne
<1>9. CASE Crash
  BY <1>9, QuietOne DEF Crash, views
<1>10. CASE UNCHANGED <<browser, page, mounting, late, pump>>
  BY <1>10, QuietOne
<1>. QED
  BY <1>1, <1>2, <1>3, <1>4, <1>5, <1>6, <1>7, <1>8, <1>9, <1>10
     DEF Next, Insert, Broadcast, FilterChanges, Lag, HandleMessage, LoadAnswered, LoadSets,
         sockets, views, ghosts, vars
-----------------------------------------------------------------------------
(* The feed.                                                               *)

LEMMA AppendFacts ==
  ASSUME NEW l \in Seq(Nat), NEW x \in Nat
  PROVE  /\ Append(l, x) \in Seq(Nat) /\ Len(Append(l, x)) = Len(l) + 1 /\ Len(l) \in Nat
         /\ DOMAIN l = 1..Len(l) /\ DOMAIN Append(l, x) = 1..(Len(l) + 1)
         /\ \A i \in 1..Len(l) : Append(l, x)[i] = l[i]
         /\ Append(l, x)[Len(l) + 1] = x
         /\ Range(Append(l, x)) = Range(l) \cup {x}
<1> DEFINE u == Append(l, x)
<1>1. /\ u \in Seq(Nat) /\ Len(u) = Len(l) + 1 /\ Len(l) \in Nat
      /\ DOMAIN l = 1..Len(l) /\ DOMAIN u = 1..(Len(l) + 1)
      /\ \A i \in 1..Len(l) : u[i] = l[i]
      /\ u[Len(l) + 1] = x
  OBVIOUS
<1> HIDE DEF u
<1>2. Range(u) = Range(l) \cup {x}
  <2>1. \A i \in DOMAIN u : i \in DOMAIN l \/ i = Len(l) + 1
    BY <1>1
  <2>2. Len(l) + 1 \in DOMAIN u /\ \A i \in DOMAIN l : i \in DOMAIN u
    BY <1>1
  <2>. QED
    BY <1>1, <2>1, <2>2 DEF Range
<1>. QED
  BY <1>1, <1>2 DEF u

\* The event in front, and what the cut leaves of the others.
LEMMA CutFacts ==
  ASSUME NEW l \in Seq(Nat), NEW x \in Nat
  PROVE  /\ Cut(<<x>> \o l) \in Seq(Nat)
         /\ 1 \in DOMAIN Cut(<<x>> \o l) /\ Cut(<<x>> \o l)[1] = x
         /\ \A i \in DOMAIN Cut(<<x>> \o l) : i = 1 \/ (i - 1 \in DOMAIN l /\ Cut(<<x>> \o l)[i] = l[i - 1])
         /\ \A i \in DOMAIN Cut(<<x>> \o l) : i \in Nat
<1> DEFINE u == <<x>> \o l  n == IF Len(u) < ListMax THEN Len(u) ELSE ListMax
<1>1. <<x>> \in Seq(Nat) /\ Len(<<x>>) = 1 /\ <<x>>[1] = x
  OBVIOUS
<1>2. /\ u \in Seq(Nat) /\ Len(u) = Len(l) + 1 /\ Len(l) \in Nat /\ u[1] = x
      /\ \A i \in 2..(Len(l) + 1) : u[i] = l[i - 1]
  <2>1. /\ u \in Seq(Nat) /\ Len(u) = 1 + Len(l)
        /\ \A i \in 1..(1 + Len(l)) : u[i] = IF i <= 1 THEN <<x>>[i] ELSE l[i - 1]
    BY <1>1, ConcatProperties
  <2>2. Len(l) \in Nat
    OBVIOUS
  <2> HIDE DEF u
  <2>. QED
    BY <1>1, <2>1, <2>2
<1> HIDE DEF u
<1>3. n \in Nat /\ n >= 1 /\ n <= Len(l) + 1
  BY <1>2, ConstantFacts
<1>4. Cut(u) = SubSeq(u, 1, n)
  BY DEF Cut
<1> HIDE DEF n
<1>5. /\ SubSeq(u, 1, n) \in Seq(Nat) /\ Len(SubSeq(u, 1, n)) = n
      /\ \A i \in 1..n : SubSeq(u, 1, n)[i] = u[i]
  <2>1. \A i \in 1..n : u[i] \in Nat
    BY <1>2, <1>3
  <2>. QED
    BY <1>3, <2>1
<1>6. DOMAIN SubSeq(u, 1, n) = 1..n
  BY <1>5
<1> DEFINE v == Cut(u)
<1>7. v \in Seq(Nat) /\ DOMAIN v = 1..n /\ \A i \in 1..n : v[i] = u[i]
  BY <1>4, <1>5, <1>6
<1> HIDE DEF v
<1>8. 1 \in 1..n /\ DOMAIN l = 1..Len(l)
  BY <1>3
<1>9. ASSUME NEW i \in 1..n PROVE i \in Nat /\ (i = 1 \/ (i - 1 \in DOMAIN l /\ v[i] = l[i - 1]))
  <2>1. i = 1 \/ (i \in 2..(Len(l) + 1) /\ i - 1 \in 1..Len(l))
    BY <1>2, <1>3
  <2>. QED
    BY <1>2, <1>7, <1>8, <2>1
<1>. QED
  BY <1>2, <1>7, <1>8, <1>9 DEF u, v

LEMMA NewestFirstFacts ==
  ASSUME NEW n \in Nat, NEW events \in SUBSET (1..n), NEW l \in NewestFirst(events)
  PROVE  l \in Seq(Nat) /\ Range(l) = events
<1> DEFINE k == Cardinality(events)
<1>1. IsFiniteSet(events) /\ k \in Nat
  <2>1. IsFiniteSet(1..n)
    BY FS_Interval
  <2>2. IsFiniteSet(events)
    BY <2>1, FS_Subset
  <2>. QED
    BY <2>2, FS_CardinalityType
<1>2. l \in [1..k -> events] /\ \A i, j \in 1..k : i # j => l[i] # l[j]
  BY DEF NewestFirst, SetToSeqs
<1>3. l \in Injection(1..k, events)
  BY <1>2 DEF Injection, IsInjective
<1>4. Cardinality(1..k) = k
  BY <1>1, FS_Interval
<1>5. l \in Surjection(1..k, events)
  BY <1>1, <1>3, <1>4, FS_Injection
<1> HIDE DEF k
<1>6. Range(l) = events
  BY <1>2, <1>5 DEF Surjection, Range
<1>7. l \in Seq(Nat)
  <2>0. events \subseteq Nat
    OBVIOUS
  <2>1. l \in [1..k -> Nat]
    BY <1>2, <2>0
  <2>. QED
    BY <1>1, <2>1
<1>. QED
  BY <1>6, <1>7
-----------------------------------------------------------------------------
(* The steps.                                                              *)

LEMMA InsertFeeds == ASSUME FeedInv, Insert PROVE FeedInv'
<1> DEFINE n == emitted + 1
<1>1. /\ emitted' = n /\ emitting' = emitting \cup {n} /\ log' \subseteq log \cup {n}
      /\ UNCHANGED <<chan, pump, cursor, client, deaf, ws, timer, page, mounting, history, list,
                     gone, loaded, late>>
  BY DEF Insert, sockets, browser, views, ghosts
<1>2. FeedType /\ OneSocket /\ SentOnce /\ ShownOnce /\ Kept
  BY DEF FeedInv
<1>3. /\ n \in Nat /\ 1..emitted \subseteq 1..n /\ n \in 1..n /\ n \notin 1..emitted
      /\ 1..n = (1..emitted) \cup {n}
  BY <1>2 DEF FeedType
<1> HIDE DEF n
<1>4. Range(chan') = Range(chan) /\ Range(list') = Range(list)
  BY <1>1
<1>5. FeedType'
  <2>1. history' \in [Loads -> SUBSET (1..n)]
    BY <1>1, <1>2, <1>3 DEF FeedType
  <2>. QED
    BY <1>1, <1>2, <1>3, <1>4, <2>1 DEF FeedType
<1>6. OneSocket'
  BY <1>1, <1>2 DEF OneSocket
<1>7. SentOnce'
  BY <1>1, <1>2, <1>3, <1>4 DEF SentOnce, FeedType
<1>8. \A s \in Sockets : Unheard(s)' = Unheard(s)
  BY <1>1 DEF Unheard, Ahead, Live
<1>9. ShownOnce'
  BY <1>1, <1>2, <1>4, <1>8 DEF ShownOnce
<1>10. Kept'
  BY <1>1, <1>2, <1>3, <1>4, <1>8 DEF Kept
<1>. QED
  BY <1>5, <1>6, <1>7, <1>9, <1>10 DEF FeedInv

LEMMA BroadcastFeeds == ASSUME FeedInv, NEW e, Broadcast(e) PROVE FeedInv'
<1>1. /\ e \in emitting /\ emitting' = emitting \ {e} /\ chan' = Append(chan, e)
      /\ UNCHANGED <<emitted, log, pump, cursor, client, deaf, ws, timer, page, mounting, history,
                     list, loaded, late>>
      /\ gone \subseteq gone'
      /\ ~(\E s \in Sockets : pump[s] /\ Live(s)) => e \in gone'
  BY DEF Broadcast, browser, views
<1>2. FeedType /\ OneSocket /\ SentOnce /\ ShownOnce /\ Kept
  BY DEF FeedInv
<1>3. e \in 1..emitted /\ e \in Nat /\ chan \in Seq(Nat)
  BY <1>1, <1>2 DEF FeedType
<1>4. /\ chan' \in Seq(Nat) /\ Len(chan') = Len(chan) + 1 /\ Len(chan) \in Nat
      /\ DOMAIN chan = 1..Len(chan) /\ DOMAIN chan' = 1..(Len(chan) + 1)
      /\ \A i \in 1..Len(chan) : chan'[i] = chan[i]
      /\ chan'[Len(chan) + 1] = e
      /\ Range(chan') = Range(chan) \cup {e}
  BY <1>1, <1>3, AppendFacts
<1>5. FeedType'
  <2>1. \A s \in Sockets : cursor[s] <= Len(chan') + 1
    BY <1>2, <1>4 DEF FeedType
  <2>2. Range(list') = Range(list)
    BY <1>1
  <2>. QED
    BY <1>1, <1>2, <1>3, <1>4, <2>1, <2>2 DEF FeedType
<1>6. OneSocket'
  BY <1>1, <1>2 DEF OneSocket
<1>7. SentOnce'
  <2>1. e \notin Range(chan)
    BY <1>1, <1>2 DEF SentOnce
  <2>2. \A i \in 1..Len(chan) : chan[i] # e
    BY <1>4, <2>1 DEF Range
  <2>3. \A i \in 1..(Len(chan) + 1) : i \in 1..Len(chan) \/ i = Len(chan) + 1
    BY <1>4
  <2>4. \A i, j \in DOMAIN chan' : chan'[i] = chan'[j] => i = j
    BY <1>2, <1>4, <2>2, <2>3 DEF SentOnce
  <2>5. Range(list') = Range(list)
    BY <1>1
  <2>. QED
    BY <1>1, <1>2, <1>4, <2>4, <2>5 DEF SentOnce
<1>8. ASSUME NEW s \in Sockets
      PROVE  /\ Unheard(s)' \subseteq Unheard(s) \cup {e}
             /\ Unheard(s) \subseteq Unheard(s)'
             /\ pump[s] /\ Live(s) => e \in Unheard(s)'
  <2>1. Live(s)' = Live(s) /\ pump'[s] = pump[s] /\ cursor'[s] = cursor[s]
    BY <1>1 DEF Live
  <2>2. Len(chan) + 1 >= cursor[s]
    BY <1>2, <1>4 DEF FeedType
  <2>3. \A i \in DOMAIN chan' : i \in DOMAIN chan \/ i = Len(chan) + 1
    BY <1>4
  <2>4. Len(chan) + 1 \in DOMAIN chan' /\ \A i \in DOMAIN chan : i \in DOMAIN chan'
    BY <1>4
  <2>. QED
    BY <1>4, <2>1, <2>2, <2>3, <2>4, UnheardFacts, UnheardNext
<1>9. ShownOnce'
  <2>1. e \in Range(list) => e \in loaded
    BY <1>1, <1>2 DEF SentOnce
  <2>2. Range(list') = Range(list)
    BY <1>1
  <2>. QED
    BY <1>1, <1>2, <1>8, <2>1, <2>2 DEF ShownOnce
<1>10. Kept'
  <2>1. e \in gone' \/ \E s \in Sockets : e \in Unheard(s)'
    BY <1>1, <1>8
  <2>2. Range(list') = Range(list)
    BY <1>1
  <2>3. ASSUME NEW f \in 1..emitted
        PROVE  f \in emitting' \/ f \in gone' \/ f \in Range(list') \/ \E s \in Sockets : f \in Unheard(s)'
    BY <1>1, <1>2, <1>8, <2>1, <2>2 DEF Kept
  <2>. QED
    BY <1>1, <2>3 DEF Kept
<1>. QED
  BY <1>5, <1>6, <1>7, <1>9, <1>10 DEF FeedInv

LEMMA HandleFeeds ==
  ASSUME Inv, FeedInv, OneSocket', NEW s \in Sockets, HandleMessage(s) PROVE FeedInv'
<1> DEFINE e == chan[cursor[s]]
<1>1. /\ client[s] = "open" /\ pump[s] /\ Behind(s) \in 1..Capacity
      /\ list' = Cut(<<e>> \o list) /\ gone' = gone \cup (Range(list) \ Range(list'))
      /\ cursor' = [cursor EXCEPT ![s] = cursor[s] + 1]
      /\ UNCHANGED <<emitted, emitting, log, chan, pump, client, deaf, ws, timer, page, mounting,
                     history, loaded, late>>
  BY DEF HandleMessage, engine, browser
<1>2. FeedType /\ OneSocket /\ SentOnce /\ ShownOnce /\ Kept
  BY DEF FeedInv
<1>3. cursor[s] \in DOMAIN chan /\ cursor[s] \in Nat \ {0} /\ cursor[s] <= Len(chan)
  <2>1. Len(chan) - cursor[s] + 1 >= 1
    BY <1>1, ConstantFacts DEF Behind
  <2>2. cursor[s] \in Nat \ {0} /\ Len(chan) \in Nat /\ DOMAIN chan = 1..Len(chan)
    BY <1>2 DEF FeedType
  <2>. QED
    BY <2>1, <2>2
<1>4. e \in Range(chan) /\ e \in 1..emitted /\ e \in Nat /\ list \in Seq(Nat)
  BY <1>2, <1>3 DEF FeedType, Range
<1>5. e \in Unheard(s)
  BY <1>1, <1>3, UnheardFacts DEF Live
<1> HIDE DEF e
<1>6. /\ list' \in Seq(Nat) /\ 1 \in DOMAIN list' /\ list'[1] = e
      /\ \A i \in DOMAIN list' : i \in Nat /\ (i = 1 \/ (i - 1 \in DOMAIN list /\ list'[i] = list[i - 1]))
  BY <1>1, <1>4, CutFacts
<1>7. Range(list') \subseteq Range(list) \cup {e} /\ e \in Range(list')
  BY <1>6 DEF Range
<1>8. \A x \in Sockets : cursor'[x] = IF x = s THEN cursor[s] + 1 ELSE cursor[x]
  BY <1>1, <1>2 DEF FeedType
<1>9. FeedType'
  <2>1. cursor' \in [Sockets -> Nat \ {0}]
    BY <1>1, <1>2, <1>3 DEF FeedType
  <2>2. \A x \in Sockets : cursor'[x] <= Len(chan) + 1
    BY <1>2, <1>3, <1>8 DEF FeedType
  <2>. QED
    BY <1>1, <1>2, <1>4, <1>6, <1>7, <2>1, <2>2 DEF FeedType
<1>10. SentOnce'
  BY <1>1, <1>2, <1>4, <1>7 DEF SentOnce
<1>11. ASSUME NEW x \in Sockets
       PROVE  /\ Unheard(x)' \subseteq Unheard(x)
              /\ Unheard(x) \subseteq Unheard(x)' \cup {e}
              /\ x = s => e \notin Unheard(x)'
  <2>1. Live(x)' = Live(x) /\ pump'[x] = pump[x] /\ chan' = chan
    BY <1>1 DEF Live
  <2>2. CASE x # s
    BY <1>8, <2>1, <2>2, UnheardFacts, UnheardNext
  <2>3. CASE x = s
    <3>1. \A i \in DOMAIN chan : i >= cursor'[x] <=> (i >= cursor[x] /\ i # cursor[s])
      BY <1>2, <1>3, <1>8, <2>3 DEF FeedType
    <3>2. \A i \in DOMAIN chan : chan[i] = e => i = cursor[s]
      BY <1>2, <1>3 DEF SentOnce, e
    <3>. QED
      BY <2>1, <3>1, <3>2, UnheardFacts, UnheardNext DEF e
  <2>. QED
    BY <2>2, <2>3
<1>12. ShownOnce'
  <2> SUFFICES ASSUME ~late
               PROVE  /\ \A x \in Sockets : Unheard(x)' \cap Range(list') \subseteq loaded
                      /\ \A i, j \in DOMAIN list' : list'[i] = list'[j] => i = j \/ list'[i] \in loaded
    BY <1>1 DEF ShownOnce
  <2>1. /\ \A x \in Sockets : Unheard(x) \cap Range(list) \subseteq loaded
        /\ \A i, j \in DOMAIN list : list[i] = list[j] => i = j \/ list[i] \in loaded
    BY <1>2 DEF ShownOnce
  <2>2. ASSUME NEW x \in Sockets, x # s PROVE Unheard(x) = {}
    <3>1. s = ws
      <4>1. client[s] # "none" /\ ~deaf[s]
        BY <1>1, <1>2 DEF OneSocket
      <4>. QED
        BY <1>2, <4>1 DEF OneSocket
    <3>2. ~Live(x)
      <4>1. client[x] = "none" \/ deaf[x]
        BY <1>2, <2>2, <3>1 DEF OneSocket
      <4>. QED
        BY <1>2, <4>1 DEF Live, OneSocket
    <3>. QED
      BY <3>2, UnheardFacts
  <2>3. ASSUME NEW x \in Sockets PROVE Unheard(x)' \cap Range(list') \subseteq loaded
    BY <1>7, <1>11, <2>1, <2>2
  <2>4. e \in Range(list) => e \in loaded
    BY <1>5, <2>1
  <2>5. ASSUME NEW i \in DOMAIN list', NEW j \in DOMAIN list', list'[i] = list'[j]
        PROVE  i = j \/ list'[i] \in loaded
    <3>1. CASE i = 1 /\ j = 1
      BY <3>1
    <3>2. CASE i = 1 \/ j = 1
      <4>1. list'[i] = e
        BY <1>6, <2>5, <3>2
      <4>2. i = j \/ e \in Range(list)
        <5>1. CASE i # 1
          BY <1>6, <4>1, <5>1 DEF Range
        <5>2. CASE j # 1
          BY <1>6, <2>5, <4>1, <5>2 DEF Range
        <5>. QED
          BY <5>1, <5>2
      <4>. QED
        BY <2>4, <4>1, <4>2
    <3>3. CASE i # 1 /\ j # 1
      <4>1. /\ i - 1 \in DOMAIN list /\ list'[i] = list[i - 1]
            /\ j - 1 \in DOMAIN list /\ list'[j] = list[j - 1]
            /\ i \in Nat /\ j \in Nat
        BY <1>6, <3>3
      <4>2. i - 1 = j - 1 \/ list[i - 1] \in loaded
        BY <2>1, <2>5, <4>1
      <4>. QED
        BY <4>1, <4>2
    <3>. QED
      BY <3>2, <3>3
  <2>. QED
    BY <2>3, <2>5
<1>13. Kept'
  <2>1. ASSUME NEW f \in 1..emitted
        PROVE  f \in emitting \/ f \in gone' \/ f \in Range(list') \/ \E x \in Sockets : f \in Unheard(x)'
    <3>1. CASE f \in emitting \/ f \in gone
      BY <1>1, <3>1
    <3>2. CASE f \in Range(list)
      BY <1>1, <3>2
    <3>3. CASE \E x \in Sockets : f \in Unheard(x)
      BY <1>7, <1>11, <3>3
    <3>. QED
      BY <1>2, <3>1, <3>2, <3>3 DEF Kept
  <2>. QED
    BY <1>1, <2>1 DEF Kept
<1>. QED
  BY <1>9, <1>10, <1>12, <1>13 DEF FeedInv

LEMMA SetsFeed == ASSUME FeedInv, NEW l \in Loads, LoadSets(l) PROVE FeedInv'
<1> DEFINE h == history[l]
<1>1. /\ history' = [history EXCEPT ![l] = {}]
      /\ list' \in NewestFirst(h) /\ gone' = (gone \cup Range(list)) \ h /\ loaded' = loaded \cup h
      /\ UNCHANGED <<emitted, emitting, log, chan, pump, cursor, client, deaf, ws, timer, page,
                     mounting, late>>
  BY DEF LoadSets, engine, sockets, browser
<1>2. FeedType /\ OneSocket /\ SentOnce /\ ShownOnce /\ Kept
  BY DEF FeedInv
<1>3. h \in SUBSET (1..emitted) /\ emitted \in Nat
  BY <1>2 DEF FeedType
<1> HIDE DEF h
<1>4. list' \in Seq(Nat) /\ Range(list') = h
  BY <1>1, <1>3, NewestFirstFacts
<1>5. Range(chan') = Range(chan) /\ \A s \in Sockets : Unheard(s)' = Unheard(s)
  BY <1>1 DEF Unheard, Ahead, Live
<1>6. FeedType'
  <2>1. history' \in [Loads -> SUBSET (1..emitted)]
    BY <1>1, <1>2 DEF FeedType
  <2>. QED
    BY <1>1, <1>2, <1>3, <1>4, <1>5, <2>1 DEF FeedType
<1>7. OneSocket'
  BY <1>1, <1>2 DEF OneSocket
<1>8. SentOnce'
  BY <1>1, <1>2, <1>4, <1>5 DEF SentOnce
<1>9. ShownOnce'
  <2>1. \A i \in DOMAIN list' : list'[i] \in loaded'
    BY <1>1, <1>4 DEF Range
  <2>. QED
    BY <1>1, <1>4, <2>1 DEF ShownOnce
<1>10. Kept'
  <2>1. ASSUME NEW f \in 1..emitted
        PROVE  f \in emitting \/ f \in gone' \/ f \in Range(list') \/ \E s \in Sockets : f \in Unheard(s)'
    BY <1>1, <1>2, <1>4, <1>5 DEF Kept
  <2>. QED
    BY <1>1, <2>1 DEF Kept
<1>. QED
  BY <1>6, <1>7, <1>8, <1>9, <1>10 DEF FeedInv
-----------------------------------------------------------------------------
(* The steps that bring nothing. *)

LEMMA CrashFeeds == ASSUME FeedInv, OneSocket', Crash PROVE FeedInv'
<1>1. /\ gone' = gone \cup emitting \cup UNION {Ahead(s) : s \in Sockets}
      /\ emitting' = {} /\ chan' = <<>> /\ pump' = [s \in Sockets |-> FALSE]
      /\ cursor' = [s \in Sockets |-> 1]
      /\ UNCHANGED <<emitted, log, history, list, loaded, late>>
  BY DEF Crash, views
<1>2. FeedType'
  <2>1. chan' \in Seq(Nat) /\ Len(chan') = 0 /\ DOMAIN chan' = {}
    BY <1>1, EmptySeq
  <2>2. Range(chan') = {} /\ Range(list') = Range(list)
    BY <1>1, <2>1 DEF Range
  <2>. QED
    BY <1>1, <2>1, <2>2 DEF FeedInv, FeedType
<1>3. Loses
  <2>1. ASSUME NEW s \in Sockets PROVE Unheard(s)' = {} /\ Unheard(s) \subseteq gone'
    <3>1. Unheard(s)' = {}
      BY <1>1, UnheardNext
    <3>2. Unheard(s) \subseteq Ahead(s) /\ Ahead(s) \subseteq gone'
      BY <1>1 DEF Unheard
    <3>. QED
      BY <3>1, <3>2
  <2>. QED
    BY <2>1 DEF Loses
<1>4. SentOnce' /\ ShownOnce' /\ Kept'
  BY <1>1, <1>3, LosesFeed
<1>. QED
  BY <1>2, <1>4 DEF FeedInv

\* A step of the browser or of a subscription.
LEMMA LosingFeeds ==
  ASSUME FeedInv, FeedType', OneSocket', Loses, UNCHANGED <<engine, chan, list, loaded>>,
         gone \subseteq gone', late => late'
  PROVE  FeedInv'
<1>1. SentOnce' /\ ShownOnce' /\ Kept'
  BY LosesFeed DEF engine
<1>. QED
  BY <1>1 DEF FeedInv

LEMMA AcceptFeeds == ASSUME FeedInv, OneSocket', NEW s \in Sockets, Accept(s) PROVE FeedInv'
<1>1. /\ ~pump[s] /\ pump' = [pump EXCEPT ![s] = TRUE]
      /\ cursor' = [cursor EXCEPT ![s] = Len(chan) + 1]
      /\ UNCHANGED <<engine, emitted, emitting, log, chan, client, history, list, gone, loaded, late>>
  BY DEF Accept, engine, browser, views, ghosts
<1>2. FeedType
  BY DEF FeedInv
<1>3. Len(chan) \in Nat /\ DOMAIN chan = 1..Len(chan)
  BY <1>2 DEF FeedType
<1>4. FeedType'
  <2>1. pump' \in [Sockets -> BOOLEAN] /\ cursor' \in [Sockets -> Nat \ {0}]
    BY <1>1, <1>2, <1>3 DEF FeedType
  <2>2. \A x \in Sockets : cursor'[x] <= Len(chan) + 1
    BY <1>1, <1>2, <1>3 DEF FeedType
  <2>3. Range(chan') = Range(chan) /\ Range(list') = Range(list)
    BY <1>1
  <2>. QED
    BY <1>1, <1>2, <2>1, <2>2, <2>3 DEF FeedType
<1>5. ASSUME NEW x \in Sockets PROVE \A e : e \in Unheard(x)' <=> e \in Unheard(x)
  <2>1. Live(x)' = Live(x) /\ chan' = chan
    BY <1>1 DEF Live
  <2>2. CASE x = s
    <3>1. cursor'[s] = Len(chan) + 1
      BY <1>1, <1>2 DEF FeedType
    <3>2. \A i \in DOMAIN chan : ~(i >= cursor'[s])
      BY <1>3, <3>1
    <3>. QED
      BY <1>1, <2>1, <2>2, <3>2, UnheardFacts, UnheardNext
  <2>3. CASE x # s
    <3>1. pump'[x] = pump[x] /\ cursor'[x] = cursor[x]
      BY <1>1, <1>2, <2>3 DEF FeedType
    <3>. QED
      BY <2>1, <3>1, UnheardFacts, UnheardNext
  <2>. QED
    BY <2>2, <2>3
<1>6. Loses
  BY <1>5 DEF Loses
<1>. QED
  BY <1>1, <1>4, <1>6, LosingFeeds

LEMMA LagFeeds == ASSUME FeedInv, OneSocket', NEW s \in Sockets, Lag(s) PROVE FeedInv'
<1>1. /\ pump[s] /\ Behind(s) > Capacity
      /\ cursor' = [cursor EXCEPT ![s] = Oldest]
      /\ gone' = gone \cup {chan[i] : i \in cursor[s]..(Len(chan) - Capacity)}
      /\ UNCHANGED <<engine, emitted, emitting, log, chan, pump, client, history, list, loaded, late>>
  BY DEF Lag, engine, browser, views
<1>2. FeedType
  BY DEF FeedInv
<1>3. Len(chan) \in Nat /\ DOMAIN chan = 1..Len(chan) /\ cursor[s] \in Nat \ {0} /\ Capacity \in Nat \ {0}
  BY <1>2, ConstantFacts DEF FeedType
<1>4. Oldest \in Nat \ {0} /\ Oldest > cursor[s] /\ Oldest <= Len(chan) + 1 /\ Oldest = Len(chan) - Capacity + 1
  BY <1>1, <1>3 DEF Oldest, Behind
<1>5. \A x \in Sockets : cursor'[x] = IF x = s THEN Oldest ELSE cursor[x]
  BY <1>1, <1>2 DEF FeedType
<1>6. FeedType'
  <2>1. cursor' \in [Sockets -> Nat \ {0}]
    BY <1>1, <1>2, <1>4 DEF FeedType
  <2>2. \A x \in Sockets : cursor'[x] <= Len(chan) + 1
    BY <1>2, <1>4, <1>5 DEF FeedType
  <2>3. Range(chan') = Range(chan) /\ Range(list') = Range(list)
    BY <1>1
  <2>. QED
    BY <1>1, <1>2, <2>1, <2>2, <2>3 DEF FeedType
<1>7. ASSUME NEW x \in Sockets
      PROVE  Unheard(x)' \subseteq Unheard(x) /\ Unheard(x) \subseteq Unheard(x)' \cup gone'
  <2>1. Live(x)' = Live(x) /\ chan' = chan /\ pump' = pump
    BY <1>1 DEF Live
  <2>2. CASE x = s
    <3>1. \A i \in DOMAIN chan : i >= cursor'[s] => i >= cursor[s]
      BY <1>3, <1>4, <1>5
    <3>2. \A i \in DOMAIN chan : i >= cursor[s] => i >= cursor'[s] \/ i \in cursor[s]..(Len(chan) - Capacity)
      BY <1>3, <1>4, <1>5
    <3>3. \A i \in DOMAIN chan : i >= cursor[s] => i >= cursor'[s] \/ chan[i] \in gone'
      BY <1>1, <3>2
    <3>. QED
      BY <2>1, <2>2, <3>1, <3>3, UnheardFacts, UnheardNext
  <2>3. CASE x # s
    BY <1>5, <2>1, <2>3, UnheardFacts, UnheardNext
  <2>. QED
    BY <2>2, <2>3
<1>8. Loses
  BY <1>7 DEF Loses
<1>. QED
  BY <1>1, <1>6, <1>8, LosingFeeds

LEMMA CloseFeeds ==
  ASSUME Inv, FeedInv, OneSocket', NEW s \in Sockets, NEW failed \in BOOLEAN, OnClose(s, failed)
  PROVE  FeedInv'
<1>1. /\ pump' = [pump EXCEPT ![s] = FALSE] /\ cursor' = [cursor EXCEPT ![s] = 1]
      /\ gone' = gone \cup Unheard(s) \cup (IF failed THEN Unheard(ws) ELSE {})
      /\ client' = IF failed /\ ws # s THEN Closing([client EXCEPT ![s] = "none"], ws)
                   ELSE [client EXCEPT ![s] = "none"]
      /\ UNCHANGED <<engine, emitted, emitting, log, chan, history, list, loaded, late>>
  BY DEF OnClose, engine, views
<1>2. FeedType
  BY DEF FeedInv
<1>3. \A x \in Sockets :
        /\ x # s => pump'[x] = pump[x] /\ cursor'[x] = cursor[x]
        /\ x = s => ~pump'[x] /\ cursor'[x] = 1
  BY <1>1, <1>2 DEF FeedType
<1>4. FeedType'
  <2>1. pump' \in [Sockets -> BOOLEAN] /\ cursor' \in [Sockets -> Nat \ {0}]
    BY <1>1, <1>2 DEF FeedType
  <2>2. \A x \in Sockets : cursor'[x] <= Len(chan) + 1
    <3>1. Len(chan) \in Nat
      BY <1>2 DEF FeedType
    <3>. QED
      BY <1>2, <1>3, <3>1 DEF FeedType
  <2>3. Range(chan') = Range(chan) /\ Range(list') = Range(list)
    BY <1>1
  <2>. QED
    BY <1>1, <1>2, <2>1, <2>2, <2>3 DEF FeedType
<1>5. ASSUME NEW x \in Sockets, x # s
      PROVE  client'[x] = client[x] \/ (x = ws /\ failed /\ client'[x] = "closing")
  <2>1. [client EXCEPT ![s] = "none"] \in [Sockets -> ReadyStates] /\ [client EXCEPT ![s] = "none"][x] = client[x]
    BY <1>5, TypedBrowser DEF ReadyStates
  <2>. QED
    BY <1>1, <2>1 DEF Closing
<1>6. ASSUME NEW x \in Sockets
      PROVE  Unheard(x)' \subseteq Unheard(x) /\ Unheard(x) \subseteq Unheard(x)' \cup gone'
  <2>1. CASE x = s
    BY <1>1, <1>3, <2>1, UnheardNext
  <2>2. CASE x # s /\ client'[x] = client[x]
    <3>1. Live(x)' = Live(x) /\ pump'[x] = pump[x] /\ cursor'[x] = cursor[x] /\ chan' = chan
      BY <1>1, <1>3, <2>2 DEF Live
    <3>. QED
      BY <3>1, UnheardFacts, UnheardNext
  <2>3. CASE x = ws /\ failed /\ client'[x] = "closing"
    <3>1. ~Live(x)'
      BY <2>3 DEF Live
    <3>. QED
      BY <1>1, <2>3, <3>1, UnheardNext
  <2>. QED
    BY <1>5, <2>1, <2>2, <2>3
<1>7. Loses
  BY <1>6 DEF Loses
<1>. QED
  BY <1>1, <1>4, <1>7, LosingFeeds

\* The pages connect and disconnect.
LEMMA PagesFeed ==
  ASSUME Inv, FeedInv, OneSocket',
         TimerFires \/ Leave \/ MountEvents \/ MountDashboard \/ DashboardConnects
  PROVE  FeedInv'
<1>0. FeedType /\ OneSocket /\ late \in BOOLEAN
  BY DEF FeedInv, FeedType
<1>1. UNCHANGED <<engine, sockets, list, history, loaded, chan>>
  BY DEF TimerFires, Leave, MountEvents, MountDashboard, DashboardConnects, views, ghosts, sockets
<1>2. (late => late') /\ late' \in BOOLEAN
  <2>1. CASE DashboardConnects
    <3>1. late' = late \/ late' = TRUE
      BY <2>1 DEF DashboardConnects
    <3>. QED
      BY <1>0, <3>1, Zenon
  <2>2. CASE late' = late
    BY <1>0, <2>2
  <2>. QED
    BY <2>1, <2>2 DEF TimerFires, Leave, MountEvents, MountDashboard, views, ghosts
<1>3. FeedType'
  BY <1>0, <1>1, <1>2, FeedTypeStays
<1>4. gone \subseteq gone' /\ Loses
  <2>1. ASSUME NEW t, NEW m, ConnectFrom(ws, client, deaf, t, m) PROVE Loses
    <3>1. \A s \in Sockets : client'[s] = client[s] \/ ~pump[s]
      BY <1>0, <2>1, TypedBrowser, ConnectClient
    <3>. QED
      BY <1>1, <3>1, HearsTheSame
  <2>2. ASSUME ConnectFrom(None, Closing(client, ws), Deafened, FALSE, TRUE), gone' = gone \cup Unheard(ws)
        PROVE  Loses
    <3>1. \A s \in Sockets : client'[s] = Closing(client, ws)[s] \/ ~pump[s]
      BY <1>0, <2>2, DisconnectedFacts, ConnectClient
    <3>. QED
      BY <1>1, <2>2, <3>1, ClosingLoses
  <2>3. ASSUME Disconnected, gone' = gone \cup Unheard(ws) PROVE Loses
    BY <1>1, <2>3, ClosingLoses DEF Disconnected
  <2>4. ASSUME UNCHANGED browser PROVE Loses
    BY <1>1, <2>4, HearsTheSame DEF browser
  <2>5. CASE TimerFires
    BY <2>1, <2>5 DEF TimerFires, ghosts
  <2>6. CASE Leave
    BY <2>3, <2>6 DEF Leave
  <2>7. CASE MountEvents
    BY <2>1, <2>2, <2>7 DEF MountEvents, connectWebSocket
  <2>8. CASE MountDashboard
    BY <2>3, <2>4, <2>8 DEF MountDashboard
  <2>9. CASE DashboardConnects
    BY <2>1, <2>9 DEF DashboardConnects, connectWebSocket
  <2>. QED
    BY <2>5, <2>6, <2>7, <2>8, <2>9
<1>. QED
  BY <1>1, <1>2, <1>3, <1>4, LosingFeeds

LEMMA OpenFeeds == ASSUME Inv, FeedInv, OneSocket', NEW s \in Sockets, OnOpen(s) PROVE FeedInv'
<1>1. /\ client[s] = "connecting" /\ client' = [client EXCEPT ![s] = "open"]
      /\ UNCHANGED <<engine, sockets, chan, pump, cursor, list, history, gone, loaded, late>>
  BY DEF OnOpen, sockets, views, ghosts
<1>2. FeedType'
  BY <1>1, FeedTypeStays DEF FeedInv, FeedType
<1>3. ASSUME NEW x \in Sockets PROVE \A e : e \in Unheard(x)' <=> e \in Unheard(x)
  <2>1. client'[x] = IF x = s THEN "open" ELSE client[x]
    BY <1>1, TypedBrowser
  <2>2. Live(x)' = Live(x)
    BY <1>1, <2>1 DEF Live
  <2>. QED
    BY <1>1, <2>2, UnheardFacts, UnheardNext
<1>4. Loses
  BY <1>3 DEF Loses
<1>. QED
  BY <1>1, <1>2, <1>4, LosingFeeds

\* A request of the history, and its answer.
LEMMA LoadFeeds ==
  ASSUME FeedInv, OneSocket', UNCHANGED <<engine, sockets, browser, list, ghosts>>,
         history' = history \/ \E l \in Loads, h \in SUBSET log : history' = [history EXCEPT ![l] = h]
  PROVE  FeedInv'
<1>1. UNCHANGED <<emitted, emitting, log, chan, pump, cursor, client, list, gone, loaded, late>>
  BY DEF engine, sockets, browser, ghosts
<1>2. FeedType'
  <2>1. history' \in [Loads -> SUBSET (1..emitted)]
    BY DEF FeedInv, FeedType
  <2>2. Range(chan') = Range(chan) /\ Range(list') = Range(list)
    BY <1>1
  <2>. QED
    BY <1>1, <2>1, <2>2 DEF FeedInv, FeedType
<1>3. Loses
  BY <1>1, HearsTheSame
<1>. QED
  BY <1>1, <1>2, <1>3, LosingFeeds

LEMMA NextFeeds == ASSUME Inv, FeedInv, [Next]_vars PROVE FeedInv'
<1>0. OneSocket'
  BY NextOne DEF FeedInv
<1>1. CASE Insert
  BY <1>1, InsertFeeds
<1>2. ASSUME NEW e \in Events, Broadcast(e) PROVE FeedInv'
  BY <1>2, BroadcastFeeds
<1>3. CASE Crash
  BY <1>0, <1>3, CrashFeeds
<1>4. CASE TimerFires \/ Leave \/ MountEvents \/ MountDashboard \/ DashboardConnects
  BY <1>0, <1>4, PagesFeed
<1>5. CASE FilterChanges \/ UNCHANGED vars
  BY <1>0, <1>5, LoadFeeds DEF FilterChanges, vars, views
<1>6. ASSUME NEW s \in Sockets, Accept(s) \/ Lag(s) \/ OnOpen(s) \/ HandleMessage(s) PROVE FeedInv'
  BY <1>0, <1>6, AcceptFeeds, LagFeeds, OpenFeeds, HandleFeeds
<1>7. ASSUME NEW s \in Sockets, NEW failed \in BOOLEAN, OnClose(s, failed) PROVE FeedInv'
  BY <1>0, <1>7, CloseFeeds
<1>8. ASSUME NEW l \in Loads, LoadAnswered(l) PROVE FeedInv'
  <2>1. /\ UNCHANGED <<engine, sockets, browser, list, ghosts>>
        /\ history' = history \/ \E h \in SUBSET log : history' = [history EXCEPT ![l] = h]
    BY <1>8 DEF LoadAnswered
  <2>. QED
    BY <1>0, <2>1, LoadFeeds
<1>9. ASSUME NEW l \in Loads, LoadSets(l) PROVE FeedInv'
  BY <1>9, SetsFeed
<1>. QED
  BY <1>1, <1>2, <1>3, <1>4, <1>5, <1>6, <1>7, <1>8, <1>9 DEF Next

LEMMA InitFeeds == Init => FeedInv
<1> SUFFICES ASSUME Init PROVE FeedInv
  OBVIOUS
<1>1. /\ chan = <<>> /\ list = <<>> /\ DOMAIN chan = {} /\ DOMAIN list = {} /\ Len(chan) = 0
      /\ chan \in Seq(Nat) /\ list \in Seq(Nat)
  BY EmptySeq DEF Init
<1>2. Range(chan) = {} /\ Range(list) = {}
  BY <1>1 DEF Range
<1>3. FeedType
  <2>1. /\ emitted = 0 /\ emitting = {} /\ log = {} /\ late = FALSE
        /\ pump = [s \in Sockets |-> FALSE] /\ cursor = [s \in Sockets |-> 1]
        /\ history = [l \in Loads |-> {}]
    BY DEF Init
  <2>2. pump \in [Sockets -> BOOLEAN] /\ late \in BOOLEAN
    BY <2>1
  <2>3. /\ cursor \in [Sockets -> Nat \ {0}] /\ history \in [Loads -> SUBSET (1..emitted)]
        /\ \A s \in Sockets : cursor[s] <= Len(chan) + 1
    BY <1>1, <2>1
  <2>4. emitted \in Nat /\ emitting \subseteq 1..emitted /\ log \subseteq 1..emitted
    BY <2>1
  <2>. QED
    BY <1>1, <1>2, <2>2, <2>3, <2>4 DEF FeedType
<1>4. OneSocket
  BY DEF Init, OneSocket
<1>5. SentOnce /\ ShownOnce
  BY <1>1, <1>2 DEF Init, SentOnce, ShownOnce
<1>6. Kept
  BY DEF Init, Kept
<1>. QED
  BY <1>3, <1>4, <1>5, <1>6 DEF FeedInv

LEMMA ShownFacts ==
  ASSUME FeedType, NEW e
  PROVE  /\ e \in Range(list) => Shown(e) > 0
         /\ Shown(e) > 1 => \E i, j \in DOMAIN list : i # j /\ list[i] = e /\ list[j] = e
<1> DEFINE at == {i \in DOMAIN list : list[i] = e}
<1>1. IsFiniteSet(at) /\ Cardinality(at) \in Nat
  <2>1. DOMAIN list = 1..Len(list) /\ Len(list) \in Nat
    BY DEF FeedType
  <2>2. IsFiniteSet(1..Len(list))
    BY <2>1, FS_Interval
  <2>3. at \in SUBSET (1..Len(list))
    BY <2>1
  <2>4. IsFiniteSet(at)
    BY <2>2, <2>3, FS_Subset
  <2>. QED
    BY <2>4, FS_CardinalityType
<1>2. Shown(e) = Cardinality(at)
  BY DEF Shown
<1>3. e \in Range(list) => at # {}
  BY DEF Range
<1>4. ASSUME Cardinality(at) > 1 PROVE \E i, j \in at : i # j
  <2>1. Cardinality(at) # 0 /\ Cardinality(at) # 1
    BY <1>4
  <2> HIDE DEF at
  <2>2. at # {} /\ ~\E x : at = {x}
    BY <1>1, <2>1, FS_EmptySet, FS_Singleton
  <2>. QED
    BY <2>2
<1>5. at # {} => Cardinality(at) > 0
  <2> HIDE DEF at
  <2>1. Cardinality(at) = 0 <=> at = {}
    BY <1>1, FS_EmptySet
  <2>. QED
    BY <1>1, <2>1
<1>. QED
  BY <1>2, <1>3, <1>4, <1>5

\* For every number of sockets and events and every size of the channel and of the
\* list: an event that is not on the page has one of the reasons, and it is there
\* twice only when the history brought it or two sockets feed the page.
THEOREM ViewExplained == Spec => []ViewIsExplained
<1>1. Inv /\ FeedInv => ViewIsExplained
  <2> SUFFICES ASSUME Inv, FeedInv PROVE ViewIsExplained
    OBVIOUS
  <2>0. FeedType /\ OneSocket /\ ShownOnce /\ Kept
    BY DEF FeedInv
  <2>1. ASSUME NEW e \in 1..emitted PROVE e \in emitting \/ e \in gone \/ Shown(e) > 0 \/ Coming(e)
    <3>1. ASSUME NEW s \in Sockets, e \in Unheard(s) PROVE Coming(e)
      BY <3>1 DEF Unheard, Coming
    <3>. QED
      BY <2>0, <3>1, ShownFacts DEF Kept
  <2>2. ASSUME NEW e \in 1..emitted, Shown(e) > 1 PROVE e \in loaded \/ late
    BY <2>0, <2>2, ShownFacts DEF ShownOnce
  <2>3. ASSUME NEW s \in Sockets, NEW t \in Sockets, s # t, Live(s), Live(t) PROVE late
    BY <2>0, <2>3 DEF OneSocket, Live
  <2>. QED
    BY <2>1, <2>2, <2>3 DEF ViewIsExplained
<1>2. Inv /\ FeedInv /\ [Next]_vars => FeedInv'
  BY NextFeeds
<1>. QED
  BY InitInv, NextInv, InitFeeds, <1>1, <1>2, PTL DEF Spec
=============================================================================
