---------------------------- MODULE ControlPlane ----------------------------
(***************************************************************************)
(* The two handlers that change the engine at run time: POST /api/mode     *)
(* flips the trading mode, PUT /api/strategy-config changes thresholds.    *)
(* Requests run concurrently; a handler that awaits the database may be    *)
(* overtaken, may see its statement fail, and is dropped where it stands   *)
(* when its client disconnects.                                            *)
(*                                                                         *)
(* The router builds the mode and the thresholds it serves from the        *)
(* configuration; the scheduler and the event log hold others, built from  *)
(* the same configuration.                                                 *)
(***************************************************************************)
EXTENDS Integers, FiniteSets

CONSTANTS
  Requests,   \* the requests to flip the mode
  Updates,    \* the bodies of the requests to change thresholds
  StartParams \* the thresholds of the configuration

Modes == {"paper", "live"}
Fields == {"entry_threshold", "exit_threshold", "sma_window",
           "short_entry_threshold", "short_exit_threshold"}

Bounded(p) ==
  /\ p.entry_threshold > 0 /\ p.exit_threshold < 0
  /\ p.sma_window > 0 /\ p.short_entry_threshold < 0
BandOpen(p) == p.short_exit_threshold > p.short_entry_threshold

\* An update gives some of the fields.
ASSUME ControlAssumption ==
  /\ IsFiniteSet(Requests)
  /\ StartParams \in [Fields -> Int] /\ Bounded(StartParams) /\ BandOpen(StartParams)
  /\ \A u \in Updates : DOMAIN u \subseteq Fields /\ u \in [DOMAIN u -> Int]

VARIABLES
  start_mode,      \* the mode of the configuration
  trading_mode,    \* AppState.trading_mode
  engine_mode,     \* the trading_mode of the scheduler and the EventLogger
  marker,          \* the parity marker at parity_marker_path
  pc,              \* where each request to flip is
  target,          \* the mode it asks for
  previous,        \* the mode it replaced
  mode_switches,   \* the audit table: number of rows with each pair of modes
  mode_events,     \* engine_events: number of mode_changed rows of each pair
  params,          \* AppState.strategy_params
  engine_params    \* the strategy_params of the scheduler

toggle == <<trading_mode, pc, target, previous, mode_switches, mode_events>>
engine == <<start_mode, engine_mode, engine_params>>
vars == <<toggle, engine, marker, params>>

\* Start-up refuses the live mode without a fresh marker.
Init ==
  /\ start_mode \in Modes
  /\ marker \in {"absent", "fresh", "stale"}
  /\ start_mode = "live" => marker = "fresh"
  /\ trading_mode = start_mode
  /\ engine_mode = start_mode
  /\ pc = [r \in Requests |-> "new"]
  /\ target \in [Requests -> Modes]
  /\ previous = [r \in Requests |-> start_mode]
  /\ mode_switches = [p \in Modes \X Modes |-> 0]
  /\ mode_events = [p \in Modes \X Modes |-> 0]
  /\ params = StartParams
  /\ engine_params = StartParams
-----------------------------------------------------------------------------
(* The parity marker. *)

HarnessPasses ==
  /\ marker' = "fresh"
  /\ UNCHANGED <<toggle, engine, params>>

MarkerAges ==
  /\ marker = "fresh"
  /\ marker' = "stale"
  /\ UNCHANGED <<toggle, engine, params>>
-----------------------------------------------------------------------------
(* handle_set_mode. *)

At(r, here, next) == pc[r] = here /\ pc' = [pc EXCEPT ![r] = next]

Pair(r) == <<previous[r], target[r]>>

\* Mutant: the marker is not asked for.
Check_NoMarker(r) ==
  /\ At(r, "new", "checked")
  /\ UNCHANGED <<trading_mode, target, previous, mode_switches, mode_events,
                 engine, marker, params>>

\* The code and, for live, the marker are good.
Check(r) ==
  /\ At(r, "new", "checked")
  /\ target[r] = "live" => marker = "fresh"
  /\ UNCHANGED <<trading_mode, target, previous, mode_switches, mode_events,
                 engine, marker, params>>

\* Mutant: the mode replaced is taken from the configuration.
Flip_OldPrevious(r) ==
  /\ At(r, "checked", "flipped")
  /\ trading_mode' = target[r]
  /\ UNCHANGED <<target, previous, mode_switches, mode_events, engine, marker, params>>

\* The mode replaced is read under the write lock.
Flip(r) ==
  /\ At(r, "checked", "flipped")
  /\ previous' = [previous EXCEPT ![r] = trading_mode]
  /\ trading_mode' = target[r]
  /\ UNCHANGED <<target, mode_switches, mode_events, engine, marker, params>>

insert_mode_switch(r) ==
  /\ At(r, "flipped", "audited")
  /\ mode_switches' = [mode_switches EXCEPT ![Pair(r)] = @ + 1]
  /\ UNCHANGED <<trading_mode, target, previous, mode_events, engine, marker, params>>

\* Nothing is undone when the insert fails or the client goes.
Unaudited(r) ==
  /\ At(r, "flipped", "unaudited")
  /\ UNCHANGED <<trading_mode, target, previous, mode_switches, mode_events,
                 engine, marker, params>>

\* The event is best effort; the broadcast follows at once.
Emit(r) ==
  /\ At(r, "audited", "ended")
  /\ mode_events' \in {mode_events, [mode_events EXCEPT ![Pair(r)] = @ + 1]}
  /\ UNCHANGED <<trading_mode, target, previous, mode_switches, engine, marker, params>>

\* A refusal, or a client that goes before the flip.
Refuse(r) ==
  /\ At(r, "new", "ended") \/ At(r, "checked", "ended")
  /\ UNCHANGED <<trading_mode, target, previous, mode_switches, mode_events,
                 engine, marker, params>>
-----------------------------------------------------------------------------
(* handle_put: the write lock is held from the first field to the last. *)

Order == [entry_threshold |-> 1, exit_threshold |-> 2, sma_window |-> 3,
          short_entry_threshold |-> 4, short_exit_threshold |-> 5]

Overlay(p, u) == [f \in Fields |-> IF f \in DOMAIN u THEN u[f] ELSE p[f]]

\* Mutant: the short exit is compared with the short entry before the update.
Bad_OldEntry(p, u, f) ==
  \/ f = "entry_threshold" /\ u[f] <= 0
  \/ f \in {"exit_threshold", "short_entry_threshold"} /\ u[f] >= 0
  \/ f = "sma_window" /\ u[f] \notin 1..300
  \/ f = "short_exit_threshold" /\ u[f] <= p.short_entry_threshold

\* Mutant: the short entry threshold is not bounded.
Bad_FreeShortEntry(p, u, f) ==
  \/ f = "entry_threshold" /\ u[f] <= 0
  \/ f = "exit_threshold" /\ u[f] >= 0
  \/ f = "sma_window" /\ u[f] \notin 1..300
  \/ f = "short_exit_threshold" /\ u[f] <= Overlay(p, u).short_entry_threshold

\* The short exit is compared with the short entry as this update leaves it.
Bad(p, u, f) ==
  \/ f = "entry_threshold" /\ u[f] <= 0
  \/ f \in {"exit_threshold", "short_entry_threshold"} /\ u[f] >= 0
  \/ f = "sma_window" /\ u[f] \notin 1..300
  \/ f = "short_exit_threshold" /\ u[f] <= Overlay(p, u).short_entry_threshold

\* The first bad field ends the request; those before it have been applied.
Applied(p, u) ==
  {f \in DOMAIN u : \A g \in DOMAIN u : Order[g] <= Order[f] => ~Bad(p, u, g)}

handle_put(u) ==
  /\ params' = [f \in Fields |-> IF f \in Applied(params, u) THEN u[f] ELSE params[f]]
  /\ UNCHANGED <<toggle, engine, marker>>
-----------------------------------------------------------------------------
Toggle(r) ==
  \/ Check(r) \/ Flip(r) \/ insert_mode_switch(r) \/ Unaudited(r) \/ Emit(r) \/ Refuse(r)

Next ==
  \/ \E r \in Requests : Toggle(r)
  \/ \E u \in Updates : handle_put(u)
  \/ HarnessPasses \/ MarkerAges

Spec == Init /\ [][Next]_vars
-----------------------------------------------------------------------------
(* Properties. *)

TypeOK ==
  /\ start_mode \in Modes /\ trading_mode \in Modes /\ engine_mode \in Modes
  /\ marker \in {"absent", "fresh", "stale"}
  /\ pc \in [Requests -> {"new", "checked", "flipped", "unaudited", "audited", "ended"}]
  /\ target \in [Requests -> Modes]
  /\ previous \in [Requests -> Modes]
  /\ mode_switches \in [Modes \X Modes -> Nat]
  /\ mode_events \in [Modes \X Modes -> Nat]
  /\ params \in [Fields -> Int] /\ Bounded(params)
  /\ engine_params \in [Fields -> Int]

\* Flips whose row is not written, yet or for good.
Missing(pair) == {r \in Requests : pc[r] \in {"flipped", "unaudited"} /\ Pair(r) = pair}

Flips(pair) == mode_switches[pair] + Cardinality(Missing(pair))

Rank(mode) == IF mode = "live" THEN 1 ELSE 0

\* In whatever order the rows of concurrent requests are inserted, the audit
\* table and the flips missing from it add up to the mode in force: no row
\* names a mode its flip did not replace (handle_set_mode).
AuditBalance ==
  Flips(<<"paper", "live">>) - Flips(<<"live", "paper">>) = Rank(trading_mode) - Rank(start_mode)

\* The event log never tells of more flips than are on record.
EventsAreAudited == \A p \in Modes \X Modes : mode_events[p] <= mode_switches[p]

\* The mode is live, was at start-up or has been since only after the harness
\* had written a marker, at start-up or at run time.
LiveNeedsMarker ==
  (trading_mode = "live" \/ mode_switches[<<"paper", "live">>] > 0) => marker # "absent"

\* Only an update that raises the short entry and gives no short exit, or one
\* that is refused, closes the band between them (the check in handle_put).
BandClosedByEntryOnly ==
  [][BandOpen(params) /\ ~BandOpen(params') =>
       /\ params'.short_entry_threshold > params.short_entry_threshold
       /\ params'.short_exit_threshold = params.short_exit_threshold]_vars

\* What the scheduler's comment says of POST /api/mode: the mode it reads is
\* the one the endpoint flips.
SchedulerFollowsToggle ==
  (\A r \in Requests : pc[r] \in {"new", "ended"}) => engine_mode = trading_mode
=============================================================================
