------------------------- MODULE ControlPlane_proofs -------------------------
(***************************************************************************)
(* Proofs about ControlPlane for every finite number of concurrent         *)
(* requests, every set of updates and every valid configuration.           *)
(***************************************************************************)
EXTENDS ControlPlane, FiniteSetTheorems, TLAPS

Pairs == Modes \X Modes

LEMMA PairType == ASSUME TypeOK, NEW r \in Requests PROVE Pair(r) \in Pairs
BY DEF TypeOK, Pair, Pairs

LEMMA InitType == Init => TypeOK
BY ControlAssumption DEF Init, TypeOK, Modes

\* An update keeps the signs of the thresholds.
LEMMA PutType ==
  ASSUME TypeOK, NEW u \in Updates, handle_put(u)
  PROVE  params' \in [Fields -> Int] /\ Bounded(params')
<1>1. params \in [Fields -> Int] /\ Bounded(params)
  BY DEF TypeOK
<1>2. DOMAIN u \subseteq Fields /\ \A f \in DOMAIN u : u[f] \in Int
  BY ControlAssumption
<1>3. /\ params' \in [Fields -> Int]
      /\ \A f \in Fields : \/ params'[f] = params[f]
                           \/ f \in DOMAIN u /\ ~ Bad(params, u, f) /\ params'[f] = u[f]
  <2>1. \A f \in Applied(params, u) : f \in DOMAIN u /\ ~ Bad(params, u, f)
    <3>1. \A f \in Fields : Order[f] <= Order[f]
      BY DEF Order, Fields
    <3>. QED
      BY <3>1, <1>2 DEF Applied
  <2>. QED
    BY <1>1, <1>2, <2>1 DEF handle_put
<1>4. {"entry_threshold", "exit_threshold", "sma_window", "short_entry_threshold"} \subseteq Fields
  BY DEF Fields
<1>5. params'.entry_threshold > 0
  BY <1>1, <1>2, <1>3, <1>4 DEF Bad, Bounded
<1>6. params'.exit_threshold < 0
  BY <1>1, <1>2, <1>3, <1>4 DEF Bad, Bounded
<1>7. params'.short_entry_threshold < 0
  BY <1>1, <1>2, <1>3, <1>4 DEF Bad, Bounded
<1>8. params'.sma_window > 0
  BY <1>1, <1>2, <1>3, <1>4 DEF Bad, Bounded
<1>. QED
  BY <1>3, <1>5, <1>6, <1>7, <1>8 DEF Bounded

LEMMA NextType == TypeOK /\ [Next]_vars => TypeOK'
<1> SUFFICES ASSUME TypeOK, [Next]_vars PROVE TypeOK'
  OBVIOUS
<1>1. ASSUME NEW r \in Requests, Check(r) \/ Unaudited(r) \/ Refuse(r) PROVE TypeOK'
  BY <1>1 DEF TypeOK, Check, Unaudited, Refuse, At, engine, toggle
<1>2. ASSUME NEW r \in Requests, Flip(r) PROVE TypeOK'
  BY <1>2 DEF TypeOK, Flip, At, engine
<1>3. ASSUME NEW r \in Requests, insert_mode_switch(r) PROVE TypeOK'
  BY <1>3, PairType DEF TypeOK, insert_mode_switch, At, engine, Pairs
<1>4. ASSUME NEW r \in Requests, Emit(r) PROVE TypeOK'
  BY <1>4, PairType DEF TypeOK, Emit, At, engine, Pairs
<1>5. ASSUME NEW u \in Updates, handle_put(u) PROVE TypeOK'
  BY <1>5, PutType DEF TypeOK, handle_put, engine, toggle
<1>6. CASE HarnessPasses \/ MarkerAges
  BY <1>6 DEF TypeOK, HarnessPasses, MarkerAges, engine, toggle
<1>7. CASE UNCHANGED vars
  BY <1>7 DEF TypeOK, vars, engine, toggle
<1>. QED
  BY <1>1, <1>2, <1>3, <1>4, <1>5, <1>6, <1>7 DEF Next, Toggle

\* Every reachable state of the control plane is well typed; whatever an update
\* is refused for, the thresholds keep the signs start-up asks of them.
THEOREM TypeCorrect == Spec => []TypeOK
BY InitType, NextType, PTL DEF Spec
-----------------------------------------------------------------------------
(* The audit of the flips. *)

BalanceInv == TypeOK /\ AuditBalance

LEMMA MissingFinite == \A p : IsFiniteSet(Missing(p)) /\ Cardinality(Missing(p)) \in Nat
BY ControlAssumption, FS_Subset, FS_CardinalityType DEF Missing

\* A flip is missing from the table until its row is inserted.
LEMMA FlipCounts ==
  ASSUME TypeOK, NEW r \in Requests, Flip(r), NEW p \in Pairs
  PROVE  Flips(p)' = IF p = <<trading_mode, target[r]>> THEN Flips(p) + 1 ELSE Flips(p)
<1>1. r \notin Missing(p)
  BY DEF Flip, At, Missing
<1>2. Missing(p)' = IF p = <<trading_mode, target[r]>> THEN Missing(p) \cup {r} ELSE Missing(p)
  BY DEF Flip, At, Missing, Pair, TypeOK
<1>3. mode_switches[p] \in Nat /\ mode_switches' = mode_switches
  BY DEF Flip, TypeOK, Pairs
<1>4. Cardinality(Missing(p) \cup {r}) = Cardinality(Missing(p)) + 1
  BY <1>1, MissingFinite, FS_AddElement
<1>. QED
  BY <1>2, <1>3, <1>4, MissingFinite DEF Flips

\* An inserted row takes the place of the missing flip.
LEMMA InsertCounts ==
  ASSUME TypeOK, NEW r \in Requests, insert_mode_switch(r), NEW p \in Pairs
  PROVE  Flips(p)' = Flips(p)
<1>1. mode_switches \in [Pairs -> Nat] /\ Pair(r) \in Pairs
  BY PairType DEF TypeOK, Pairs
<1>2. CASE p = Pair(r)
  <2>1. r \in Missing(p)
    BY <1>2 DEF insert_mode_switch, At, Missing
  <2>2. Missing(p)' = Missing(p) \ {r}
    BY DEF insert_mode_switch, At, Missing, Pair, TypeOK
  <2>3. Cardinality(Missing(p) \ {r}) = Cardinality(Missing(p)) - 1
    BY <2>1, MissingFinite, FS_RemoveElement
  <2>4. mode_switches'[p] = mode_switches[p] + 1
    BY <1>1, <1>2 DEF insert_mode_switch
  <2>. QED
    BY <1>1, <2>2, <2>3, <2>4, MissingFinite DEF Flips
<1>3. CASE p # Pair(r)
  <2>1. Missing(p)' = Missing(p)
    BY <1>3 DEF insert_mode_switch, At, Missing, Pair, TypeOK
  <2>2. mode_switches'[p] = mode_switches[p]
    BY <1>1, <1>3 DEF insert_mode_switch
  <2>. QED
    BY <2>1, <2>2 DEF Flips
<1>. QED
  BY <1>2, <1>3

\* The other steps of a request leave the count of its flip alone.
LEMMA OthersCount ==
  ASSUME TypeOK, NEW r \in Requests, Check(r) \/ Unaudited(r) \/ Emit(r) \/ Refuse(r), NEW p \in Pairs
  PROVE  Flips(p)' = Flips(p) /\ UNCHANGED <<trading_mode, start_mode>>
<1>1. Missing(p)' = Missing(p)
  BY DEF Check, Unaudited, Emit, Refuse, At, Missing, Pair, TypeOK
<1>2. UNCHANGED <<mode_switches, trading_mode, start_mode>>
  BY DEF Check, Unaudited, Emit, Refuse, engine
<1>. QED
  BY <1>1, <1>2 DEF Flips

LEMMA BalanceStep == BalanceInv /\ [Next]_vars => AuditBalance'
<1> SUFFICES ASSUME BalanceInv, [Next]_vars PROVE AuditBalance'
  OBVIOUS
<1> DEFINE pl == <<"paper", "live">>
           lp == <<"live", "paper">>
<1>0. /\ TypeOK /\ AuditBalance
      /\ pl \in Pairs /\ lp \in Pairs
      /\ Flips(pl) \in Int /\ Flips(lp) \in Int
  BY MissingFinite DEF BalanceInv, TypeOK, Flips, Pairs, Modes
<1>1. ASSUME Flips(pl)' = Flips(pl), Flips(lp)' = Flips(lp), UNCHANGED <<trading_mode, start_mode>>
      PROVE  AuditBalance'
  BY <1>0, <1>1 DEF AuditBalance, Rank
<1>2. ASSUME NEW r \in Requests, Flip(r) PROVE AuditBalance'
  <2>1. /\ trading_mode' = target[r] /\ start_mode' = start_mode
        /\ target[r] \in {"paper", "live"} /\ trading_mode \in {"paper", "live"}
    BY <1>0, <1>2 DEF Flip, TypeOK, Modes, engine
  <2>2. Flips(pl)' = IF pl = <<trading_mode, target[r]>> THEN Flips(pl) + 1 ELSE Flips(pl)
    BY <1>0, <1>2, FlipCounts
  <2>3. Flips(lp)' = IF lp = <<trading_mode, target[r]>> THEN Flips(lp) + 1 ELSE Flips(lp)
    BY <1>0, <1>2, FlipCounts
  <2>4. Flips(pl)' - Flips(lp)'
          = Flips(pl) - Flips(lp) + Rank(target[r]) - Rank(trading_mode)
    BY <1>0, <2>1, <2>2, <2>3 DEF Rank
  <2>. QED
    BY <1>0, <2>1, <2>4 DEF AuditBalance, Rank
<1>3. ASSUME NEW r \in Requests, insert_mode_switch(r) PROVE AuditBalance'
  <2>1. UNCHANGED <<trading_mode, start_mode>>
    BY <1>3 DEF insert_mode_switch, engine
  <2>. QED
    BY <1>0, <1>1, <1>3, <2>1, InsertCounts
<1>4. ASSUME NEW r \in Requests, Check(r) \/ Unaudited(r) \/ Emit(r) \/ Refuse(r)
      PROVE  AuditBalance'
  BY <1>0, <1>1, <1>4, OthersCount
<1>5. CASE UNCHANGED <<toggle, engine>>
  BY <1>0, <1>1, <1>5 DEF toggle, engine, Flips, Missing, Pair
<1>6. (\E u \in Updates : handle_put(u)) \/ HarnessPasses \/ MarkerAges \/ UNCHANGED vars
      => UNCHANGED <<toggle, engine>>
  BY DEF handle_put, HarnessPasses, MarkerAges, vars
<1>. QED
  BY <1>2, <1>3, <1>4, <1>5, <1>6 DEF Next, Toggle

LEMMA InitBalance == Init => AuditBalance
<1> SUFFICES ASSUME Init PROVE AuditBalance
  OBVIOUS
<1>1. \A p : Missing(p) = {}
  BY DEF Init, Missing
<1>2. \A p \in Pairs : Flips(p) = 0
  BY <1>1, FS_EmptySet DEF Init, Flips, Pairs
<1>. QED
  BY <1>2 DEF Init, AuditBalance, Pairs, Modes, Rank

\* However many requests are concurrent, fail or are dropped, the rows of
\* mode_switches and the flips they miss add up to the mode in force.
THEOREM AuditAddsUp == Spec => []AuditBalance
<1>1. Init => BalanceInv
  BY InitType, InitBalance DEF BalanceInv
<1>2. BalanceInv /\ [Next]_vars => BalanceInv'
  BY NextType, BalanceStep DEF BalanceInv
<1>3. BalanceInv => AuditBalance
  BY DEF BalanceInv
<1>. QED
  BY <1>1, <1>2, <1>3, PTL DEF Spec
-----------------------------------------------------------------------------
(* The band between the short thresholds. *)

\* An update closes the band only by raising the short entry alone.
THEOREM BandCloses == Spec => BandClosedByEntryOnly
<1>1. TypeOK /\ [Next]_vars =>
        [BandOpen(params) /\ ~BandOpen(params') =>
           /\ params'.short_entry_threshold > params.short_entry_threshold
           /\ params'.short_exit_threshold = params.short_exit_threshold]_vars
  <2> SUFFICES ASSUME TypeOK, NEW u \in Updates, handle_put(u), BandOpen(params), ~ BandOpen(params')
               PROVE  /\ params'.short_entry_threshold > params.short_entry_threshold
                      /\ params'.short_exit_threshold = params.short_exit_threshold
    BY DEF Next, Toggle, Check, Flip, insert_mode_switch, Unaudited, Emit, Refuse,
           HarnessPasses, MarkerAges
  <2>1. params \in [Fields -> Int]
    BY DEF TypeOK
  <2>2. DOMAIN u \subseteq Fields /\ \A f \in DOMAIN u : u[f] \in Int
    BY ControlAssumption
  <2>3. \A f \in Fields : params'[f] = IF f \in Applied(params, u) THEN u[f] ELSE params[f]
    BY DEF handle_put
  <2>4. "short_entry_threshold" \in Fields /\ "short_exit_threshold" \in Fields
    BY DEF Fields
  <2>5. ASSUME "short_exit_threshold" \in Applied(params, u) PROVE FALSE
    <3>1. /\ "short_exit_threshold" \in DOMAIN u
          /\ \A g \in DOMAIN u : ~ Bad(params, u, g)
      BY <2>2, <2>5 DEF Applied, Order, Fields
    <3>2. u["short_exit_threshold"] > Overlay(params, u)["short_entry_threshold"]
      BY <2>1, <2>2, <2>4, <3>1 DEF Bad, Overlay
    <3>3. \A g \in DOMAIN u : g \in Applied(params, u)
      BY <3>1 DEF Applied
    <3>4. Overlay(params, u)["short_entry_threshold"] = params'["short_entry_threshold"]
      BY <2>3, <2>4, <3>3 DEF Overlay, Applied
    <3>. QED
      BY <2>3, <2>4, <2>5, <3>2, <3>4 DEF BandOpen
  <2>6. params'["short_exit_threshold"] = params["short_exit_threshold"]
    BY <2>3, <2>4, <2>5
  <2>7. params'["short_entry_threshold"] \in Int
    BY <2>1, <2>2, <2>3, <2>4 DEF Applied
  <2>. QED
    BY <2>1, <2>4, <2>6, <2>7 DEF BandOpen
<1>. QED
  BY <1>1, TypeCorrect, PTL DEF Spec, BandClosedByEntryOnly
-----------------------------------------------------------------------------
(* The events of the flips. *)

\* Flips whose row is written and whose event is still to come.
Announcing(pair) == {r \in Requests : pc[r] = "audited" /\ Pair(r) = pair}

EventBalance == \A p \in Pairs : mode_events[p] + Cardinality(Announcing(p)) <= mode_switches[p]

EventInv == TypeOK /\ EventBalance

LEMMA AnnouncingFinite == \A p : IsFiniteSet(Announcing(p)) /\ Cardinality(Announcing(p)) \in Nat
BY ControlAssumption, FS_Subset, FS_CardinalityType DEF Announcing

\* An inserted row makes room for the event of its request.
LEMMA InsertAnnounces ==
  ASSUME EventInv, NEW r \in Requests, insert_mode_switch(r), NEW p \in Pairs
  PROVE  mode_events'[p] + Cardinality(Announcing(p))' <= mode_switches'[p]
<1>1. /\ mode_switches \in [Pairs -> Nat] /\ mode_events \in [Pairs -> Nat] /\ Pair(r) \in Pairs
      /\ mode_events' = mode_events
      /\ mode_events[p] + Cardinality(Announcing(p)) <= mode_switches[p]
  BY PairType DEF EventInv, EventBalance, TypeOK, Pairs, insert_mode_switch
<1>2. CASE p = Pair(r)
  <2>1. r \notin Announcing(p)
    BY DEF insert_mode_switch, At, Announcing
  <2>2. Announcing(p)' = Announcing(p) \cup {r}
    BY <1>2 DEF insert_mode_switch, At, Announcing, Pair, TypeOK, EventInv
  <2>3. Cardinality(Announcing(p) \cup {r}) = Cardinality(Announcing(p)) + 1
    BY <2>1, AnnouncingFinite, FS_AddElement
  <2>4. mode_switches'[p] = mode_switches[p] + 1
    BY <1>1, <1>2 DEF insert_mode_switch
  <2>. QED
    BY <1>1, <2>2, <2>3, <2>4, AnnouncingFinite
<1>3. CASE p # Pair(r)
  <2>1. Announcing(p)' = Announcing(p)
    BY <1>3 DEF insert_mode_switch, At, Announcing, Pair, TypeOK, EventInv
  <2>2. mode_switches'[p] = mode_switches[p]
    BY <1>1, <1>3 DEF insert_mode_switch
  <2>. QED
    BY <1>1, <2>1, <2>2
<1>. QED
  BY <1>2, <1>3

\* An event takes the room its own request made.
LEMMA EmitAnnounces ==
  ASSUME EventInv, NEW r \in Requests, Emit(r), NEW p \in Pairs
  PROVE  mode_events'[p] + Cardinality(Announcing(p))' <= mode_switches'[p]
<1>1. /\ mode_switches \in [Pairs -> Nat] /\ mode_events \in [Pairs -> Nat] /\ Pair(r) \in Pairs
      /\ mode_switches' = mode_switches
      /\ mode_events[p] + Cardinality(Announcing(p)) <= mode_switches[p]
  BY PairType DEF EventInv, EventBalance, TypeOK, Pairs, Emit
<1>2. CASE p = Pair(r)
  <2>1. r \in Announcing(p)
    BY <1>2 DEF Emit, At, Announcing
  <2>2. Announcing(p)' = Announcing(p) \ {r}
    BY DEF Emit, At, Announcing, Pair, TypeOK, EventInv
  <2>3. Cardinality(Announcing(p) \ {r}) = Cardinality(Announcing(p)) - 1
    BY <2>1, AnnouncingFinite, FS_RemoveElement
  <2>4. mode_events'[p] \in {mode_events[p], mode_events[p] + 1}
    BY <1>1, <1>2 DEF Emit
  <2>. QED
    BY <1>1, <2>2, <2>3, <2>4, AnnouncingFinite
<1>3. CASE p # Pair(r)
  <2>1. Announcing(p)' = Announcing(p)
    BY <1>3 DEF Emit, At, Announcing, Pair, TypeOK, EventInv
  <2>2. mode_events'[p] = mode_events[p]
    BY <1>1, <1>3 DEF Emit
  <2>. QED
    BY <1>1, <2>1, <2>2
<1>. QED
  BY <1>2, <1>3

LEMMA QuietAnnounces ==
  ASSUME EventInv, NEW r \in Requests, Check(r) \/ Flip(r) \/ Unaudited(r) \/ Refuse(r)
  PROVE  EventBalance'
<1>1. \A p \in Pairs : Announcing(p)' = Announcing(p)
  BY DEF Check, Flip, Unaudited, Refuse, At, Announcing, Pair, TypeOK, EventInv
<1>2. UNCHANGED <<mode_switches, mode_events>>
  BY DEF Check, Flip, Unaudited, Refuse
<1>. QED
  BY <1>1, <1>2 DEF EventBalance, EventInv

LEMMA EventStep == EventInv /\ [Next]_vars => EventBalance'
<1> SUFFICES ASSUME EventInv, [Next]_vars PROVE EventBalance'
  OBVIOUS
<1>1. ASSUME NEW r \in Requests, insert_mode_switch(r) PROVE EventBalance'
  BY <1>1, InsertAnnounces DEF EventBalance
<1>2. ASSUME NEW r \in Requests, Emit(r) PROVE EventBalance'
  BY <1>2, EmitAnnounces DEF EventBalance
<1>3. CASE UNCHANGED toggle
  BY <1>3 DEF toggle, EventBalance, EventInv, Announcing, Pair
<1>4. (\E u \in Updates : handle_put(u)) \/ HarnessPasses \/ MarkerAges \/ UNCHANGED vars
      => UNCHANGED toggle
  BY DEF handle_put, HarnessPasses, MarkerAges, vars
<1>. QED
  BY <1>1, <1>2, <1>3, <1>4, QuietAnnounces DEF Next, Toggle

LEMMA InitEvents == Init => EventBalance
<1> SUFFICES ASSUME Init PROVE EventBalance
  OBVIOUS
<1>1. \A p : Announcing(p) = {}
  BY DEF Init, Announcing
<1>2. \A p : Cardinality(Announcing(p)) = 0
  BY <1>1, FS_EmptySet
<1>3. \A p \in Pairs : mode_events[p] = 0 /\ mode_switches[p] = 0
  BY DEF Init, Pairs
<1>. QED
  BY <1>2, <1>3 DEF EventBalance

\* However requests are overtaken, fail or are dropped, the event log tells of no
\* flip the audit table does not hold.
THEOREM EventsFollowTheAudit == Spec => []EventsAreAudited
<1>1. Init => EventInv
  BY InitType, InitEvents DEF EventInv
<1>2. EventInv /\ [Next]_vars => EventInv'
  BY NextType, EventStep DEF EventInv
<1>3. EventInv => EventsAreAudited
  <2> SUFFICES ASSUME EventInv, NEW p \in Pairs PROVE mode_events[p] <= mode_switches[p]
    BY DEF EventsAreAudited, Pairs
  <2>1. /\ mode_events[p] \in Nat /\ mode_switches[p] \in Nat
        /\ mode_events[p] + Cardinality(Announcing(p)) <= mode_switches[p]
    BY DEF EventInv, EventBalance, TypeOK, Pairs
  <2>. QED
    BY <2>1, AnnouncingFinite
<1>. QED
  BY <1>1, <1>2, <1>3, PTL DEF Spec
-----------------------------------------------------------------------------
(* The marker. *)

\* Whoever is past the check for live has met a marker, and none is removed.
MarkerInv ==
  /\ \A r \in Requests :
       pc[r] \in {"checked", "flipped", "unaudited", "audited"} /\ target[r] = "live"
         => marker # "absent"
  /\ LiveNeedsMarker

LEMMA MarkerStep == TypeOK /\ MarkerInv /\ [Next]_vars => MarkerInv'
<1> SUFFICES ASSUME TypeOK, MarkerInv, [Next]_vars PROVE MarkerInv'
  OBVIOUS
<1>. USE DEF MarkerInv, LiveNeedsMarker
<1>0. marker # "absent" => MarkerInv'
  BY DEF Next, Toggle, Check, Flip, insert_mode_switch, Unaudited, Emit, Refuse, handle_put,
         HarnessPasses, MarkerAges, vars, toggle
<1>1. ASSUME NEW r \in Requests, Check(r), marker = "absent" PROVE MarkerInv'
  BY <1>1 DEF Check, At, TypeOK
<1>2. ASSUME NEW r \in Requests, Flip(r), marker = "absent" PROVE MarkerInv'
  BY <1>2 DEF Flip, At, TypeOK
<1>3. ASSUME NEW r \in Requests, insert_mode_switch(r), marker = "absent" PROVE MarkerInv'
  <2>1. target[r] # "live"
    BY <1>3 DEF insert_mode_switch, At
  <2>2. Pair(r) # <<"paper", "live">>
    BY <2>1, target[r] = Pair(r)[2], <<"paper", "live">>[2] = "live" DEF Pair
  <2>3. mode_switches'[<<"paper", "live">>] = mode_switches[<<"paper", "live">>]
    BY <1>3, <2>2 DEF insert_mode_switch, TypeOK, Modes
  <2>. QED
    BY <1>3, <2>3 DEF insert_mode_switch, At, TypeOK
<1>4. ASSUME NEW r \in Requests, Unaudited(r) \/ Emit(r) \/ Refuse(r), marker = "absent"
      PROVE  MarkerInv'
  BY <1>4 DEF Unaudited, Emit, Refuse, At, TypeOK
<1>5. ASSUME HarnessPasses PROVE MarkerInv'
  BY <1>5 DEF HarnessPasses
<1>6. CASE (\E u \in Updates : handle_put(u)) \/ UNCHANGED vars
  BY <1>6 DEF handle_put, vars, toggle
<1>7. marker = "absent" => ~ MarkerAges
  BY DEF MarkerAges
<1>. QED
  BY <1>0, <1>1, <1>2, <1>3, <1>4, <1>5, <1>6, <1>7 DEF Next, Toggle

\* However many requests race, none makes the mode live in an engine whose parity
\* harness has never written a marker.
THEOREM LiveAfterTheHarness == Spec => []LiveNeedsMarker
<1>1. Init => MarkerInv
  BY DEF Init, MarkerInv, LiveNeedsMarker, Modes
<1>2. MarkerInv => LiveNeedsMarker
  BY DEF MarkerInv
<1>. QED
  BY <1>1, <1>2, InitType, NextType, MarkerStep, PTL DEF Spec
=============================================================================
