----------------------------- MODULE EventKeeper -----------------------------
(***************************************************************************)
(* What the event log promises of the events it has stored, wherever the   *)
(* table and the files stand: each is kept in the period it is of, until a *)
(* period that was purged is begun anew.  That takes events of no other    *)
(* period, an event that is gone does not come back, and nothing else that *)
(* a run, a failure or a restart does loses one.                           *)
(***************************************************************************)
CONSTANTS
  Events,
  Periods

VARIABLES
  stored,  \* the events ever stored
  kept,    \* those of each period that can be read
  purged   \* the periods that have been purged

keeper == <<stored, kept, purged>>

Init == stored = {} /\ kept = [p \in Periods |-> {}] /\ purged = {}

Store(e, p) ==
  /\ e \notin stored
  /\ stored' = stored \cup {e}
  /\ kept' = [kept EXCEPT ![p] = @ \cup {e}]
  /\ UNCHANGED purged

Purge(periods) == purged' = purged \cup periods /\ UNCHANGED <<stored, kept>>

BeginAnew(p) ==
  /\ p \in purged
  /\ \E rest \in SUBSET kept[p] : kept' = [kept EXCEPT ![p] = rest]
  /\ UNCHANGED <<stored, purged>>

Next ==
  \/ \E e \in Events, p \in Periods : Store(e, p)
  \/ \E periods \in SUBSET Periods : Purge(periods)
  \/ \E p \in Periods : BeginAnew(p)

Spec == Init /\ [][Next]_keeper
=============================================================================
