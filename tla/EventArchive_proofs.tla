------------------------- MODULE EventArchive_proofs -------------------------
(***************************************************************************)
(* Proofs about EventArchive for every set of events, number of days,      *)
(* length of a month and retention of at least a day.                      *)
(***************************************************************************)
EXTENDS EventArchive, TLAPS

\* The tasks keep to the calendar, and only stamped events are anywhere.
TypeInv ==
  /\ TypeOK
  /\ day # 0
  /\ cutoff <= day - Retention \/ pc = "idle"
  /\ \A e \in emitting : stamp[e] # 0 /\ stamp[e] + 1 >= day
  /\ \A e \in persisted : stamp[e] # 0
  /\ engine_events \subseteq persisted
  /\ rows \subseteq persisted
  /\ emitting \cap persisted = {}

LEMMA MonthType == \A d \in Days : month(d) \in Months
BY DEF Months

LEMMA InitType == Init => TypeInv
<1> SUFFICES ASSUME Init PROVE TypeInv
  OBVIOUS
<1>1. archive \in [Months -> SUBSET Events]
  BY DEF Init
<1>2. 0 \in Days /\ 1 \in Days
  BY ArchiveAssumption DEF Days
<1>3. stamp \in [Events -> Days]
  BY <1>2 DEF Init
<1>4. \A e \in Events : stamp[e] = 0
  BY DEF Init
<1>. QED
  BY <1>1, <1>2, <1>3, <1>4 DEF Init, TypeInv, TypeOK

LEMMA NextType == TypeInv /\ [Next]_vars => TypeInv'
<1> SUFFICES ASSUME TypeInv, [Next]_vars PROVE TypeInv'
  OBVIOUS
<1>0. \A e \in Events : MonthOf(e) \in Months
  BY MonthType DEF MonthOf, TypeInv, TypeOK
<1> USE ArchiveAssumption DEF TypeInv, TypeOK, Days
<1>1. CASE NextDay
  BY <1>1 DEF NextDay, log, task, history
<1>2. ASSUME NEW e \in Events, Stamp(e) PROVE TypeInv'
  BY <1>2 DEF Stamp, task, history
<1>3. ASSUME NEW e \in Events, Insert(e) PROVE TypeInv'
  BY <1>3 DEF Insert, task
<1>4. ASSUME NEW e \in Events, InsertFails(e) PROVE TypeInv'
  BY <1>4 DEF InsertFails, task, history
<1>5. CASE FetchOld
  BY <1>0, <1>5 DEF FetchOld, Old, log, history
<1>6. ASSUME NEW m \in Months, CreateFile(m) PROVE TypeInv'
  BY <1>6 DEF CreateFile, log
<1>7. ASSUME NEW m \in Months, WriteFile(m) PROVE TypeInv'
  BY <1>7 DEF WriteFile, log, history
<1>8. CASE DeleteOld
  BY <1>0, <1>8 DEF DeleteOld, Old, log
<1>9. CASE RunFails
  BY <1>9 DEF RunFails, log, history
<1>10. CASE Restart
  BY <1>10 DEF Restart, history
<1>11. CASE UNCHANGED vars
  BY <1>11 DEF vars, log, task, history
<1>. QED
  BY <1>1, <1>2, <1>3, <1>4, <1>5, <1>6, <1>7, <1>8, <1>9, <1>10, <1>11 DEF Next, Run

\* Every reachable state of the event log and the archival task is well typed.
THEOREM TypeCorrect == Spec => []TypeOK
<1>1. TypeInv => TypeOK
  BY DEF TypeInv
<1>. QED
  BY InitType, NextType, <1>1, PTL DEF Spec
-----------------------------------------------------------------------------
(* Where an event is. *)

\* The rows a run will delete are rows it has read.
ReadInv == pc # "idle" => Old(cutoff) \subseteq rows

\* The rows of the months done are in their files; the current month's file is
\* empty between its creation and its writing.
WrittenInv ==
  /\ pc # "idle" => \A e \in rows : MonthOf(e) \in months \/ e \in archive[MonthOf(e)]
  /\ pc = "write" => \A m \in months : Current(m) => archive[m] = {}

\* An event that has left the table was deleted by a run.
PurgedInv == \A e \in persisted : e \in engine_events \/ MonthOf(e) \in purged

ArchiveInv == TypeInv /\ ReadInv /\ WrittenInv /\ PurgedInv /\ LostOnlyByLaterRun

LEMMA InitArchive == Init => ArchiveInv
<1> SUFFICES ASSUME Init PROVE ArchiveInv
  OBVIOUS
<1>1. TypeInv
  BY InitType
<1>. QED
  BY <1>1 DEF Init, ArchiveInv, ReadInv, WrittenInv, PurgedInv, LostOnlyByLaterRun

\* An event stays in its month: a stamp is given once.
LEMMA StampsStay ==
  ASSUME TypeInv, [Next]_vars
  PROVE  \A e \in Events : stamp[e] # 0 => stamp'[e] = stamp[e] /\ MonthOf(e)' = MonthOf(e)
<1>1. ASSUME NEW e \in Events, Stamp(e)
      PROVE  \A f \in Events : stamp[f] # 0 => stamp'[f] = stamp[f]
  BY <1>1 DEF Stamp, TypeInv, TypeOK
<1>2. (~ \E e \in Events : Stamp(e)) => stamp' = stamp
  BY DEF Next, Run, vars, log, NextDay, Insert, InsertFails, FetchOld, CreateFile, WriteFile,
         DeleteOld, RunFails, Restart
<1>3. \A e \in Events : stamp[e] # 0 => stamp'[e] = stamp[e]
  BY <1>1, <1>2
<1>. QED
  BY <1>3 DEF MonthOf

\* A row written to the table during a run is too new to be deleted by it.
LEMMA ReadStep == ArchiveInv /\ [Next]_vars => ReadInv'
<1> SUFFICES ASSUME ArchiveInv, [Next]_vars PROVE ReadInv'
  OBVIOUS
<1> USE ArchiveAssumption DEF ReadInv, Old
<1>0. TypeInv /\ ReadInv
  BY DEF ArchiveInv
<1>1. /\ engine_events \subseteq Events
      /\ \A e \in engine_events : stamp[e] # 0
      /\ day \in Int /\ cutoff \in Int
      /\ \A e \in Events : stamp[e] \in Int
  BY <1>0 DEF TypeInv, TypeOK, Days
<1>2. CASE NextDay
  BY <1>0, <1>2 DEF NextDay, log, task
<1>3. ASSUME NEW e \in Events, Stamp(e) PROVE ReadInv'
  <2>1. \A f \in engine_events : stamp'[f] = stamp[f]
    BY <1>1, <1>3 DEF Stamp, TypeInv, TypeOK
  <2>. QED
    BY <2>1, <1>0, <1>3 DEF Stamp, task
<1>4. ASSUME NEW e \in Events, Insert(e) PROVE ReadInv'
  <2>1. pc # "idle" => ~ stamp[e] < cutoff
    BY <1>0, <1>1, <1>4 DEF Insert, TypeInv
  <2>. QED
    BY <2>1, <1>0, <1>4 DEF Insert, task
<1>5. ASSUME NEW e \in Events, InsertFails(e) PROVE ReadInv'
  BY <1>0, <1>5 DEF InsertFails, task
<1>6. CASE FetchOld
  BY <1>6 DEF FetchOld, log
<1>7. ASSUME NEW m \in Months, CreateFile(m) PROVE ReadInv'
  BY <1>0, <1>7 DEF CreateFile, log
<1>8. ASSUME NEW m \in Months, WriteFile(m) PROVE ReadInv'
  BY <1>0, <1>8 DEF WriteFile, log
<1>9. CASE DeleteOld
  BY <1>9 DEF DeleteOld
<1>10. CASE RunFails
  BY <1>10 DEF RunFails
<1>11. CASE Restart
  BY <1>11 DEF Restart
<1>12. CASE UNCHANGED vars
  BY <1>0, <1>12 DEF vars, log, task
<1>. QED
  BY <1>2, <1>3, <1>4, <1>5, <1>6, <1>7, <1>8, <1>9, <1>10, <1>11, <1>12 DEF Next, Run

LEMMA MonthsOrdered == Months \subseteq Int
BY ArchiveAssumption DEF Months, Days, month

\* What the files hold of a run under way.
LEMMA WrittenStep == ArchiveInv /\ [Next]_vars => WrittenInv'
<1> SUFFICES ASSUME ArchiveInv, [Next]_vars PROVE WrittenInv'
  OBVIOUS
<1>0. TypeInv /\ WrittenInv
  BY DEF ArchiveInv
<1>1. \A e \in persisted : MonthOf(e)' = MonthOf(e)
  BY <1>0, StampsStay DEF TypeInv, TypeOK
<1>2. rows \subseteq persisted /\ months \subseteq Int /\ months \subseteq Months
  BY <1>0, MonthsOrdered DEF TypeInv, TypeOK
<1>3. archive \in [Months -> SUBSET Events]
  BY <1>0 DEF TypeInv, TypeOK
<1>4. ASSUME UNCHANGED <<archive, task>> PROVE WrittenInv'
  BY <1>0, <1>1, <1>2, <1>4 DEF WrittenInv, task, Current
<1>5. CASE pc' = "idle"
  BY <1>5 DEF WrittenInv
<1>6. CASE FetchOld
  <2>1. pc' # "write"
    BY <1>6 DEF FetchOld
  <2>2. \A e \in rows' : MonthOf(e)' \in months'
    BY <1>6 DEF FetchOld, MonthOf, log
  <2>. QED
    BY <2>1, <2>2 DEF WrittenInv
<1>7. ASSUME NEW m \in Months, CreateFile(m) PROVE WrittenInv'
  <2>1. \A n \in months : Current(n) => n = m
    BY <1>2, <1>7 DEF CreateFile, Current
  <2>2. archive'[m] = {} /\ \A n \in Months : n # m => archive'[n] = archive[n]
    BY <1>3, <1>7 DEF CreateFile
  <2>3. \A e \in rows : MonthOf(e) \in months \/ e \in archive[MonthOf(e)]
    BY <1>0, <1>7 DEF CreateFile, WrittenInv
  <2>4. m \in months
    BY <1>7 DEF CreateFile, Current
  <2>5. \A e \in persisted : MonthOf(e) \in Months
    BY <1>0, MonthType DEF TypeInv, TypeOK, MonthOf
  <2>6. \A e \in rows : MonthOf(e) \in months \/ e \in archive'[MonthOf(e)]
    BY <1>2, <2>2, <2>3, <2>4, <2>5
  <2>7. rows' = rows /\ months' = months
    BY <1>7 DEF CreateFile
  <2>8. \A e \in rows' : MonthOf(e)' \in months' \/ e \in archive'[MonthOf(e)']
    BY <1>1, <1>2, <2>6, <2>7
  <2>9. \A n \in months' : Current(n)' => archive'[n] = {}
    BY <2>1, <2>2, <2>7 DEF Current
  <2>. QED
    BY <2>8, <2>9 DEF WrittenInv
<1>8. ASSUME NEW m \in Months, WriteFile(m) PROVE WrittenInv'
  <2>1. /\ archive'[m] = {e \in rows : MonthOf(e) = m}
        /\ \A n \in Months : n # m => archive'[n] = archive[n]
    BY <1>3, <1>8 DEF WriteFile
  <2>2. \A e \in rows : MonthOf(e) \in months \/ e \in archive[MonthOf(e)]
    BY <1>0, <1>8 DEF WriteFile, WrittenInv
  <2>3. \A e \in persisted : MonthOf(e) \in Months
    BY <1>0, MonthType DEF TypeInv, TypeOK, MonthOf
  <2>4. \A e \in rows : MonthOf(e) \in months \ {m} \/ e \in archive'[MonthOf(e)]
    BY <1>2, <2>1, <2>2, <2>3
  <2>5. rows' = rows /\ months' = months \ {m} /\ pc' = "create"
    BY <1>8 DEF WriteFile
  <2>6. \A e \in rows' : MonthOf(e)' \in months' \/ e \in archive'[MonthOf(e)']
    BY <1>1, <1>2, <2>4, <2>5
  <2>. QED
    BY <2>5, <2>6 DEF WrittenInv
<1>. QED
  BY <1>4, <1>5, <1>6, <1>7, <1>8
  DEF Next, Run, vars, task, history, NextDay, Stamp, Insert, InsertFails, DeleteOld, RunFails, Restart

\* When a run deletes, each row it deletes is in the file of its month.
LEMMA DeletedIsWritten ==
  ASSUME TypeInv, ReadInv, WrittenInv, DeleteOld
  PROVE  \A e \in Old(cutoff) : e \in archive[MonthOf(e)]
<1>1. pc # "idle" /\ months = {}
  BY DEF DeleteOld
<1>. QED
  BY <1>1 DEF ReadInv, WrittenInv

\* A row leaves the table only in a delete, whatever the step.
LEMMA OnlyDeleted ==
  ASSUME [Next]_vars, ~ DeleteOld
  PROVE  engine_events \subseteq engine_events'
BY DEF Next, Run, vars, NextDay, Stamp, Insert, InsertFails, FetchOld, CreateFile, WriteFile,
       RunFails, Restart

LEMMA PurgedStep == ArchiveInv /\ [Next]_vars => PurgedInv'
<1> SUFFICES ASSUME ArchiveInv, [Next]_vars PROVE PurgedInv'
  OBVIOUS
<1>0. TypeInv /\ PurgedInv
  BY DEF ArchiveInv
<1>1. \A e \in persisted : MonthOf(e)' = MonthOf(e)
  BY <1>0, StampsStay DEF TypeInv, TypeOK
<1>2. CASE DeleteOld
  <2>1. persisted' = persisted
    BY <1>2 DEF DeleteOld
  <2>2. \A e \in engine_events : e \in engine_events' \/ MonthOf(e) \in purged'
    BY <1>2 DEF DeleteOld
  <2>3. purged \subseteq purged'
    BY <1>2 DEF DeleteOld
  <2>. QED
    BY <1>0, <1>1, <2>1, <2>2, <2>3 DEF PurgedInv
<1>3. CASE ~ DeleteOld
  <2>1. engine_events \subseteq engine_events'
    BY <1>3, OnlyDeleted
  <2>2. purged' = purged /\ \A e \in persisted' : e \in persisted \/ e \in engine_events'
    BY <1>3 DEF Next, Run, vars, history, NextDay, Stamp, Insert, InsertFails, FetchOld,
                CreateFile, WriteFile, RunFails, Restart
  <2>. QED
    BY <1>0, <1>1, <2>1, <2>2 DEF PurgedInv
<1>. QED
  BY <1>2, <1>3

LEMMA LostStep == ArchiveInv /\ [Next]_vars => LostOnlyByLaterRun'
<1> SUFFICES ASSUME ArchiveInv, [Next]_vars PROVE LostOnlyByLaterRun'
  OBVIOUS
<1>0. TypeInv /\ ReadInv /\ WrittenInv /\ PurgedInv /\ LostOnlyByLaterRun
  BY DEF ArchiveInv
<1>1. \A e \in persisted : MonthOf(e)' = MonthOf(e)
  BY <1>0, StampsStay DEF TypeInv, TypeOK
<1>2. \A e \in persisted : e \in engine_events \/ e \in archive[MonthOf(e)] \/ MonthOf(e) \in reopened
  BY <1>0 DEF LostOnlyByLaterRun, InSomeRecord
<1>3. /\ archive \in [Months -> SUBSET Events]
      /\ \A e \in persisted : MonthOf(e) \in Months
  BY <1>0, MonthType DEF TypeInv, TypeOK, MonthOf
<1>4. ASSUME persisted' = persisted, reopened \subseteq reopened',
             \A e \in persisted : \/ e \in engine_events'
                                  \/ e \in archive'[MonthOf(e)]
                                  \/ MonthOf(e) \in reopened'
      PROVE  LostOnlyByLaterRun'
  BY <1>1, <1>4 DEF LostOnlyByLaterRun, InSomeRecord
<1>5. ASSUME NEW e \in Events, Insert(e) PROVE LostOnlyByLaterRun'
  <2>1. \A f \in persisted' : f \in persisted \/ f \in engine_events'
    BY <1>5 DEF Insert
  <2>2. engine_events \subseteq engine_events' /\ archive' = archive /\ reopened' = reopened
    BY <1>5 DEF Insert
  <2>. QED
    BY <1>1, <1>2, <2>1, <2>2 DEF LostOnlyByLaterRun, InSomeRecord
<1>6. ASSUME NEW m \in Months, CreateFile(m) PROVE LostOnlyByLaterRun'
  <2>1. \A n \in Months : n # m => archive'[n] = archive[n]
    BY <1>3, <1>6 DEF CreateFile
  <2>2. \A e \in persisted : MonthOf(e) = m => e \in engine_events \/ m \in reopened'
    BY <1>0, <1>6 DEF CreateFile, PurgedInv
  <2>3. engine_events' = engine_events /\ persisted' = persisted /\ reopened \subseteq reopened'
    BY <1>6 DEF CreateFile
  <2>. QED
    BY <1>2, <1>3, <1>4, <2>1, <2>2, <2>3
<1>7. ASSUME NEW m \in Months, WriteFile(m) PROVE LostOnlyByLaterRun'
  <2>1. \A n \in Months : n # m => archive'[n] = archive[n]
    BY <1>3, <1>7 DEF WriteFile
  <2>2. archive[m] = {}
    BY <1>0, <1>7 DEF WriteFile, WrittenInv, Current
  <2>3. engine_events' = engine_events /\ persisted' = persisted /\ reopened' = reopened
    BY <1>7 DEF WriteFile, history
  <2>. QED
    BY <1>2, <1>3, <1>4, <2>1, <2>2, <2>3
<1>8. CASE DeleteOld
  <2>1. \A e \in engine_events : e \in engine_events' \/ e \in archive[MonthOf(e)]
    BY <1>0, <1>8, DeletedIsWritten DEF DeleteOld
  <2>2. archive' = archive /\ persisted' = persisted /\ reopened' = reopened
    BY <1>8 DEF DeleteOld
  <2>. QED
    BY <1>2, <1>4, <2>1, <2>2
<1>9. ASSUME UNCHANGED <<engine_events, archive, history>> PROVE LostOnlyByLaterRun'
  BY <1>2, <1>4, <1>9 DEF history
<1>. QED
  BY <1>5, <1>6, <1>7, <1>8, <1>9
  DEF Next, Run, vars, NextDay, Stamp, InsertFails, FetchOld, RunFails, Restart

LEMMA ArchiveStep == ArchiveInv /\ [Next]_vars => ArchiveInv'
<1>1. ArchiveInv => TypeInv
  BY DEF ArchiveInv
<1>2. ArchiveInv /\ [Next]_vars => TypeInv'
  BY <1>1, NextType
<1>. QED
  BY <1>2, ReadStep, WrittenStep, PurgedStep, LostStep DEF ArchiveInv

LEMMA ArchiveInvariant == Spec => []ArchiveInv
BY InitArchive, ArchiveStep, PTL DEF Spec

\* An event that has been in the table is in the table or in its month's file,
\* wherever runs fail and the engine restarts, unless a run created again the
\* file of a month already purged (archive_old_events).
THEOREM LostByReopening == Spec => []LostOnlyByLaterRun
<1>1. ArchiveInv => LostOnlyByLaterRun
  BY DEF ArchiveInv
<1>. QED
  BY <1>1, ArchiveInvariant, PTL

\* No row leaves the table before its month's file has it.
THEOREM ArchivedFirst == Spec => DeletedAreArchived
<1>1. ArchiveInv /\ [Next]_vars
      => [\A e \in engine_events : e \notin engine_events' => e \in archive[MonthOf(e)]]_vars
  <2> SUFFICES ASSUME ArchiveInv, [Next]_vars, NEW e \in engine_events, e \notin engine_events'
               PROVE  e \in archive[MonthOf(e)]
    OBVIOUS
  <2>1. DeleteOld
    BY OnlyDeleted
  <2>2. e \in Old(cutoff)
    BY <2>1 DEF DeleteOld
  <2>. QED
    BY <2>1, <2>2, DeletedIsWritten DEF ArchiveInv
<1>. QED
  BY <1>1, ArchiveInvariant, PTL DEF Spec, DeletedAreArchived
-----------------------------------------------------------------------------
(* The log keeps what it has stored. *)

Kept == [m \in Months |-> {e \in persisted : MonthOf(e) = m /\ InSomeRecord(e)}]

\* What a run has read stays in the table until it deletes.
RowsInv == pc # "idle" => rows \subseteq engine_events

LEMMA RowsStep == RowsInv /\ [Next]_vars => RowsInv'
BY DEF RowsInv, Next, Run, vars, log, task, history, Old, NextDay, Stamp, Insert, InsertFails,
       FetchOld, CreateFile, WriteFile, DeleteOld, RunFails, Restart

KeeperInv == ArchiveInv /\ RowsInv

LEMMA KeeperInvariant == Spec => []KeeperInv
<1>1. Init => KeeperInv
  BY InitArchive DEF Init, KeeperInv, RowsInv
<1>2. KeeperInv /\ [Next]_vars => KeeperInv'
  BY ArchiveStep, RowsStep DEF KeeperInv
<1>. QED
  BY <1>1, <1>2, PTL DEF Spec

\* A step that stores nothing and moves no event in or out of the records.
LEMMA KeptStays ==
  ASSUME TypeInv, [Next]_vars, persisted' = persisted,
         \A e \in persisted :
           e \in engine_events' \/ e \in archive'[MonthOf(e)] <=> InSomeRecord(e)
  PROVE  Kept' = Kept
<1>1. \A e \in persisted : MonthOf(e)' = MonthOf(e)
  BY StampsStay DEF TypeInv, TypeOK
<1>2. \A e \in persisted : InSomeRecord(e)' <=> InSomeRecord(e)
  BY <1>1 DEF InSomeRecord
<1>3. Months' = Months
  BY DEF Months, Days, month
<1>4. ASSUME NEW m \in Months
      PROVE  {e \in persisted' : MonthOf(e)' = m /\ InSomeRecord(e)'}
               = {e \in persisted : MonthOf(e) = m /\ InSomeRecord(e)}
  BY <1>1, <1>2
<1>. QED
  BY <1>3, <1>4 DEF Kept

LEMMA PersistedMonths ==
  ASSUME TypeInv
  PROVE  /\ persisted \subseteq Events /\ engine_events \subseteq persisted
         /\ \A e \in Events : MonthOf(e) \in Months
         /\ archive \in [Months -> SUBSET Events]
BY MonthType DEF TypeInv, TypeOK, MonthOf

LEMMA InsertStores ==
  ASSUME TypeInv, NEW e \in Events, Insert(e)
  PROVE  /\ e \notin persisted /\ persisted' = persisted \cup {e}
         /\ Kept' = [Kept EXCEPT ![MonthOf(e)] = @ \cup {e}]
<1>1. /\ e \notin persisted /\ persisted' = persisted \cup {e}
      /\ engine_events' = engine_events \cup {e} /\ stamp' = stamp /\ archive' = archive
  BY DEF Insert, TypeInv
<1>2. \A f \in Events : MonthOf(f)' = MonthOf(f)
  BY <1>1 DEF MonthOf
<1>3. InSomeRecord(e)' /\ \A f \in Events : f # e => (InSomeRecord(f)' <=> InSomeRecord(f))
  BY <1>1, <1>2 DEF InSomeRecord
<1>4. Months' = Months
  BY DEF Months, Days, month
<1>5. ASSUME NEW m \in Months
      PROVE  {f \in persisted' : MonthOf(f)' = m /\ InSomeRecord(f)'}
               = IF m = MonthOf(e)
                 THEN {f \in persisted : MonthOf(f) = m /\ InSomeRecord(f)} \cup {e}
                 ELSE {f \in persisted : MonthOf(f) = m /\ InSomeRecord(f)}
  BY <1>1, <1>2, <1>3, PersistedMonths
<1>. QED
  BY <1>1, <1>4, <1>5 DEF Kept

\* Creating a file takes the events of its month that are in no other record.
LEMMA CreateTakes ==
  ASSUME KeeperInv, [Next]_vars, NEW m \in Months, CreateFile(m)
  PROVE  /\ m \notin purged => Kept' = Kept
         /\ \E rest \in SUBSET Kept[m] : Kept' = [Kept EXCEPT ![m] = rest]
<1>0. TypeInv /\ PurgedInv
  BY DEF KeeperInv, ArchiveInv
<1>1. /\ persisted' = persisted /\ engine_events' = engine_events
      /\ archive'[m] = {} /\ \A n \in Months : n # m => archive'[n] = archive[n]
  BY <1>0, PersistedMonths DEF CreateFile
<1>2. m \notin purged => Kept' = Kept
  <2>1. m \notin purged => \A e \in persisted : MonthOf(e) = m => e \in engine_events
    BY <1>0 DEF PurgedInv
  <2>. QED
    BY <1>0, <1>1, <2>1, PersistedMonths, KeptStays DEF InSomeRecord
<1>3. \A e \in persisted : MonthOf(e)' = MonthOf(e)
  BY <1>0, StampsStay DEF TypeInv, TypeOK
<1>4. \A e \in persisted :
        /\ InSomeRecord(e)' => InSomeRecord(e)
        /\ MonthOf(e) # m => (InSomeRecord(e)' <=> InSomeRecord(e))
  BY <1>0, <1>1, <1>3, PersistedMonths DEF InSomeRecord
<1>5. Months' = Months
  BY DEF Months, Days, month
<1> DEFINE rest == {e \in persisted : MonthOf(e) = m /\ InSomeRecord(e)'}
<1>6. rest \subseteq Kept[m]
  BY <1>4 DEF Kept
<1>7. ASSUME NEW n \in Months
      PROVE  {e \in persisted' : MonthOf(e)' = n /\ InSomeRecord(e)'}
               = IF n = m THEN rest ELSE Kept[n]
  BY <1>1, <1>3, <1>4 DEF Kept
<1> HIDE DEF rest
<1>8. Kept' = [Kept EXCEPT ![m] = rest]
  BY <1>5, <1>7 DEF Kept
<1>. QED
  BY <1>2, <1>6, <1>8

\* What is written is still in the table, and what is deleted is in its file.
LEMMA WriteKeeps ==
  ASSUME KeeperInv, [Next]_vars, NEW m \in Months, WriteFile(m)
  PROVE  Kept' = Kept
<1>0. TypeInv /\ WrittenInv /\ RowsInv
  BY DEF KeeperInv, ArchiveInv
<1>1. /\ persisted' = persisted /\ engine_events' = engine_events
      /\ archive'[m] = {e \in rows : MonthOf(e) = m}
      /\ \A n \in Months : n # m => archive'[n] = archive[n]
  BY <1>0, PersistedMonths DEF WriteFile, history
<1>2. archive[m] = {} /\ rows \subseteq engine_events
  BY <1>0 DEF WriteFile, WrittenInv, RowsInv, Current
<1>. QED
  BY <1>0, <1>1, <1>2, PersistedMonths, KeptStays DEF InSomeRecord

LEMMA DeleteKeeps ==
  ASSUME KeeperInv, [Next]_vars, DeleteOld
  PROVE  Kept' = Kept
<1>0. TypeInv /\ \A e \in Old(cutoff) : e \in archive[MonthOf(e)]
  BY DeletedIsWritten DEF KeeperInv, ArchiveInv
<1>1. /\ persisted' = persisted /\ archive' = archive
      /\ engine_events' = engine_events \ Old(cutoff)
  BY DEF DeleteOld
<1>. QED
  BY <1>0, <1>1, KeptStays DEF InSomeRecord

\* The log implements the keeper of events: an insert stores, a delete purges, and
\* only the creation of a purged month's file takes events out of the records.
THEOREM ArchiveImplementsEventKeeper == Spec => ImplementsEventKeeper
<1>1. Init => EK!Init
  BY DEF Init, EK!Init
<1>2. KeeperInv /\ [Next]_vars => [EK!Next]_(EK!keeper)
  <2> SUFFICES ASSUME KeeperInv, [Next]_vars PROVE EK!Next \/ UNCHANGED EK!keeper
    OBVIOUS
  <2>0. TypeInv
    BY DEF KeeperInv, ArchiveInv
  <2>1. ASSUME NEW e \in Events, Insert(e) PROVE EK!Next
    <3>1. MonthOf(e) \in Months /\ purged' = purged
      BY <2>0, <2>1, PersistedMonths DEF Insert
    <3>2. EK!Store(e, MonthOf(e))
      BY <2>0, <2>1, <3>1, InsertStores DEF EK!Store, Kept
    <3>. QED
      BY <3>1, <3>2 DEF EK!Next, EK!Store
  <2>2. ASSUME NEW m \in Months, CreateFile(m) PROVE EK!Next \/ UNCHANGED EK!keeper
    <3>1. persisted' = persisted /\ purged' = purged
      BY <2>2 DEF CreateFile
    <3>2. CASE m \in purged
      <4>1. EK!BeginAnew(m)
        BY <2>2, <3>1, <3>2, CreateTakes DEF EK!BeginAnew, Kept
      <4>. QED
        BY <4>1 DEF EK!Next, EK!BeginAnew
    <3>3. CASE m \notin purged
      BY <2>2, <3>1, <3>3, CreateTakes DEF EK!keeper, Kept
    <3>. QED
      BY <3>2, <3>3
  <2>3. ASSUME NEW m \in Months, WriteFile(m) PROVE UNCHANGED EK!keeper
    BY <2>3, WriteKeeps DEF WriteFile, history, EK!keeper, Kept
  <2>4. CASE DeleteOld
    <3> DEFINE gone == {MonthOf(e) : e \in Old(cutoff)}
    <3>1. gone \in SUBSET Months
      BY <2>0, PersistedMonths DEF Old
    <3>2. purged' = purged \cup gone /\ persisted' = persisted
      BY <2>4 DEF DeleteOld
    <3> HIDE DEF gone
    <3>3. EK!Purge(gone)
      BY <2>4, <3>2, DeleteKeeps DEF EK!Purge, Kept
    <3>. QED
      BY <3>1, <3>3 DEF EK!Next, EK!Purge
  <2>5. ASSUME UNCHANGED <<engine_events, archive, history>> PROVE UNCHANGED EK!keeper
    <3>1. Kept' = Kept
      BY <2>0, <2>5, KeptStays DEF InSomeRecord, history
    <3>. QED
      BY <2>5, <3>1 DEF EK!keeper, Kept, history
  <2>. QED
    BY <2>1, <2>2, <2>3, <2>4, <2>5
    DEF Next, Run, vars, NextDay, Stamp, InsertFails, FetchOld, RunFails, Restart
<1>. QED
  BY <1>1, <1>2, KeeperInvariant, PTL DEF Spec, ImplementsEventKeeper, EK!Spec
=============================================================================
