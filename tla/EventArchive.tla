---------------------------- MODULE EventArchive ----------------------------
(***************************************************************************)
(* The unified event log and its archival.  EventLogger stamps an event    *)
(* and inserts it into engine_events; once a day archive_old_events reads  *)
(* the rows older than the retention, writes one file for each month they  *)
(* are of, and deletes them.  File::create truncates: a month's file holds *)
(* what the last run that had rows of that month wrote.                    *)
(*                                                                         *)
(* Time is counted in days.  Every statement and every file operation is a *)
(* step; the engine may stop between any two of them.                      *)
(***************************************************************************)
EXTENDS Integers

CONSTANTS
  Events,     \* the events the engine may emit
  MaxDay,     \* bound on the days
  MonthLen,   \* days of a month
  Retention   \* EVENTS_RETENTION_DAYS

\* With a retention of no days an event stamped before midnight could be
\* inserted after the rows were read and deleted without being written.
ASSUME ArchiveAssumption ==
  /\ MaxDay \in Nat \ {0} /\ MonthLen \in Nat \ {0} /\ Retention \in Nat \ {0}

Days == 0..MaxDay

VARIABLES
  day,           \* the current day
  stamp,         \* ts of each event, 0 until it is emitted
  emitting,      \* events stamped and not inserted yet
  engine_events, \* the table
  archive,       \* the events in each month's file
  pc,            \* the step of the archival task
  cutoff,        \* the run deletes rows with a ts below it
  rows,          \* the rows the run has read
  months,        \* months of the run still to be written
  last_run,      \* day of the last run of this life of the engine
  persisted,     \* history: events that have been in the table
  purged,        \* history: months rows of which have been deleted
  reopened       \* history: months whose file was created again after that

log == <<stamp, emitting>>
task == <<pc, cutoff, rows, months, last_run>>
history == <<persisted, purged, reopened>>
vars == <<day, log, engine_events, archive, task, history>>

\* Two days of one month share a file.
month(d) == d \div MonthLen
Months == {month(d) : d \in Days}
MonthOf(e) == month(stamp[e])

Init ==
  /\ day = 1
  /\ stamp = [e \in Events |-> 0]
  /\ emitting = {}
  /\ engine_events = {}
  /\ archive = [m \in Months |-> {}]
  /\ pc = "idle"
  /\ cutoff = 0
  /\ rows = {}
  /\ months = {}
  /\ last_run = 0
  /\ persisted = {}
  /\ purged = {}
  /\ reopened = {}

\* An insert takes less than a day.
NextDay ==
  /\ day < MaxDay
  /\ \A e \in emitting : stamp[e] = day
  /\ day' = day + 1
  /\ UNCHANGED <<log, engine_events, archive, task, history>>
-----------------------------------------------------------------------------
(* EventLogger::emit. *)

Stamp(e) ==
  /\ stamp[e] = 0
  /\ stamp' = [stamp EXCEPT ![e] = day]
  /\ emitting' = emitting \cup {e}
  /\ UNCHANGED <<day, engine_events, archive, task, history>>

Insert(e) ==
  /\ e \in emitting
  /\ emitting' = emitting \ {e}
  /\ engine_events' = engine_events \cup {e}
  /\ persisted' = persisted \cup {e}
  /\ UNCHANGED <<day, stamp, archive, task, purged, reopened>>

\* The error is logged and the event is gone: logging is best effort.
InsertFails(e) ==
  /\ e \in emitting
  /\ emitting' = emitting \ {e}
  /\ UNCHANGED <<day, stamp, engine_events, archive, task, history>>
-----------------------------------------------------------------------------
(* archive_old_events, one run a day. *)

Old(c) == {e \in engine_events : stamp[e] < c}

\* Mutant: the rows are read with a cutoff one day earlier than the delete's.
FetchOld_OtherCutoff ==
  /\ pc = "idle"
  /\ last_run < day
  /\ last_run' = day
  /\ cutoff' = day - Retention
  /\ rows' = {e \in engine_events : stamp[e] + 1 < day - Retention}
  /\ months' = {MonthOf(e) : e \in rows'}
  /\ pc' = IF Old(day - Retention) = {} THEN "idle" ELSE "create"
  /\ UNCHANGED <<day, log, engine_events, archive, history>>

\* Mutant: the day of the next run is noted instead of this one's.
FetchOld_NotesNext ==
  /\ pc = "idle"
  /\ last_run < day
  /\ last_run' = day + 1
  /\ cutoff' = day - Retention
  /\ rows' = Old(day - Retention)
  /\ months' = {MonthOf(e) : e \in rows'}
  /\ pc' = IF rows' = {} THEN "idle" ELSE "create"
  /\ UNCHANGED <<day, log, engine_events, archive, history>>

FetchOld ==
  /\ pc = "idle"
  /\ last_run < day
  /\ last_run' = day
  /\ cutoff' = day - Retention
  /\ rows' = Old(day - Retention)
  /\ months' = {MonthOf(e) : e \in rows'}
  /\ pc' = IF rows' = {} THEN "idle" ELSE "create"
  /\ UNCHANGED <<day, log, engine_events, archive, history>>

\* The month the map yields next.
Current(m) == m \in months /\ \A n \in months : m <= n

CreateFile(m) ==
  /\ pc = "create"
  /\ Current(m)
  /\ archive' = [archive EXCEPT ![m] = {}]
  /\ reopened' = IF m \in purged THEN reopened \cup {m} ELSE reopened
  /\ pc' = "write"
  /\ UNCHANGED <<day, log, engine_events, cutoff, rows, months, last_run, persisted, purged>>

WriteFile(m) ==
  /\ pc = "write"
  /\ Current(m)
  /\ archive' = [archive EXCEPT ![m] = {e \in rows : MonthOf(e) = m}]
  /\ months' = months \ {m}
  /\ pc' = "create"
  /\ UNCHANGED <<day, log, engine_events, cutoff, rows, last_run, history>>

\* Mutant: rows of the cutoff itself are deleted too.
DeleteOld_Inclusive ==
  /\ pc = "create"
  /\ months = {}
  /\ engine_events' = engine_events \ Old(cutoff + 1)
  /\ purged' = purged \cup {MonthOf(e) : e \in Old(cutoff + 1)}
  /\ pc' = "idle"
  /\ UNCHANGED <<day, log, archive, cutoff, rows, months, last_run, persisted, reopened>>

\* All files are written.
DeleteOld ==
  /\ pc = "create"
  /\ months = {}
  /\ engine_events' = engine_events \ Old(cutoff)
  /\ purged' = purged \cup {MonthOf(e) : e \in Old(cutoff)}
  /\ pc' = "idle"
  /\ UNCHANGED <<day, log, archive, cutoff, rows, months, last_run, persisted, reopened>>

\* A directory, a file or a statement fails: the run returns the error, and
\* the next one is tomorrow's.
RunFails ==
  /\ pc \in {"create", "write"}
  /\ pc' = "idle"
  /\ UNCHANGED <<day, log, engine_events, archive, cutoff, rows, months, last_run, history>>

\* The engine stops and starts again; the first run comes ten minutes later.
Restart ==
  /\ emitting' = {}
  /\ pc' = "idle"
  /\ last_run' = 0
  /\ UNCHANGED <<day, stamp, engine_events, archive, cutoff, rows, months, history>>
-----------------------------------------------------------------------------
Run ==
  \/ FetchOld \/ DeleteOld
  \/ \E m \in Months : CreateFile(m) \/ WriteFile(m)

Next ==
  \/ NextDay \/ Run \/ RunFails \/ Restart
  \/ \E e \in Events : Stamp(e) \/ Insert(e) \/ InsertFails(e)

Spec == Init /\ [][Next]_vars
-----------------------------------------------------------------------------
(* Properties. *)

TypeOK ==
  /\ day \in Days
  /\ stamp \in [Events -> Days]
  /\ emitting \subseteq Events
  /\ engine_events \subseteq Events
  /\ archive \in [Months -> SUBSET Events]
  /\ pc \in {"idle", "create", "write"}
  /\ cutoff \in Int
  /\ rows \subseteq Events
  /\ months \subseteq Months
  /\ last_run \in Days
  /\ persisted \subseteq Events
  /\ purged \subseteq Months
  /\ reopened \subseteq Months

\* A row leaves the table only when the file of its month has it, although the
\* table is written to between the read and the delete (archive_old_events).
DeletedAreArchived ==
  [][\A e \in engine_events : e \notin engine_events' => e \in archive[MonthOf(e)]]_vars

InSomeRecord(e) == e \in engine_events \/ e \in archive[MonthOf(e)]

\* A run that stops anywhere and is run again loses nothing: an event is lost
\* only when a run creates the file of a month that an earlier run had filled
\* and deleted from the table.
LostOnlyByLaterRun ==
  \A e \in persisted : InSomeRecord(e) \/ MonthOf(e) \in reopened

\* Step by step: nothing but the creation of a purged month's file takes a stored
\* event out of the log, it takes events of that month only, and what is gone does
\* not come back (archive_old_events, whose rows are in table and file for a while).
EK == INSTANCE EventKeeper
        WITH Periods <- Months, stored <- persisted,
             kept <- [m \in Months |-> {e \in persisted : MonthOf(e) = m /\ InSomeRecord(e)}]
ImplementsEventKeeper == EK!Spec
=============================================================================
