-------------------------- MODULE ScheduledReports --------------------------
(***************************************************************************)
(* The daily report that is written to a folder at a set time while the    *)
(* application runs (AutoExportManager), its handlers, and the part of the *)
(* page "Data & storage" that sets it up.                                  *)
(*                                                                         *)
(* Time passes in slots no shorter than the minute between two checks;     *)
(* within one anything may happen.  The local backend is external: what it *)
(* answers of a group and a day is what was recorded by then.  The         *)
(* application and the service do not mean the same by a day: the one goes *)
(* by the computer's clock, the other by the clock of the attendance's     *)
(* time zone, and gives an overnight departure to the day before.  A slot  *)
(* is one of the computer's.  An entry of a report is the group and the    *)
(* slot somebody was recorded in, and the attendance's day.  A file is     *)
(* known by the groups in it: their names are taken to differ as file      *)
(* names.                                                                  *)
(***************************************************************************)
EXTENDS Integers, FiniteSets

CONSTANTS
    ReportGroups,   \* active groups
    Folders,        \* directories a report may be written to
    DaySlots,       \* slots of a day
    Zones,          \* how many slots the attendance's clock may be ahead of the computer's
    LastSlot,       \* bound on time
    MaxEntries,     \* bound on people recorded
    MaxAsks,        \* bound on what the user does
    MaxMishaps      \* bound on failures, ends of the application and sleeps

ASSUME ReportsAssumption ==
    /\ ReportGroups # {} /\ IsFiniteSet(ReportGroups)
    /\ Folders # {}
    /\ DaySlots \in Nat \ {0}
    /\ Zones \subseteq Int
    /\ {LastSlot, MaxEntries, MaxAsks, MaxMishaps} \subseteq Nat

VARIABLES
    minute,         \* the slot it is
    autoExport,     \* persistentStore's "autoExport"
    alive,          \* the application runs
    checked,        \* the timer has fired in this slot
    job,            \* triggerExport
    attended,       \* external: who was recorded, when and for which day
    reports,        \* external: the files
    reportPage,     \* the page: closed, loading, error, ready, or ready and exporting
    holdsUpTo,      \* history: what today's report holds if it is not written again: who was
                    \* recorded before this slot; the end of the day if no "Export now" wrote it
    owed,           \* history: the days whose report is due, and the slot it must reach up to
    asks, mishaps

reportVars == <<minute, autoExport, alive, checked, job, attended, reports, reportPage, holdsUpTo, owed, asks, mishaps>>

Never == -1
Today == minute \div DaySlots
TimeOfDay == minute % DaySlots
DueAt == minute - TimeOfDay + autoExport.time

Asking == asks < MaxAsks /\ asks' = asks + 1
Mishap == mishaps < MaxMishaps /\ mishaps' = mishaps + 1

NoJob == [at |-> "idle", day |-> Never, since |-> Never, format |-> "one", directory |-> Never,
          left |-> {}, rows |-> {}, byHand |-> FALSE]

ReportsInit ==
    /\ minute = 0
    /\ autoExport \in [enabled : BOOLEAN, time : 0 .. DaySlots - 1, directory : {CHOOSE d \in Folders : TRUE},
                       format : {"one", "each"}, lastExportedDate : {Never}]
    /\ alive = TRUE
    /\ checked = FALSE
    /\ job = NoJob
    /\ attended = {}
    /\ reports = {}
    /\ reportPage = "closed"
    /\ holdsUpTo = DaySlots
    /\ owed = {}
    /\ asks = 0
    /\ mishaps = 0

(***************************************************************************)
(* Checks and the export.                                                  *)
(***************************************************************************)
\* triggerExport begins: the groups of the configuration of the moment.
Started(byHand) ==
    job' = [at |-> "fetch", day |-> Today, since |-> minute, format |-> autoExport.format,
            directory |-> autoExport.directory, left |-> ReportGroups, rows |-> {}, byHand |-> byHand]

\* Seeded bug: only the minute that was set starts the export.
AtTheMinute == TimeOfDay = autoExport.time
IsDue == TimeOfDay >= autoExport.time

\* From the first check after the set time on, today's report is owed: up to that
\* time, or to the beginning of an "Export now" that takes its place.
Owes ==
    LET ends == {DueAt, holdsUpTo} \cup (IF job.byHand THEN {job.since} ELSE {})
    IN  IF /\ autoExport.enabled /\ TimeOfDay >= autoExport.time
           /\ job.day \in {Never, Today} /\ \A o \in owed : o.day # Today
        THEN \E upTo \in ends : (\A t \in ends : upTo <= t) /\ owed' = owed \cup {[day |-> Today, upTo |-> upTo]}
        ELSE UNCHANGED owed

\* checkAndRunExport.
Checks ==
    /\ IF autoExport.enabled /\ job.at = "idle" /\ IsDue /\ autoExport.lastExportedDate # Today
       THEN Started(FALSE) ELSE UNCHANGED job
    /\ Owes

CheckTimer ==
    /\ alive /\ ~checked
    /\ checked' = TRUE
    /\ Checks
    /\ UNCHANGED <<minute, autoExport, alive, attended, reports, reportPage, holdsUpTo, asks, mishaps>>

\* The next group's members and sessions are asked for: the attendance's day
\* of the same date.
FetchGroup(g) ==
    /\ job.at = "fetch" /\ g \in job.left
    /\ job' = [job EXCEPT !.rows = @ \cup {e \in attended : e.group = g /\ e.day = job.day},
                          !.left = @ \ {g},
                          !.at = IF job.left = {g} THEN "write" ELSE "fetch"]
    /\ UNCHANGED <<minute, autoExport, alive, checked, attended, reports, reportPage, holdsUpTo, owed, asks, mishaps>>

\* The page is told of an export it asked for.
ExportAnswered == reportPage' = IF job.byHand /\ reportPage = "exporting" THEN "ready" ELSE reportPage

Files == IF job.format = "one" THEN {ReportGroups} ELSE {{g} : g \in ReportGroups}
RowsOf(file) == {e \in job.rows : e.group \in file}

\* A file is written anew.
Replaces(file, rows) ==
    LET stays == {r \in reports : r.directory # job.directory \/ r.day # job.day \/ r.of # file}
    IN  reports' = stays \cup {[directory |-> job.directory, day |-> job.day, of |-> file, rows |-> rows]}

WriteFile(file) == Replaces(file, RowsOf(file))

Written == {r.of : r \in {q \in reports : q.directory = job.directory /\ q.day = job.day /\ q.rows = RowsOf(q.of)}}

WriteExportFile(file) ==
    /\ job.at = "write" /\ file \in Files \ Written
    /\ WriteFile(file)
    /\ UNCHANGED <<minute, autoExport, alive, checked, job, attended, reportPage, holdsUpTo, owed, asks, mishaps>>

AllWritten == Files \subseteq Written

Exported ==
    /\ job.at = "write" /\ AllWritten
    /\ autoExport' = [autoExport EXCEPT !.lastExportedDate = job.day]
    /\ job' = NoJob
    /\ ExportAnswered
    /\ holdsUpTo' = IF job.byHand /\ job.day = Today /\ job.since < holdsUpTo
                    THEN job.since ELSE holdsUpTo
    /\ UNCHANGED <<minute, alive, checked, attended, reports, owed, asks, mishaps>>

\* An export that ends early may leave the file it was writing empty.  Its report
\* is no longer owed before the next check of its day, unless it was written
\* before and its files were not touched; once it was written the timer does not
\* write it again.
WrittenBefore == autoExport.lastExportedDate = job.day

Interrupted ==
    /\ job' = NoJob
    /\ \/ UNCHANGED reports
       \/ job.at = "write" /\ \E f \in Files : Replaces(f, {})
    /\ owed' = {o \in owed : o.day = job.day => WrittenBefore /\ job.at = "fetch"}
    /\ holdsUpTo' = IF WrittenBefore /\ job.at = "write" /\ job.day = Today THEN 0 ELSE holdsUpTo

\* A request or a write fails; the timer tries again.
ExportFailed ==
    /\ Mishap
    /\ job.at # "idle"
    /\ Interrupted
    /\ ExportAnswered
    /\ UNCHANGED <<minute, autoExport, alive, checked, attended, asks>>

(***************************************************************************)
(* The page.                                                               *)
(***************************************************************************)
OpenReports ==
    /\ Asking
    /\ alive /\ reportPage \in {"closed", "error"}
    /\ reportPage' = "loading"
    /\ UNCHANGED <<minute, autoExport, alive, checked, job, attended, reports, holdsUpTo, owed, mishaps>>

ConfigLoaded ==
    /\ alive /\ reportPage = "loading"
    /\ \/ reportPage' = "ready" /\ UNCHANGED mishaps
       \/ Mishap /\ reportPage' = "error"
    /\ UNCHANGED <<minute, autoExport, alive, checked, job, attended, reports, holdsUpTo, owed, asks>>

LeaveReports ==
    /\ Asking
    /\ reportPage # "closed"
    /\ reportPage' = "closed"
    /\ UNCHANGED <<minute, autoExport, alive, checked, job, attended, reports, holdsUpTo, owed, mishaps>>

\* All but the switch are shown while it is on.
Switched == autoExport' = [autoExport EXCEPT !.enabled = ~@]
TimeSet == autoExport.enabled /\ \E t \in 0 .. DaySlots - 1 : autoExport' = [autoExport EXCEPT !.time = t]
FormatSet == autoExport.enabled /\ \E f \in {"one", "each"} : autoExport' = [autoExport EXCEPT !.format = f]
FolderSet == autoExport.enabled /\ \E d \in Folders : autoExport' = [autoExport EXCEPT !.directory = d]

HandleUpdateAutoExport ==
    /\ Asking
    /\ alive /\ reportPage \in {"ready", "exporting"}
    /\ Switched \/ TimeSet \/ FormatSet \/ FolderSet
    /\ autoExport' # autoExport
    /\ UNCHANGED <<minute, alive, checked, job, attended, reports, reportPage, holdsUpTo, owed, mishaps>>

MayExportNow == alive /\ reportPage = "ready" /\ autoExport.enabled

\* "Export now" of today, whatever the time; nothing while an export runs.
HandleTriggerAutoExportNow ==
    /\ Asking
    /\ MayExportNow
    /\ IF job.at = "idle"
       THEN /\ Started(TRUE)
            /\ reportPage' = "exporting"
       ELSE UNCHANGED <<job, reportPage>>
    /\ UNCHANGED <<minute, autoExport, alive, checked, attended, reports, holdsUpTo, owed, mishaps>>

(***************************************************************************)
(* Time, and the application's ends.                                       *)
(***************************************************************************)
\* today_str, when the attendance's clock is so far ahead.
AttendanceDay(ahead) == (minute + ahead) \div DaySlots

\* Who came on the day before and leaves overnight is recorded with that day.
LeavesOvernight(g, day) == \E e \in attended : e.group = g /\ e.day = day

Record(g) ==
    /\ Cardinality(attended) < MaxEntries
    /\ \E ahead \in Zones, back \in {0, 1} :
          LET day == AttendanceDay(ahead) - back
          IN  /\ back = 1 => LeavesOvernight(g, day)
              /\ attended' = attended \cup {[group |-> g, slot |-> minute, day |-> day]}
    /\ UNCHANGED <<minute, autoExport, alive, checked, job, reports, reportPage, holdsUpTo, owed, asks, mishaps>>

\* The next slot.  Requests have a timeout: an export does not last into the
\* second slot after the one it began in (bound).
Advance ==
    /\ minute < LastSlot
    /\ job.at = "idle" \/ job.since = minute
    /\ minute' = minute + 1
    /\ checked' = FALSE
    /\ holdsUpTo' = IF minute' % DaySlots = 0 THEN minute' + DaySlots ELSE holdsUpTo
    /\ UNCHANGED <<autoExport, alive, job, attended, reports, reportPage, owed, asks>>

Tick == alive /\ checked /\ Advance /\ UNCHANGED mishaps
TickWhileOff == ~alive /\ Advance /\ UNCHANGED mishaps

\* The computer sleeps over the check of a slot.
Sleep == alive /\ ~checked /\ Mishap /\ Advance

QuitApp ==
    /\ Mishap
    /\ alive
    /\ alive' = FALSE
    /\ Interrupted
    /\ reportPage' = "closed"
    /\ UNCHANGED <<minute, autoExport, checked, attended, asks>>

\* start checks at once.
LaunchApp ==
    /\ ~alive
    /\ alive' = TRUE
    /\ checked' = TRUE
    /\ Checks
    /\ UNCHANGED <<minute, autoExport, attended, reports, reportPage, holdsUpTo, asks, mishaps>>

ReportsNext ==
    \/ CheckTimer \/ Exported \/ ExportFailed
    \/ (\E g \in ReportGroups : FetchGroup(g) \/ Record(g))
    \/ \E f \in SUBSET ReportGroups : WriteExportFile(f)
    \/ OpenReports \/ ConfigLoaded \/ LeaveReports
    \/ HandleUpdateAutoExport \/ HandleTriggerAutoExportNow
    \/ Tick \/ TickWhileOff \/ Sleep \/ QuitApp \/ LaunchApp

ReportsSpec == ReportsInit /\ [][ReportsNext]_reportVars

(***************************************************************************)
(* What must hold.                                                         *)
(***************************************************************************)
ReportsOf(d) == {r \in reports : r.day = d}

\* DataStorage: "Export daily attendance reports to a local or network folder at
\* the scheduled time while Facenox is running."  The time is the computer's, and
\* so is the date: the report of a date is of the attendance's day of that date.
\* From the first check at or after that time on, and whenever no export runs,
\* whoever was recorded for the day before it is in a report of the day: after a
\* start or a sleep past the time, a check that found another export at work, one
\* that failed and was tried again, one that went on past midnight, a time or a
\* format changed meanwhile, and whichever way the two clocks differ.  What comes
\* after that moment is promised nothing, be it an overnight departure or, where
\* the attendance's clock is behind the computer's, most of its day.  Three
\* exceptions: a report that failed after its day's last check is not made up
\* for, "Export now" before the time takes the place of the scheduled report, and
\* an "Export now" that fails while it writes a report anew may leave less of it
\* than there was.
DailyReports ==
    job.at = "idle" =>
        \A o \in owed : {e \in attended : e.day = o.day /\ e.slot < o.upTo} \subseteq UNION {r.rows : r \in ReportsOf(o.day)}

=============================================================================
