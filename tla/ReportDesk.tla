----------------------------- MODULE ReportDesk -----------------------------
(***************************************************************************)
(* The reports page of one group (Reports, useReportData): its table of a  *)
(* range of days, corrections and their Undo (EditSessionModal), and the   *)
(* exports of its header button (useSettings' reportsExportHandlers).      *)
(*                                                                         *)
(* One member has one row a day.  A time is 0 (none), 1 (of a scan) or 2   *)
(* (typed).  The local backend (update_session) and the scans are          *)
(* external.  Search, filter, grouping and columns choose among rows of    *)
(* the table and are left out.                                             *)
(***************************************************************************)
EXTENDS Integers, FiniteSets

CONSTANTS
    ReportDays,     \* days, 1 is the oldest, the largest is today
    Ranges,         \* ranges of days the toolbar offers
    NoRange,
    MaxMoves,       \* bound on what the user does
    MaxScans,       \* bound on scans
    MaxFaults       \* bound on failing requests

ASSUME DeskAssumption ==
    /\ ReportDays \subseteq Nat /\ IsFiniteSet(ReportDays)
    /\ Ranges \subseteq SUBSET ReportDays \ {{}}
    /\ NoRange \notin Ranges
    /\ {MaxMoves, MaxScans, MaxFaults} \subseteq Nat
    /\ \E t \in ReportDays : {t} \in Ranges /\ \A d \in ReportDays : d <= t

VARIABLES
    sessions,       \* external: the stored row of each day
    range,          \* reportStartDate .. reportEndDate, NoRange while the page is closed
    debounced,      \* the timer before generateReport
    settled,        \* settledQueryKey
    loading, error,
    rowsLoaded,     \* useReportData's sessions
    asked,          \* generateReport's requests; live is the one of requestIdRef
    handlers,       \* reportsExportHandlers
    editing,        \* editingRow
    puts,           \* updateSession's requests, of the editor and of Undo
    toast,          \* undoToast
    bulk,           \* ExportAllGroupsModal
    lastFile,       \* history: the last export and the days in it that were not read
    requeried,      \* history: a change was answered after the range it was made in
    moves, scans, faults

deskVars == <<sessions, range, debounced, settled, loading, error, rowsLoaded, asked, handlers, editing,
              puts, toast, bulk, lastFile, requeried, moves, scans, faults>>
query == <<range, debounced, settled, loading, error, rowsLoaded, asked>>

TodayIs == CHOOSE d \in ReportDays : \A e \in ReportDays : e <= d

\* n, a history, counts the changes made at this desk.
NoSession == [status |-> "none", in |-> 0, out |-> 0, n |-> 0]
Scanned == [status |-> "present", in |-> 1, out |-> 0, n |-> 0]
\* A day that was not read: a table shows it like one without a session.
Unread == [status |-> "unread", in |-> 0, out |-> 0, n |-> 0]
Unloaded == [d \in ReportDays |-> Unread]

NoHandlers == [of |-> NoRange, rows |-> Unloaded, failed |-> FALSE]
NoEdit == [day |-> 0, row |-> Unread]
NoBulk == [at |-> "closed", rows |-> Unloaded]

Moves == moves < MaxMoves /\ moves' = moves + 1
Faults == faults < MaxFaults /\ faults' = faults + 1

DeskInit ==
    /\ sessions \in {[d \in ReportDays |-> IF d = TodayIs THEN s ELSE Scanned] : s \in {NoSession, Scanned}}
    /\ range = NoRange
    /\ debounced = FALSE /\ settled = NoRange /\ loading = TRUE /\ error = FALSE
    /\ rowsLoaded = Unloaded
    /\ asked = {}
    /\ handlers = NoHandlers
    /\ editing = NoEdit
    /\ puts = {}
    /\ toast = NoEdit
    /\ bulk = NoBulk
    /\ lastFile = [unread |-> {}, failed |-> FALSE]
    /\ requeried = FALSE
    /\ moves = 0 /\ scans = 0 /\ faults = 0

(***************************************************************************)
(* The query.                                                              *)
(***************************************************************************)
TableShows == ~loading /\ settled = range
Shown == IF settled = range THEN rowsLoaded ELSE Unloaded

\* Seeded bug: the button is told of the table while it loads.
AnyTime == range # NoRange
Settles == range # NoRange /\ TableShows
\* The effect that tells the header's button what to export.
Publishes ==
    handlers' = IF range' = NoRange THEN NoHandlers
                ELSE IF Settles' THEN [of |-> range', rows |-> Shown', failed |-> error'] ELSE handlers

Superseded == {[q EXCEPT !.live = FALSE] : q \in asked}

\* The page opens with today, and a new range starts a new query.
Queries(r) ==
    /\ range' = r
    /\ debounced' = TRUE
    /\ settled' = NoRange
    /\ loading' = TRUE
    /\ asked' = Superseded

\* generateReport of the range it was made for.
Generates(of) ==
    IF of = range
    THEN /\ asked' = Superseded \cup {[of |-> range, at |-> "sent", live |-> TRUE, rows |-> Unloaded]}
         /\ loading' = TRUE
         /\ error' = FALSE
    ELSE UNCHANGED <<asked, loading, error>>

OpenDesk ==
    /\ Moves
    /\ range = NoRange
    /\ Queries({TodayIs})
    /\ rowsLoaded' = Unloaded /\ error' = FALSE
    /\ UNCHANGED <<sessions, handlers, editing, puts, toast, bulk, lastFile, requeried, scans, faults>>

\* Another section: what was asked and what was sent is answered to nobody.
CloseDesk ==
    /\ Moves
    /\ range # NoRange /\ bulk.at = "closed" /\ editing = NoEdit
    /\ range' = NoRange
    /\ debounced' = FALSE
    /\ asked' = {}
    /\ handlers' = NoHandlers
    /\ puts' = {[p EXCEPT !.of = NoRange] : p \in puts}
    /\ toast' = NoEdit
    /\ UNCHANGED <<sessions, settled, loading, error, rowsLoaded, editing, bulk, lastFile, requeried, scans, faults>>

\* A preset or "Apply Range" of the toolbar.
SetRange(r) ==
    /\ Moves
    /\ range \notin {NoRange, r} /\ bulk.at = "closed" /\ editing = NoEdit
    /\ Queries(r)
    /\ UNCHANGED <<sessions, error, rowsLoaded, handlers, editing, puts, toast, bulk, lastFile, requeried, scans, faults>>

Debounce ==
    /\ debounced
    /\ debounced' = FALSE
    /\ Generates(range)
    /\ UNCHANGED <<sessions, range, settled, rowsLoaded, handlers, editing, puts, toast, bulk, lastFile, requeried,
                   moves, scans, faults>>

Read(days) == [d \in ReportDays |-> IF d \in days THEN sessions[d] ELSE Unread]

ServeReport(q) ==
    /\ q.at = "sent"
    /\ asked' = (asked \ {q}) \cup {[q EXCEPT !.at = "served", !.rows = Read(q.of)]}
    /\ UNCHANGED <<sessions, range, debounced, settled, loading, error, rowsLoaded, handlers, editing, puts, toast,
                   bulk, lastFile, requeried, moves, scans, faults>>

\* Seeded bug: any answer for the range is taken.
OfRange(q) == q.of = range
IsCurrentRequest(q) == q.live

ReportAnswered(q) ==
    /\ q.at = "served"
    /\ asked' = asked \ {q}
    /\ IF IsCurrentRequest(q)
       THEN rowsLoaded' = q.rows /\ loading' = FALSE /\ settled' = range
       ELSE UNCHANGED <<rowsLoaded, loading, settled>>
    /\ UNCHANGED <<range, error>>
    /\ Publishes
    /\ UNCHANGED <<sessions, debounced, editing, puts, toast, bulk, lastFile, requeried, moves, scans, faults>>

\* The sessions of the query before stay.  (A superseded one is answered to nobody.)
ReportFails(q) ==
    /\ Faults
    /\ IsCurrentRequest(q)
    /\ asked' = asked \ {q}
    /\ error' = TRUE /\ loading' = FALSE /\ settled' = range
    /\ UNCHANGED <<range, rowsLoaded>>
    /\ Publishes
    /\ UNCHANGED <<sessions, debounced, editing, puts, toast, bulk, lastFile, requeried, moves, scans>>

(***************************************************************************)
(* Corrections.                                                            *)
(***************************************************************************)
\* The pencil of a row; an error takes the table's place.
HasPencil(d) == range # NoRange /\ TableShows /\ ~error /\ d \in range

OpenEditor(d) ==
    /\ Moves
    /\ HasPencil(d) /\ editing = NoEdit /\ bulk.at = "closed"
    /\ editing' = [day |-> d, row |-> rowsLoaded[d]]
    /\ UNCHANGED <<query, sessions, handlers, puts, toast, bulk, lastFile, requeried, scans, faults>>

\* The cross and Escape close it even while it saves.
CloseEditor ==
    /\ editing # NoEdit
    /\ editing' = NoEdit
    /\ UNCHANGED <<query, sessions, handlers, puts, toast, bulk, lastFile, requeried, moves, scans, faults>>

Saving == \E p \in puts : p.kind = "save"

\* What is left as it was is not sent (-1).
Keep == -1
Fields(row) ==
    {[status |-> "absent", in |-> 0, out |-> 0]}
        \cup [status : {"present"}, in : IF row.in = 0 THEN {2} ELSE {Keep, 2},
              out : IF row.out = 0 THEN {Keep, 2} ELSE {Keep, 0, 2}]

HandleSaveSession(f) ==
    /\ editing # NoEdit /\ ~Saving
    /\ f \in Fields(editing.row)
    /\ puts' = puts \cup {[kind |-> "save", at |-> "sent", of |-> range, day |-> editing.day,
                           orig |-> editing.row, fields |-> f]}
    /\ UNCHANGED <<query, sessions, handlers, editing, toast, bulk, lastFile, requeried, moves, scans, faults>>

\* The row as it was when it was opened; one that had no session becomes absent.
Undo ==
    /\ Moves
    /\ range # NoRange /\ toast # NoEdit
    /\ toast' = NoEdit
    /\ puts' = puts \cup {[kind |-> "undo", at |-> "sent", of |-> range, day |-> toast.day, orig |-> toast.row,
                           fields |-> [status |-> IF toast.row.status = "none" THEN "absent" ELSE toast.row.status,
                                       in |-> toast.row.in, out |-> toast.row.out]]}
    /\ UNCHANGED <<query, sessions, handlers, editing, bulk, lastFile, requeried, scans, faults>>

\* Five seconds, or dismissed.
ToastGoes ==
    /\ toast # NoEdit
    /\ toast' = NoEdit
    /\ UNCHANGED <<query, sessions, handlers, editing, puts, bulk, lastFile, requeried, moves, scans, faults>>

\* Seeded bug: the form sends every field, changed or not.
Whole(row, p) ==
    [status |-> p.fields.status,
     in |-> IF p.fields.in = Keep THEN p.orig.in ELSE p.fields.in,
     out |-> IF p.fields.out = Keep THEN p.orig.out ELSE p.fields.out, n |-> row.n + 1]
\* update_session: a field that is not sent stays; an absence has no times.
Corrected(row, p) ==
    [status |-> p.fields.status,
     in |-> IF p.fields.in = Keep THEN row.in ELSE p.fields.in,
     out |-> IF p.fields.out = Keep THEN row.out ELSE p.fields.out, n |-> row.n + 1]

ServePut(p) ==
    /\ p.at = "sent"
    /\ sessions' = [sessions EXCEPT ![p.day] = Corrected(@, p)]
    /\ puts' = (puts \ {p}) \cup {[p EXCEPT !.at = "served"]}
    /\ UNCHANGED <<query, handlers, editing, toast, bulk, lastFile, requeried, moves, scans, faults>>

\* onSuccess closes whichever row is open; the table is generated anew.
PutAnswered(p) ==
    /\ p.at = "served"
    /\ puts' = puts \ {p}
    /\ IF p.of # NoRange
       THEN /\ Generates(p.of)
            /\ IF p.kind = "save" THEN editing' = NoEdit /\ toast' = [day |-> p.day, row |-> p.orig]
               ELSE UNCHANGED <<editing, toast>>
       ELSE UNCHANGED <<asked, loading, error, editing, toast>>
    /\ requeried' = (requeried \/ p.of # range)
    /\ UNCHANGED <<sessions, range, debounced, settled, rowsLoaded, handlers, bulk, lastFile, moves, scans, faults>>

\* Before or after the backend did it: the form or the log tells.
PutFails(p) ==
    /\ Faults
    /\ puts' = puts \ {p}
    /\ requeried' = (requeried \/ p.at = "served")
    /\ UNCHANGED <<query, sessions, handlers, editing, toast, bulk, lastFile, moves, scans>>

(***************************************************************************)
(* Exports.                                                                *)
(***************************************************************************)
MayExport == handlers # NoHandlers /\ bulk.at = "closed" /\ editing = NoEdit
Exports(of, rows, failed) == lastFile' = [unread |-> {d \in of : rows[d] = Unread}, failed |-> failed]

HandleExportCSV ==
    /\ Moves
    /\ MayExport
    /\ Exports(handlers.of, handlers.rows, handlers.failed)
    /\ UNCHANGED <<query, sessions, handlers, editing, puts, toast, bulk, requeried, scans, faults>>

HandleOpenExportAllModal ==
    /\ Moves
    /\ MayExport
    /\ bulk' = [NoBulk EXCEPT !.at = "open"]
    /\ UNCHANGED <<query, sessions, handlers, editing, puts, toast, lastFile, requeried, scans, faults>>

CloseExportAll ==
    /\ bulk.at = "open"
    /\ bulk' = NoBulk
    /\ UNCHANGED <<query, sessions, handlers, editing, puts, toast, lastFile, requeried, moves, scans, faults>>

\* All groups are read anew.
ReadAll == Read(range)

HandleExecuteExportAll ==
    /\ bulk.at = "open"
    /\ bulk' = [at |-> "exporting", rows |-> ReadAll]
    /\ UNCHANGED <<query, sessions, handlers, editing, puts, toast, lastFile, requeried, moves, scans, faults>>

BulkExported ==
    /\ bulk.at = "exporting"
    /\ bulk' = NoBulk
    /\ Exports(range, bulk.rows, FALSE)
    /\ UNCHANGED <<query, sessions, handlers, editing, puts, toast, requeried, moves, scans, faults>>

\* One read that fails fails the export.
BulkFails ==
    /\ Faults
    /\ bulk.at = "exporting"
    /\ bulk' = [NoBulk EXCEPT !.at = "open"]
    /\ UNCHANGED <<query, sessions, handlers, editing, puts, toast, lastFile, requeried, moves, scans>>

(***************************************************************************)
(* Scans of today: the first is the time in, later ones the time out.      *)
(***************************************************************************)
ScanToday ==
    /\ scans < MaxScans
    /\ scans' = scans + 1
    /\ sessions' = [sessions EXCEPT ![TodayIs] =
           IF @.in = 0 THEN [@ EXCEPT !.status = "present", !.in = 1] ELSE [@ EXCEPT !.out = 1]]
    /\ UNCHANGED <<query, handlers, editing, puts, toast, bulk, lastFile, requeried, moves, faults>>

DeskNext ==
    \/ OpenDesk \/ CloseDesk \/ (\E r \in Ranges : SetRange(r)) \/ Debounce
    \/ (\E q \in asked : ServeReport(q) \/ ReportAnswered(q) \/ ReportFails(q))
    \/ (\E d \in ReportDays : OpenEditor(d)) \/ CloseEditor
    \/ (\E f \in Fields(editing.row) : HandleSaveSession(f)) \/ Undo \/ ToastGoes
    \/ (\E p \in puts : ServePut(p) \/ PutAnswered(p) \/ PutFails(p))
    \/ HandleExportCSV \/ HandleOpenExportAllModal \/ CloseExportAll
    \/ HandleExecuteExportAll \/ BulkExported \/ BulkFails
    \/ ScanToday

DeskSpec == DeskInit /\ [][DeskNext]_deskVars

(***************************************************************************)
(* What must hold.                                                         *)
(***************************************************************************)
\* With nothing under way and no error shown, the table has every change made at
\* this desk: an answer to a request from before a correction never takes the
\* place of one from after it, whatever the range, Undo and the debounce do.
\* Except when a correction is answered after the range was changed, or its answer
\* was lost: generateReport of the old range is dropped and nothing else asks.
TableFresh ==
    range # NoRange /\ TableShows /\ ~error /\ asked = {} /\ puts = {} /\ ~requeried =>
        \A d \in range : rowsLoaded[d].n = sessions[d].n

\* "Unchanged fields are omitted": a time that a scan stored while a row was being
\* corrected, or while the correction was on its way, is lost only to a time the
\* user typed or cleared for it, to an absence, or to an Undo.
ScansKept ==
    [][\A d \in ReportDays : \A t \in {"in", "out"} :
          sessions[d][t] = 1 /\ sessions'[d][t] # 1 =>
              \E p \in puts : /\ p.day = d /\ p.at = "sent"
                              /\ \/ p.kind = "undo" \/ p.fields.status = "absent" \/ p.fields[t] # Keep]_deskVars

\* An exported file says of no day that there was no attendance unless the day was
\* read: exports before a table is loaded, while another range loads, and from a
\* page left and opened again write what a load of their own range found.  Except
\* after a load that failed: the button then exports the sessions of the query
\* before under the new range.
NoFalseAbsence ==
    lastFile.failed \/ lastFile.unread = {}

=============================================================================
