--------------------------- MODULE AttendanceEvents ---------------------------
(***************************************************************************)
(* Attendance records and the visits derived from them, for one member of  *)
(* one group: camera scans, manual records, voids, manual overrides and    *)
(* the reports that rebuild missing visits while they read                 *)
(* (server/services/attendance_service.py, server/api/routes/records.py    *)
(* and the record and session methods of server/database/repository.py).   *)
(*                                                                         *)
(* Every request works on its own database session.  Its reads take no     *)
(* lock and see what is committed when they run; its first write takes the *)
(* SQLite write lock, which it holds until it commits.  So each read that  *)
(* precedes the first write is a step, and the writes are one last step.   *)
(***************************************************************************)
EXTENDS Integers, FiniteSets

CONSTANTS
    Scanners,          \* scans in progress: cameras and POST /events callers
    Reporters,         \* GET /sessions requests
    Editors,           \* PUT /sessions requests
    Modes,             \* attendance modes the group may have
    Behaviors,         \* scan behaviours of the devices
    Cooldown,          \* attendance_cooldown_seconds
    MinCheckoutDelay,  \* min_checkout_delay_minutes
    DayLength,         \* instants of a day
    ShiftStarts,       \* times of day overnight shifts may start; 0: a day shift
    MaxTime,           \* bound: instants
    MaxVisits,         \* bound: visits of a day
    MaxInFlight,       \* bound: requests in progress at once
    MaxPosts, MaxVoids, MaxEdits, \* bounds: corrections of each kind
    MaxCorrections  \* bound: all corrections, an override counting twice

AllModes == {"attendance", "work_hours", "visits"}
AllBehaviors == {"automatic", "entry_only", "exit_only"}

ASSUME ConstantsAssumption ==
    /\ Scanners \cap Reporters = {}
    /\ Scanners \cap Editors = {}
    /\ Reporters \cap Editors = {}
    /\ Modes \subseteq AllModes
    /\ Behaviors \subseteq AllBehaviors
    /\ {Cooldown, DayLength, MaxTime, MaxVisits} \subseteq Nat \ {0}
    /\ {MinCheckoutDelay, MaxInFlight} \subseteq Nat
    /\ ShiftStarts \subseteq Nat
    /\ {MaxPosts, MaxVoids, MaxEdits, MaxCorrections} \subseteq Nat

Requests == Scanners \cup Reporters \cup Editors
Times    == 1 .. MaxTime
Day(t)   == (t - 1) \div DayLength + 1
Hour(t)  == (t - 1) % DayLength
Days     == 1 .. Day(MaxTime)
Visits   == 1 .. MaxVisits

VARIABLES
    now,       \* the trusted clock; two events never share an instant
    mode,      \* attendance_mode of the group's rule
    shift,     \* the rule's overnight shift start, or 0
    records,   \* attendance records that are not voided
    sessions,  \* the visits stored for each day
    pc,        \* where each request is
    at, behavior,  \* of a scan: the instant it read, its device's behaviour
    cooling,       \* of a scan: it saw a record inside the cooldown window
    day, visit, view,  \* the day, visit and row a scan or an edit has loaded
    snap, rows,    \* of a report: the rows it read, those it computed
    posts, voids, edits  \* corrections so far

vars == <<now, mode, shift, records, sessions, pc, at, behavior, cooling, day,
          visit, view, snap, rows, posts, voids, edits>>
rule   == <<mode, shift>>
store  == <<records, sessions>>
counts == <<posts, voids, edits>>
scanVars == <<at, behavior, cooling>>
loadVars == <<day, visit, view>>
reportVars == <<snap, rows>>

\* manual: the row has notes or is_manual_override.
NoRow  == [status |-> "none",   in |-> 0, out |-> 0, manual |-> FALSE]
Absent == [status |-> "absent", in |-> 0, out |-> 0, manual |-> FALSE]
Present(in, out) ==
    [status |-> "present", in |-> in, out |-> out, manual |-> FALSE]
NoRows == [v \in Visits |-> NoRow]

Record == [time: Times, type: {"check_in", "check_out", "untyped"},
           manual: BOOLEAN]

Idle == \A r \in Requests : pc[r] = "idle"
Room == Cardinality({q \in Requests : pc[q] # "idle"}) < MaxInFlight
MayStart(r) == pc[r] = "idle" /\ Room
MayCorrect(cost) == posts + voids + 2 * edits + cost <= MaxCorrections

-----------------------------------------------------------------------------
(* Which day a record belongs to, and the visits its day's records give. *)

\* _is_overnight_checkout, for a group whose schedule crosses midnight
\* exactly when shift is positive.
IsOvernight(in, out) ==
    /\ mode = "work_hours"
    /\ in > 0 /\ out >= in
    /\ Day(out) = Day(in) + 1
    /\ Hour(out) < shift

Before(r, recs) == {q \in recs : q.time < r.time}
Latest(recs) == CHOOSE r \in recs : \A q \in recs : q.time <= r.time

\* The arrival pending when r is read is the record just before it, or none:
\* a typed record decides, and each untyped one after it alternates.
ArrivalPending(r, recs) ==
    LET typed    == {q \in Before(r, recs) : q.type # "untyped"}
        untyped  == {q \in Before(r, recs) :
                        /\ q.type = "untyped"
                        /\ \A s \in typed : s.time < q.time}
        arrived  == typed # {} /\ Latest(typed).type = "check_in"
    IN  arrived # (Cardinality(untyped) % 2 = 1)

AttendanceDay(r, recs) ==
    IF /\ r.type = "check_out"
       /\ ArrivalPending(r, recs)
       /\ IsOvernight(Latest(Before(r, recs)).time, r.time)
    THEN Day(r.time) - 1
    ELSE Day(r.time)

\* records_for_attendance_date: the day's records, read with those around it.
AttendedTimes(d, recs) ==
    LET window == {r \in recs : Day(r.time) \in d - 1 .. d + 1}
    IN  {r.time : r \in {q \in window : AttendanceDay(q, window) = d}}

Nth(times, n) ==
    IF n > Cardinality(times) THEN 0
    ELSE CHOOSE t \in times : Cardinality({u \in times : u < t}) = n - 1

\* The rows of a day without overrides: pairs of records in visits mode, else
\* the first record and, when departures are tracked, the last.
DerivedRows(times) ==
    LET n == Cardinality(times) IN
    [v \in Visits |->
        CASE times = {} -> IF v = 1 THEN Absent ELSE NoRow
          [] times # {} /\ mode = "visits" ->
                IF 2 * v - 1 <= n
                THEN Present(Nth(times, 2 * v - 1), Nth(times, 2 * v))
                ELSE NoRow
          [] OTHER ->
                IF v > 1 THEN NoRow
                ELSE Present(Nth(times, 1),
                             IF mode = "work_hours" /\ n > 1
                             THEN Nth(times, n) ELSE 0)]

\* Seeded bug: overrides are rebuilt like any other visit.
ComputedRowsIgnoringOverrides(d, old, recs) ==
    DerivedRows(AttendedTimes(d, recs))

\* compute_sessions_from_records over the existing rows old: a manual visit is
\* kept as it is, and a day with one is never marked absent.
ComputedRows(d, old, recs) ==
    LET times   == AttendedTimes(d, recs)
        derived == DerivedRows(times)
        manual  == {v \in Visits : old[v].manual}
    IN  [v \in Visits |->
            IF v \in manual THEN old[v]
            ELSE IF times = {} /\ manual # {} THEN NoRow
            ELSE derived[v]]

\* Seeded bug: rows the rebuild no longer expects are left behind.
SavedRowsWithoutRetiring(live, old, new) ==
    [v \in Visits |-> IF new[v] # NoRow THEN new[v] ELSE live[v]]

\* save_recomputed_sessions: every computed row replaces what is stored, and a
\* row that was read, is not manual and is no longer expected is retired.
SavedRows(live, old, new) ==
    [v \in Visits |->
        IF new[v] # NoRow THEN new[v]
        ELSE IF old[v] # NoRow THEN NoRow
        ELSE live[v]]

\* recompute_sessions_for_date inside a transaction that holds the write lock.
Recomputed(d, recs) ==
    SavedRows(sessions[d], sessions[d], ComputedRows(d, sessions[d], recs))

-----------------------------------------------------------------------------
Init ==
    /\ now = 1
    /\ mode \in Modes
    /\ shift \in ShiftStarts
    /\ records = {}
    /\ sessions = [d \in Days |-> NoRows]
    /\ pc = [r \in Requests |-> "idle"]
    /\ at = [s \in Scanners |-> 0]
    /\ behavior = [s \in Scanners |-> "automatic"]
    /\ cooling = [s \in Scanners |-> FALSE]
    /\ day = [r \in Requests |-> 0]
    /\ visit = [r \in Scanners \cup Editors |-> 0]
    /\ view = [r \in Scanners \cup Editors |-> NoRow]
    /\ snap = [r \in Reporters |-> NoRows]
    /\ rows = [r \in Reporters |-> NoRows]
    /\ posts = 0 /\ voids = 0 /\ edits = 0

\* A request that ends forgets what it had loaded.
Loaded(r, d, v, row) ==
    /\ day' = [day EXCEPT ![r] = d]
    /\ visit' = [visit EXCEPT ![r] = v]
    /\ view' = [view EXCEPT ![r] = row]
ScanEnds(s) ==
    /\ pc' = [pc EXCEPT ![s] = "idle"]
    /\ at' = [at EXCEPT ![s] = 0]
    /\ behavior' = [behavior EXCEPT ![s] = "automatic"]
    /\ cooling' = [cooling EXCEPT ![s] = FALSE]
    /\ Loaded(s, 0, 0, NoRow)
EditEnds(e) ==
    /\ pc' = [pc EXCEPT ![e] = "idle"]
    /\ Loaded(e, 0, 0, NoRow)
ReportEnds(r) ==
    /\ pc' = [pc EXCEPT ![r] = "idle"]
    /\ day' = [day EXCEPT ![r] = 0]
    /\ snap' = [snap EXCEPT ![r] = NoRows]
    /\ rows' = [rows EXCEPT ![r] = NoRows]

\* Time passes without an event.
Tick ==
    /\ now < MaxTime
    /\ now' = now + 1
    /\ UNCHANGED <<rule, store, pc, scanVars, loadVars, reportVars, counts>>

-----------------------------------------------------------------------------
(* A scan: process_event. *)

\* It reads the clock; the device fixes how the scan is meant.
BeginScan(s) ==
    /\ MayStart(s)
    /\ now < MaxTime
    /\ now' = now + 1
    /\ at' = [at EXCEPT ![s] = now]
    /\ \E b \in Behaviors : behavior' = [behavior EXCEPT ![s] = b]
    /\ pc' = [pc EXCEPT ![s] = "recent"]
    /\ UNCHANGED <<rule, store, cooling, loadVars, reportVars, counts>>

\* get_recent_records_by_instant and the comparison made with its rows.
ReadRecent(s) ==
    /\ pc[s] = "recent"
    /\ cooling' = [cooling EXCEPT ![s] =
          \E r \in records : r.time <= at[s] /\ at[s] - r.time < Cooldown]
    /\ pc' = [pc EXCEPT ![s] = "session"]
    /\ UNCHANGED <<now, rule, store, at, behavior, loadVars, reportVars,
                   counts>>

StoredVisits(d) == {v \in Visits : sessions[d][v] # NoRow}
LastVisit(d) == CHOOSE v \in StoredVisits(d) : \A w \in StoredVisits(d) : w <= v
FirstVisit(d) == CHOOSE v \in StoredVisits(d) : \A w \in StoredVisits(d) : v <= w

\* get_latest_session in visits mode, get_session otherwise.
ReadSession(s) ==
    LET today == Day(at[s])
        v     == IF StoredVisits(today) = {} THEN 0
                 ELSE IF mode = "visits" THEN LastVisit(today)
                 ELSE FirstVisit(today)
        row   == IF v = 0 THEN NoRow ELSE sessions[today][v]
    IN  /\ pc[s] = "session"
        /\ Loaded(s, today, v, row)
        /\ pc' = [pc EXCEPT ![s] =
              IF behavior[s] # "entry_only" /\ row.in = 0 /\ today > 1
              THEN "previous" ELSE "decide"]
        /\ UNCHANGED <<now, rule, store, scanVars, reportVars, counts>>

\* An open visit of the day before may be the one an overnight departure ends.
ReadPrevious(s) ==
    LET before == Day(at[s]) - 1 IN
    /\ pc[s] = "previous"
    /\ IF /\ StoredVisits(before) # {}
          /\ sessions[before][LastVisit(before)].out = 0
          /\ IsOvernight(sessions[before][LastVisit(before)].in, at[s])
       THEN Loaded(s, before, LastVisit(before),
                   sessions[before][LastVisit(before)])
       ELSE UNCHANGED loadVars
    /\ pc' = [pc EXCEPT ![s] = "decide"]
    /\ UNCHANGED <<now, rule, store, scanVars, reportVars, counts>>

CheckedIn(s)  == view[s].in > 0
OpenVisit(s)  == view[s].in > 0 /\ view[s].out = 0
DoneVisit(s)  == view[s].in > 0 /\ view[s].out > 0
Tracked       == mode \in {"work_hours", "visits"}

\* The early returns of process_event, in the order of the code: no open visit
\* for an exit scan; already checked in; already checked out; entry-only
\* device; departure too soon; cooldown.
Rejected(s) ==
    \/ Tracked /\ behavior[s] = "exit_only" /\ ~OpenVisit(s)
    \/ mode = "attendance" /\ CheckedIn(s)
    \/ mode = "work_hours" /\ DoneVisit(s)
    \/ Tracked /\ behavior[s] = "entry_only" /\ OpenVisit(s)
    \/ Tracked /\ behavior[s] # "entry_only" /\ OpenVisit(s)
          /\ at[s] - view[s].in < MinCheckoutDelay
          /\ view[s].in - at[s] < MinCheckoutDelay
    \/ cooling[s]

\* A closed visit is followed by the next one.
NextVisit(s) == mode = "visits" /\ view[s].out > 0
TargetVisit(s) ==
    IF NextVisit(s) THEN visit[s] + 1
    ELSE IF visit[s] = 0 THEN 1 ELSE visit[s]

\* The visit the scan leaves behind: opened at its instant, or closed at it.
ScannedRow(s) ==
    IF CheckedIn(s) /\ ~NextVisit(s) THEN Present(view[s].in, at[s])
    ELSE Present(at[s], 0)
ScanType(s) ==
    IF CheckedIn(s) /\ ~NextVisit(s) THEN "check_out" ELSE "check_in"

\* Seeded bug: a departure may precede its arrival.
NormalizedAnyway(row) == TRUE

\* normalize_session_times raises when a check-out precedes its check-in.
Normalized(row) == row.out = 0 \/ row.out >= row.in

\* The unit of work updates the columns that differ from what it loaded; a row
\* it had not loaded is read under the write lock, and rewritten.
Merge(loaded, want, live) ==
    IF live = NoRow THEN want
    ELSE IF loaded = NoRow THEN [want EXCEPT !.manual = live.manual]
    ELSE [live EXCEPT
            !.status = IF want.status # loaded.status THEN want.status ELSE @,
            !.in  = IF want.in # loaded.in THEN want.in ELSE @,
            !.out = IF want.out # loaded.out THEN want.out ELSE @]

Reject(s) ==
    /\ pc[s] = "decide"
    /\ Rejected(s) \/ ~Normalized(ScannedRow(s))
    /\ ScanEnds(s)
    /\ UNCHANGED <<now, rule, store, reportVars, counts>>

\* add_record and upsert_session, committed together.
Accept(s) ==
    LET d == day[s]
        v == TargetVisit(s)
        loaded == IF NextVisit(s) THEN NoRow ELSE view[s]
    IN  /\ pc[s] = "decide"
        /\ ~Rejected(s)
        /\ Normalized(ScannedRow(s))
        /\ v \in Visits
        /\ records' = records \cup
              {[time |-> at[s], type |-> ScanType(s), manual |-> FALSE]}
        /\ sessions' = [sessions EXCEPT ![d][v] =
              Merge(loaded, ScannedRow(s), @)]
        /\ ScanEnds(s)
        /\ UNCHANGED <<now, rule, reportVars, counts>>

-----------------------------------------------------------------------------
(* Corrections: POST /records, POST /records/{id}/void. *)

Taken(t) == \/ \E r \in records : r.time = t
            \/ \E s \in Scanners : pc[s] # "idle" /\ at[s] = t

\* Seeded bug: a manual record is stored and no visit is rebuilt.
PostRecordWithoutRebuild ==
    /\ Room /\ MayCorrect(1) /\ posts < MaxPosts
    /\ \E t \in 1 .. now : /\ ~Taken(t)
                           /\ records' = records \cup
                                 {[time |-> t, type |-> "untyped",
                                   manual |-> TRUE]}
                           /\ now' = IF t = now THEN now + 1 ELSE now
    /\ now' <= MaxTime
    /\ posts' = posts + 1
    /\ UNCHANGED <<rule, sessions, pc, scanVars, loadVars, reportVars, voids,
                   edits>>

\* A manual record, untyped as the desktop sends it; the visits of its own day
\* are rebuilt in the same transaction.
PostRecord ==
    /\ Room /\ MayCorrect(1) /\ posts < MaxPosts
    /\ \E t \in 1 .. now :
          LET r == [time |-> t, type |-> "untyped", manual |-> TRUE]
              d == Day(t)
          IN  /\ ~Taken(t)
              /\ now' = IF t = now THEN now + 1 ELSE now
              /\ now' <= MaxTime
              /\ records' = records \cup {r}
              /\ sessions' = [sessions EXCEPT ![d] =
                    Recomputed(d, records \cup {r})]
    /\ posts' = posts + 1
    /\ UNCHANGED <<rule, pc, scanVars, loadVars, reportVars, voids, edits>>

\* The record's own day and, of the two days that end with it, those with a
\* visit that begins or ends at its instant.
AffectedDays(r) ==
    {Day(r.time)} \cup
    {d \in Days : /\ d \in Day(r.time) - 1 .. Day(r.time)
                  /\ \E v \in Visits :
                        r.time \in {sessions[d][v].in, sessions[d][v].out}}

VoidRecord(r) ==
    /\ Room /\ MayCorrect(1) /\ voids < MaxVoids
    /\ records' = records \ {r}
    /\ sessions' = [d \in Days |->
          IF d \in AffectedDays(r) THEN Recomputed(d, records')
          ELSE sessions[d]]
    /\ voids' = voids + 1
    /\ UNCHANGED <<now, rule, pc, scanVars, loadVars, reportVars, posts, edits>>

-----------------------------------------------------------------------------
(* Manual overrides: PUT /sessions/{person}/{date}. *)

\* The editor shows a stored visit, or the first one of a day without any.
ReadVisit(e) ==
    /\ MayStart(e)
    /\ MayCorrect(2) /\ edits < MaxEdits
    /\ \E d \in 1 .. Day(now), v \in Visits :
          /\ v \in StoredVisits(d) \/ (StoredVisits(d) = {} /\ v = 1)
          /\ Loaded(e, d, v, sessions[d][v])
    /\ pc' = [pc EXCEPT ![e] = "edit"]
    /\ edits' = edits + 1
    /\ UNCHANGED <<now, rule, store, scanVars, reportVars, posts, voids>>

\* What the dialog can ask for: absence, or a visit with a time in.
Corrections(d) ==
    LET hours == {t \in Times : Day(t) = d}
    IN  {Absent} \cup {Present(in, out) : in \in hours, out \in hours \cup {0}}

\* The changed columns are written, and the visit becomes a manual one.
Override(e) ==
    LET d == day[e]
        v == visit[e]
    IN  /\ pc[e] = "edit"
        /\ (sessions[d][v] = NoRow) = (view[e] = NoRow)
        /\ \E want \in Corrections(d) :
              /\ Normalized(want)
              /\ sessions' = [sessions EXCEPT ![d][v] =
                    [Merge(view[e], want, @) EXCEPT !.manual = TRUE]]
        /\ EditEnds(e)
        /\ UNCHANGED <<now, rule, records, scanVars, reportVars,
                       counts>>

\* The request fails: the times are out of order, or the row it loaded has
\* been retired, or the row it inserts has appeared.
OverrideFails(e) ==
    /\ pc[e] = "edit"
    /\ EditEnds(e)
    /\ UNCHANGED <<now, rule, store, scanVars, reportVars, counts>>

-----------------------------------------------------------------------------
(* Reports: GET /sessions of one day. *)

\* The rows are read first.  They are rebuilt when there are fewer rows than
\* members, which may be due to another member of the group.
ReadRows(r) ==
    /\ MayStart(r)
    /\ \E d \in 1 .. Day(now) :
          /\ day' = [day EXCEPT ![r] = d]
          /\ snap' = [snap EXCEPT ![r] = sessions[d]]
    /\ pc' = [pc EXCEPT ![r] = "records"]
    /\ UNCHANGED <<now, rule, store, scanVars, visit, view, rows, counts>>

\* No row is missing: the report ends without writing.
ReportAsStored(r) ==
    /\ pc[r] = "records"
    /\ snap[r] # NoRows
    /\ \A v \in Visits : snap[r][v].status = "present" => snap[r][v].in > 0
    /\ ReportEnds(r)
    /\ UNCHANGED <<now, rule, store, scanVars, visit, view, counts>>

ReadRecords(r) ==
    /\ pc[r] = "records"
    /\ rows' = [rows EXCEPT ![r] = ComputedRows(day[r], snap[r], records)]
    /\ pc' = [pc EXCEPT ![r] = "save"]
    /\ UNCHANGED <<now, rule, store, scanVars, loadVars, snap, counts>>

SaveRows(r) ==
    /\ pc[r] = "save"
    /\ sessions' = [sessions EXCEPT ![day[r]] = SavedRows(@, snap[r], rows[r])]
    /\ ReportEnds(r)
    /\ UNCHANGED <<now, rule, records, scanVars, visit, view, counts>>

-----------------------------------------------------------------------------
Scan(s) == \/ BeginScan(s) \/ ReadRecent(s) \/ ReadSession(s)
           \/ ReadPrevious(s) \/ Reject(s) \/ Accept(s)
Edit(e) == ReadVisit(e) \/ Override(e) \/ OverrideFails(e)
Report(r) == ReadRows(r) \/ ReportAsStored(r) \/ ReadRecords(r) \/ SaveRows(r)

Next == \/ Tick
        \/ \E s \in Scanners : Scan(s)
        \/ PostRecord
        \/ \E r \in records : VoidRecord(r)
        \/ \E e \in Editors : Edit(e)
        \/ \E r \in Reporters : Report(r)

Spec == Init /\ [][Next]_vars

-----------------------------------------------------------------------------
(* Properties. *)

HasOverride(d) == \E v \in Visits : sessions[d][v].manual

\* A correction of an overnight shift may move a departure to a day that is not
\* rebuilt; the properties of the attribution to days except it.
OvernightCorrected == shift > 0 /\ posts + voids + edits > 0

\* What the scans wrote one at a time is what a rebuild from the records would
\* write (save_recomputed_sessions "replace[s] derived visits"): a report, a
\* void or a manual record never changes a visit it is not about.  A day that
\* nobody attended may have no row yet, and a day with an override is not
\* derived from its records.
DerivedAgree ==
    Idle /\ ~OvernightCorrected => \A d \in Days :
        \/ HasOverride(d)
        \/ sessions[d] = NoRows /\ AttendedTimes(d, records) = {}
        \/ sessions[d] = Recomputed(d, records)

\* A stored visit never ends before it begins, and never ends without having
\* begun (normalize_session_times, "Check-out must not precede check-in.").
VisitsOrdered ==
    \A d \in Days, v \in Visits :
        sessions[d][v].out > 0 =>
            0 < sessions[d][v].in /\ sessions[d][v].in <= sessions[d][v].out

\* Whoever has a valid record on a day is stored as present that day: no
\* interleaving of scans and corrections leaves an attended day absent, or
\* without a row, but for corrected overnight shifts.
RecordedNotAbsent ==
    Idle /\ ~OvernightCorrected => \A d \in Days :
        \/ HasOverride(d)
        \/ AttendedTimes(d, records) = {}
        \/ \E v \in Visits : sessions[d][v].status = "present"

Overriding == \E e \in Editors : pc[e] = "edit" /\ pc'[e] = "idle"

\* A manual override is undone only by another override: scans, rebuilds and
\* reports keep the visit manual and keep each time it has ("A correction
\* remains authoritative even without a reason/note."); a scan may still
\* supply the time the correction left open.
OverrideKept ==
    [][\A d \in Days, v \in Visits :
          LET old == sessions[d][v]
              new == sessions'[d][v]
          IN  old.manual /\ ~Overriding =>
                /\ new.manual
                /\ old.in > 0 => new.in = old.in
                /\ old.out > 0 => new.out = old.out]_vars
=============================================================================
