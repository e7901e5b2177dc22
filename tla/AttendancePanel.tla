--------------------------- MODULE AttendancePanel ---------------------------
(***************************************************************************)
(* The attendance panel of the main window: its list of today's entries,   *)
(* the dialogs that mark a member present by hand and that void an entry,  *)
(* the overview of a group in the settings, and the group the live scan    *)
(* was told.                                                               *)
(*                                                                         *)
(* Every group has one member, known by the group.  The local backend is   *)
(* external.  A list is a set: an entry that is listed twice until the     *)
(* refresh that follows is one entry.  An older load or refresh of the     *)
(* panel is forgotten when a newer one begins (GroupPanel has both); what  *)
(* waits for it goes on at any time from then on.                          *)
(***************************************************************************)
EXTENDS Integers, Sequences, FiniteSets

CONSTANTS
    PanelGroups,    \* groups
    AllGroups,      \* the selection "All Groups"
    MaxEntered,     \* bound on entries
    MaxScanned,     \* bound on members the camera finds
    MaxPicks,       \* bound on what the user does
    MaxLosses       \* bound on requests that fail

ASSUME PanelAssumption ==
    /\ PanelGroups # {} /\ IsFiniteSet(PanelGroups)
    /\ AllGroups \notin PanelGroups
    /\ {MaxEntered, MaxScanned, MaxPicks, MaxLosses} \subseteq Nat

VARIABLES
    records,        \* external: the entries
    listed,         \* currentGroup
    recent,         \* recentAttendance
    panel,          \* ready, switching (the old list is hidden) or loading (a skeleton)
    panelError,     \* panelDataError
    kept,           \* panelDataCacheRef: at most one list of each selection
    refreshing,     \* the last refresh, while it asks for the groups
    panelLoad,      \* the last load of members and entries
    entry,          \* ManualEntryModal
    adds,           \* its submissions under way
    correction,     \* ManualCorrectionModal
    overview,       \* groupStore's entries of today, and how many changes they know
    overviewAsked,  \* fetchOverviewData under way
    liveGroup,      \* the group the live session was told
    throttled,      \* members the live session has just handled
    events,         \* its messages to the window
    listOutdated,   \* history: the list misses a change the window was not told of
    newest,         \* history: the most changes a request about a group that has ended could know
    scanned, picks, losses

panelVars == <<records, listed, recent, panel, panelError, kept, refreshing, panelLoad>>
modalVars == <<entry, adds, correction>>
overviewVars == <<overview, overviewAsked, newest>>
liveVars == <<liveGroup, throttled, events, scanned>>
pickVars == <<picks, losses>>
attendanceVars == <<panelVars, modalVars, overviewVars, liveVars, listOutdated, pickVars>>

Selections == PanelGroups \cup {AllGroups}
InSelection(group, selection) == selection \in {group, AllGroups}

Picks == picks < MaxPicks /\ picks' = picks + 1
LosesRequest == losses < MaxLosses /\ losses' = losses + 1

\* What the backend answers of a selection: entries that are not voided.
GetRecords(selection) == {r \in records : ~r.voided /\ InSelection(r.of, selection)}
Changes == Cardinality(records) + Cardinality({r \in records : r.voided})

Overview(group) == [list |-> GetRecords(group), knows |-> Changes]
Unfetched == [list |-> {}, knows |-> -1]
ClosedEntry == [open |-> FALSE, confirming |-> AllGroups, busy |-> FALSE]
ClosedCorrection == [at |-> "closed", record |-> 0]
VoidTask == 0

AttendanceInit ==
    /\ records \in {{}} \cup {{[id |-> 1, of |-> g, voided |-> FALSE]} : g \in PanelGroups}
    /\ listed \in Selections
    /\ recent = GetRecords(listed)
    /\ panel = "ready"
    /\ panelError = FALSE
    /\ kept = [s \in Selections |-> IF s = listed THEN {recent} ELSE {}]
    /\ refreshing = {}
    /\ panelLoad = {}
    /\ entry = ClosedEntry
    /\ adds = {}
    /\ correction = ClosedCorrection
    /\ overview = [g \in PanelGroups |-> Overview(g)]
    /\ overviewAsked = {}
    /\ liveGroup = listed
    /\ throttled = {}
    /\ events = <<>>
    /\ listOutdated = FALSE
    /\ newest = [g \in PanelGroups |-> Changes]
    /\ scanned = 0
    /\ picks = 0
    /\ losses = 0

(***************************************************************************)
(* Loads of the panel.                                                     *)
(***************************************************************************)
RefreshAttendanceData(by) == refreshing' = {[of |-> listed, by |-> by]}

\* A task whose refresh is over, or was overtaken.
GoesOn(task) == \A q \in refreshing \cup panelLoad : task \notin q.by

\* loadSelectedGroupData begins.
Loads(selection, by) == panelLoad' = {[of |-> selection, by |-> by, answer |-> {}]}

\* fetchOverviewData begins; nothing tells two of one group apart.  The
\* backend answers it now, or when its answer arrives.
FetchOverviewData(group, own) ==
    LET free == CHOOSE n \in 1 .. Cardinality(overviewAsked) + 1 : \A f \in overviewAsked : f.n # n
    IN  overviewAsked' = overviewAsked \cup {[n |-> free, of |-> group, own |-> own, early |-> Overview(group)]}

HandleSelectGroup(selection) ==
    /\ ~entry.open /\ correction.at = "closed" /\ Picks
    /\ listed' = selection
    /\ refreshing' = {}
    /\ Loads(selection, {})
    /\ panelError' = FALSE
    /\ IF kept[selection] # {}
       THEN panel' = "ready" /\ recent' \in kept[selection]
       ELSE panel' = "switching" /\ UNCHANGED recent
    /\ IF selection # listed
       THEN liveGroup' = selection /\ throttled' = {}
       ELSE UNCHANGED <<liveGroup, throttled>>
    /\ UNCHANGED <<records, kept, modalVars, overviewVars, events, scanned, listOutdated, losses>>

\* What the user sees of the list.
Visible == IF panel = "ready" THEN recent ELSE {}

Retry ==
    /\ panelError /\ refreshing = {} /\ Picks
    /\ RefreshAttendanceData({})
    /\ UNCHANGED <<records, listed, recent, panel, panelError, kept, panelLoad, modalVars, overviewVars, liveVars,
                   listOutdated, losses>>

SkeletonTimer ==
    /\ panel = "switching" /\ panelLoad # {}
    /\ panel' = "loading" /\ recent' = {}
    /\ UNCHANGED <<records, listed, panelError, kept, refreshing, panelLoad, modalVars, overviewVars, liveVars,
                   listOutdated, pickVars>>

\* The refresh has the groups and loads the one that is shown.
GroupsAnswered ==
    /\ \E r \in refreshing : Loads(r.of, r.by)
    /\ refreshing' = {}
    /\ kept' = [s \in Selections |-> IF s = listed THEN kept[s] ELSE {}]
    /\ panelError' = FALSE
    /\ IF kept[listed] # {} /\ panel # "loading"
       THEN panel' = "ready" /\ UNCHANGED recent
       ELSE panel' = "loading" /\ recent' = {}
    /\ UNCHANGED <<records, listed, modalVars, overviewVars, liveVars, listOutdated, pickVars>>

GroupsFail ==
    /\ refreshing # {} /\ LosesRequest
    /\ refreshing' = {} /\ panel' = "ready" /\ panelError' = TRUE
    /\ UNCHANGED <<records, listed, recent, kept, panelLoad, modalVars, overviewVars, liveVars, listOutdated, picks>>

ServeLoad ==
    /\ \E l \in panelLoad : l.answer = {} /\ panelLoad' = {[l EXCEPT !.answer = {GetRecords(l.of)}]}
    /\ listOutdated' = FALSE
    /\ UNCHANGED <<records, listed, recent, panel, panelError, kept, refreshing, modalVars, overviewVars, liveVars,
                   pickVars>>

\* An error that is shown by then was of a newer refresh: it is taken back.
LoadAnswered ==
    \E l \in panelLoad :
        /\ l.answer # {}
        /\ recent' \in l.answer
        /\ kept' = [kept EXCEPT ![l.of] = l.answer]
        /\ panel' = "ready" /\ panelError' = FALSE /\ panelLoad' = {}
        /\ IF l.of \in PanelGroups THEN FetchOverviewData(l.of, FALSE) ELSE UNCHANGED overviewAsked
        /\ listOutdated' = (listOutdated \/ panelError)
        /\ UNCHANGED <<records, listed, refreshing, modalVars, overview, newest, liveVars, pickVars>>

LoadFails ==
    /\ panelLoad # {} /\ LosesRequest
    /\ panelLoad' = {} /\ panel' = "ready" /\ panelError' = TRUE
    /\ UNCHANGED <<records, listed, recent, kept, refreshing, modalVars, overviewVars, liveVars, listOutdated, picks>>

(***************************************************************************)
(* Marking a member present by hand.                                       *)
(***************************************************************************)
\* Each member of the selection; who is present cannot be chosen.
IsPresent(member) == \E r \in recent : r.of = member

Offered == {m \in PanelGroups : InSelection(m, listed) /\ ~IsPresent(m)}
Confirming == entry.confirming # AllGroups

OpenEntry ==
    /\ panel = "ready" /\ ~panelError /\ ~entry.open /\ correction.at = "closed"
    /\ entry' = [ClosedEntry EXCEPT !.open = TRUE]
    /\ UNCHANGED <<panelVars, adds, correction, overviewVars, liveVars, listOutdated, pickVars>>

HandleManualEntry(member) ==
    /\ entry.open /\ ~Confirming /\ member \in Offered
    /\ entry' = [entry EXCEPT !.confirming = member]
    /\ UNCHANGED <<panelVars, adds, correction, overviewVars, liveVars, listOutdated, pickVars>>

\* Neither Cancel nor closing the dialog waits for a submission.
CancelEntry ==
    /\ entry.open
    /\ entry' \in {[entry EXCEPT !.confirming = AllGroups], ClosedEntry} \ {entry}
    /\ UNCHANGED <<panelVars, adds, correction, overviewVars, liveVars, listOutdated, pickVars>>

SubmitManualEntry ==
    /\ Confirming /\ ~entry.busy /\ Picks
    /\ Cardinality(records) + Cardinality({t \in adds : t.at = "sent"}) < MaxEntered
    /\ \E n \in 1 .. MaxEntered :
           /\ \A t \in adds : t.n # n
           /\ \A m \in 1 .. n - 1 : \E t \in adds : t.n = m
           /\ adds' = adds \cup {[n |-> n, of |-> entry.confirming, at |-> "sent", record |-> 0]}
    /\ entry' = [entry EXCEPT !.busy = TRUE]
    /\ UNCHANGED <<panelVars, correction, overviewVars, liveVars, listOutdated, losses>>

NewRecord(member) == [id |-> Cardinality(records) + 1, of |-> member, voided |-> FALSE]

ServeAdd(t) ==
    /\ t.at = "sent"
    /\ records' = records \cup {NewRecord(t.of)}
    /\ adds' = (adds \ {t}) \cup {[t EXCEPT !.at = "stored", !.record = NewRecord(t.of).id]}
    /\ UNCHANGED <<listed, recent, panel, panelError, kept, refreshing, panelLoad, entry, correction, overviewVars,
                   liveVars, listOutdated, pickVars>>

\* The entry is put on top of whatever list is shown by now.
AddAnswered(t) ==
    /\ t.at = "stored"
    /\ recent' = recent \cup {[id |-> t.record, of |-> t.of, voided |-> FALSE]}
    /\ RefreshAttendanceData({t.n})
    /\ adds' = (adds \ {t}) \cup {[t EXCEPT !.at = "refresh"]}
    /\ UNCHANGED <<records, listed, panel, panelError, kept, panelLoad, entry, correction, overviewVars, liveVars,
                   listOutdated, pickVars>>

\* The dialog closes, whatever it shows.
AddDone(t) ==
    /\ t.at = "refresh" /\ GoesOn(t.n)
    /\ entry' = ClosedEntry
    /\ adds' = adds \ {t}
    /\ UNCHANGED <<panelVars, correction, overviewVars, liveVars, listOutdated, pickVars>>

AddFails(t) ==
    /\ t.at \in {"sent", "stored"} /\ LosesRequest
    /\ entry' = [entry EXCEPT !.busy = FALSE]
    /\ adds' = adds \ {t}
    /\ listOutdated' = (listOutdated \/ t.at = "stored")
    /\ UNCHANGED <<panelVars, correction, overviewVars, liveVars, picks>>

(***************************************************************************)
(* Voiding an entry.                                                       *)
(***************************************************************************)
OpenCorrection(r) ==
    /\ ~entry.open /\ correction.at = "closed"
    /\ correction' = [at |-> "open", record |-> r.id]
    /\ UNCHANGED <<panelVars, entry, adds, overviewVars, liveVars, listOutdated, pickVars>>

CloseCorrection ==
    /\ correction.at = "open"
    /\ correction' = ClosedCorrection
    /\ UNCHANGED <<panelVars, entry, adds, overviewVars, liveVars, listOutdated, pickVars>>

HandleSubmit ==
    /\ correction.at = "open" /\ Picks
    /\ correction' = [correction EXCEPT !.at = "sent"]
    /\ UNCHANGED <<panelVars, entry, adds, overviewVars, liveVars, listOutdated, losses>>

Voided == CHOOSE r \in records : r.id = correction.record

ServeVoid ==
    /\ correction.at = "sent" /\ ~Voided.voided
    /\ records' = (records \ {Voided}) \cup {[Voided EXCEPT !.voided = TRUE]}
    /\ correction' = [correction EXCEPT !.at = "stored"]
    /\ UNCHANGED <<listed, recent, panel, panelError, kept, refreshing, panelLoad, entry, adds, overviewVars, liveVars,
                   listOutdated, pickVars>>

\* The live session is told the group of the entry, which makes it forget whom it has just handled.
VoidAnswered ==
    /\ correction.at = "stored"
    /\ recent' = {r \in recent : r.id # correction.record}
    /\ \/ liveGroup' = Voided.of /\ throttled' = {}
       \/ UNCHANGED <<liveGroup, throttled>>
    /\ RefreshAttendanceData({VoidTask})
    /\ correction' = [correction EXCEPT !.at = "refresh"]
    /\ UNCHANGED <<records, listed, panel, panelError, kept, panelLoad, entry, adds, overviewVars, events, scanned,
                   listOutdated, pickVars>>

VoidRefreshed ==
    /\ correction.at = "refresh" /\ GoesOn(VoidTask)
    /\ FetchOverviewData(Voided.of, TRUE)
    /\ correction' = [correction EXCEPT !.at = "overview"]
    /\ UNCHANGED <<panelVars, entry, adds, overview, newest, liveVars, listOutdated, pickVars>>

\* An answer lost, or an entry that was voided before.
VoidFails ==
    /\ correction.at \in {"sent", "stored"}
    /\ IF correction.at = "sent" /\ Voided.voided THEN UNCHANGED losses ELSE LosesRequest
    /\ correction' = [correction EXCEPT !.at = "open"]
    /\ listOutdated' = (listOutdated \/ correction.at = "stored")
    /\ UNCHANGED <<panelVars, entry, adds, overviewVars, liveVars, picks>>

(***************************************************************************)
(* The overview of a group.                                                *)
(***************************************************************************)
OverviewShows(group) == overview[group].list

OpenOverview(group) ==
    /\ ~entry.open /\ correction.at = "closed" /\ Picks
    /\ FetchOverviewData(group, FALSE)
    /\ UNCHANGED <<panelVars, modalVars, overview, newest, liveVars, listOutdated, losses>>

\* The void that waited for it is done.
Ends(f) ==
    /\ overviewAsked' = overviewAsked \ {f}
    /\ correction' = IF f.own THEN ClosedCorrection ELSE correction

OverviewAnswered(f) ==
    \E a \in {f.early, Overview(f.of)} :
        /\ overview' = [overview EXCEPT ![f.of] = a]
        /\ newest' = [newest EXCEPT ![f.of] = IF @ < a.knows THEN a.knows ELSE @]
        /\ Ends(f)
        /\ UNCHANGED <<panelVars, entry, adds, liveVars, listOutdated, pickVars>>

\* getRecords hides its failure: there were no entries.
OverviewFails(f) ==
    /\ LosesRequest
    /\ overview' = [overview EXCEPT ![f.of] = Unfetched]
    /\ newest' = [newest EXCEPT ![f.of] = Changes]
    /\ Ends(f)
    /\ UNCHANGED <<panelVars, entry, adds, liveVars, listOutdated, picks>>

(***************************************************************************)
(* The live scan.                                                          *)
(***************************************************************************)
\* A member who was recorded minutes ago is not recorded again.
ScanMember(member) ==
    /\ scanned < MaxScanned /\ scanned' = scanned + 1
    /\ InSelection(member, liveGroup) /\ member \notin throttled
    /\ throttled' = throttled \cup {member}
    /\ IF \E r \in records : r.of = member /\ ~r.voided
       THEN UNCHANGED <<records, events>>
       ELSE /\ Cardinality(records) < MaxEntered
            /\ records' = records \cup {NewRecord(member)}
            /\ events' = Append(events, member)
    /\ UNCHANGED <<listed, recent, panel, panelError, kept, refreshing, panelLoad, modalVars, overviewVars, liveGroup,
                   listOutdated, pickVars>>

ThrottleEnds ==
    /\ throttled # {}
    /\ throttled' = {}
    /\ UNCHANGED <<panelVars, modalVars, overviewVars, liveGroup, events, scanned, listOutdated, pickVars>>

\* Seeded bug: "All Groups" is not told of anybody.
SameGroup(member) == member = listed
Concerns(member) == InSelection(member, listed)

AttendanceEvent ==
    /\ events # <<>>
    /\ events' = Tail(events)
    /\ IF Concerns(Head(events)) THEN RefreshAttendanceData({}) ELSE UNCHANGED refreshing
    /\ UNCHANGED <<records, listed, recent, panel, panelError, kept, panelLoad, modalVars, overviewVars, liveGroup,
                   throttled, scanned, listOutdated, pickVars>>

(***************************************************************************)
(* Specification.                                                          *)
(***************************************************************************)
PanelLoads == Retry \/ SkeletonTimer \/ GroupsAnswered \/ GroupsFail \/ ServeLoad \/ LoadAnswered \/ LoadFails
Entries ==
    \/ OpenEntry \/ CancelEntry \/ SubmitManualEntry
    \/ \E m \in PanelGroups : HandleManualEntry(m)
    \/ \E t \in adds : ServeAdd(t) \/ AddAnswered(t) \/ AddDone(t) \/ AddFails(t)
Corrections ==
    \/ \E r \in Visible : OpenCorrection(r)
    \/ CloseCorrection \/ HandleSubmit \/ ServeVoid \/ VoidAnswered \/ VoidRefreshed \/ VoidFails
Overviews ==
    \/ \E g \in PanelGroups : OpenOverview(g)
    \/ \E f \in overviewAsked : OverviewAnswered(f) \/ OverviewFails(f)

AttendanceNext ==
    \/ \E s \in Selections : HandleSelectGroup(s)
    \/ PanelLoads \/ Entries \/ Corrections \/ Overviews
    \/ \E m \in PanelGroups : ScanMember(m)
    \/ ThrottleEnds \/ AttendanceEvent

AttendanceSpec == AttendanceInit /\ [][AttendanceNext]_attendanceVars

(***************************************************************************)
(* Properties.                                                             *)
(***************************************************************************)
AtRest ==
    /\ refreshing = {} /\ panelLoad = {} /\ adds = {} /\ events = <<>>
    /\ correction.at \in {"closed", "open"}

\* The list the panel shows, once nothing is under way and no error is
\* shown, is what the backend has: an entry made by hand while another
\* group was selected leaves no trace in that group's list, a voided entry
\* does not come back from an older answer, a scan is not missed.  The
\* overview of the selected group then agrees with it, unless the answer to
\* an older request came last (fetchOverviewData tells them not apart) or a
\* request failed.  Left out: changes whose answer was lost, and an error
\* taken back by the answer of an older load (loadSelectedGroupData).
AttendanceSettles ==
    AtRest /\ ~panelError /\ ~listOutdated =>
        /\ Visible = GetRecords(listed)
        /\ listed \in PanelGroups /\ overviewAsked = {} /\ overview[listed].knows >= newest[listed]
           => OverviewShows(listed) = GetRecords(listed)
=============================================================================
