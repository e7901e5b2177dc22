---------------------------- MODULE GroupDirectory ----------------------------
(***************************************************************************)
(* The pages "Groups" and "Data & storage" of the settings: groups are     *)
(* created, edited and deleted one by one or all at once, face data and    *)
(* history are cleared, and a backup is written and restored.              *)
(*                                                                         *)
(* The local backend and the backup file are external.  Of a group only    *)
(* its place in the directory and how often it was edited are kept; faces  *)
(* and history only by the jobs that clear them.  An older refresh of the  *)
(* list is forgotten when a newer one begins (GroupPanel has both).        *)
(***************************************************************************)
EXTENDS Integers, FiniteSets

CONSTANTS
    MaxGroups,      \* bound on groups; one more is in a backup of another computer
    MaxTurns,       \* bound on what the user does
    MaxChanges,     \* bound on changes that come from the cloud
    MaxLost         \* bound on requests that fail

ASSUME DirectoryAssumption ==
    MaxGroups \in Nat \ {0} /\ {MaxTurns, MaxChanges, MaxLost} \subseteq Nat

VARIABLES
    directory,      \* external: each group's row
    backup,         \* external: the groups in the backup file
    shown,          \* the list the pages have
    refresh,        \* the last refresh of it: what the backend may answer
    activeSection,  \* activeSection, or main when the settings are closed
    createForm,     \* CreateGroup: closed, open or busy
    editForm,       \* EditGroup: its group, or 0, and whether it waits for an answer
    deleteForm,     \* DeleteConfirmationModal: its group, or 0
    dialog,         \* DialogProvider's active dialog
    password,       \* the password dialog: closed, export or import
    busy,           \* deletingGroup, isLoading, isPurgingHistory and status
    allowed,        \* the organization's policy on this directory, as shown
    jobs,           \* requests under way
    outdated,       \* history: the list misses a change the window was not told of
    agreed,         \* history: the groups somebody has agreed to delete
    overridden,     \* history: a job's last message was replaced by another dialog
    turns, changes, lost

storeVars == <<directory, backup>>
listVars == <<shown, refresh, outdated>>
formVars == <<createForm, editForm, deleteForm, password>>
dialogVars == <<dialog, busy, overridden>>
limitVars == <<turns, changes, lost>>
directoryVars == <<storeVars, listVars, activeSection, formVars, dialogVars, allowed, jobs, agreed, limitVars>>

Ids == 1 .. MaxGroups + 1
Foreign == MaxGroups + 1
Missing == [at |-> "missing", edits |-> 0]
Active(d) == {g \in Ids : d[g].at = "active"}

\* What the backend answers to getGroups.
GetGroups == {[id |-> g, edits |-> directory[g].edits] : g \in Active(directory)}
ShownIds == {s.id : s \in shown}

NoGroup == [group |-> 0, loading |-> FALSE]
NoDialog == [type |-> "none", job |-> "none", groups |-> {}]

DirectoryInit ==
    /\ \E n \in 0 .. 1 : directory = [g \in Ids |-> IF g <= n THEN [Missing EXCEPT !.at = "active"] ELSE Missing]
    /\ backup \in {{}, {Foreign}}
    /\ shown = GetGroups
    /\ refresh = {}
    /\ outdated = FALSE
    /\ activeSection \in {"groups", "data"}
    /\ createForm = "closed"
    /\ editForm = NoGroup
    /\ deleteForm = 0
    /\ dialog = NoDialog
    /\ password = "closed"
    /\ busy = {}
    /\ allowed \in BOOLEAN
    /\ jobs = {}
    /\ agreed = {}
    /\ overridden = FALSE
    /\ turns = 0
    /\ changes = 0
    /\ lost = 0

Turn == turns < MaxTurns /\ turns' = turns + 1 /\ UNCHANGED <<changes, lost>>
Loses == lost < MaxLost /\ lost' = lost + 1 /\ UNCHANGED <<turns, changes>>

\* A page can be used when nothing lies over it.
Free == createForm = "closed" /\ editForm = NoGroup /\ deleteForm = 0 /\ dialog = NoDialog /\ password = "closed"

NextJob == CHOOSE n \in 1 .. Cardinality(jobs) + 1 : \A j \in jobs : j.n # n
Begins(kind, groups) ==
    jobs' = jobs \cup {[n |-> NextJob, kind |-> kind, at |-> "sent", groups |-> groups, live |-> TRUE]}

(***************************************************************************)
(* The list.                                                               *)
(***************************************************************************)
OnGroupsChanged == refresh' = {GetGroups}

\* The groups may be read at once, or when the answer arrives.
Refreshed ==
    /\ refresh # {}
    /\ shown' \in refresh \cup {GetGroups}
    /\ refresh' = {}
    /\ outdated' = (outdated /\ shown' # GetGroups)
    /\ UNCHANGED <<storeVars, activeSection, formVars, dialogVars, allowed, jobs, agreed, limitVars>>

RefreshLost ==
    /\ refresh # {} /\ Loses
    /\ refresh' = {} /\ outdated' = TRUE
    /\ UNCHANGED <<storeVars, shown, activeSection, formVars, dialogVars, allowed, jobs, agreed>>

\* The cloud adds or deletes a group, or changes the policy; the window is told.
Synced ==
    /\ changes < MaxChanges /\ changes' = changes + 1
    /\ \/ \E g \in Ids :
              /\ directory' = [directory EXCEPT ![g].at = IF @ = "missing" THEN "active" ELSE "deleted"]
              /\ directory[g].at = "missing" => g # Foreign /\ \A h \in 1 .. g - 1 : directory[h].at # "missing"
              /\ agreed' = IF directory[g].at = "active" THEN agreed \cup {g} ELSE agreed
              /\ refresh' = {{[id |-> i, edits |-> directory[i].edits] : i \in Active(directory')}}
              /\ UNCHANGED allowed
       \/ /\ allowed' = ~allowed
          /\ UNCHANGED <<directory, agreed, refresh>>
    /\ UNCHANGED <<backup, shown, outdated, activeSection, formVars, dialogVars, jobs, turns, lost>>

\* What a page keeps goes with it, the jobs go on; closing the settings loads
\* the list again.
PageJobs == {"directory", "history", "export", "import"}
SetActiveSection(to) ==
    /\ Free /\ to # activeSection /\ Turn
    /\ activeSection' = to
    /\ busy' = IF to = "main" THEN {} ELSE IF activeSection = "data" THEN busy \ PageJobs ELSE busy
    /\ jobs' = {[j EXCEPT !.live = @ /\ to # "main" /\ ~(activeSection = "data" /\ j.kind \in PageJobs)] : j \in jobs}
    /\ IF to = "main" THEN OnGroupsChanged ELSE UNCHANGED refresh
    /\ UNCHANGED <<storeVars, shown, outdated, formVars, dialog, overridden, allowed, agreed>>

(***************************************************************************)
(* One group.                                                              *)
(***************************************************************************)
OpenCreateGroup ==
    /\ activeSection = "groups" /\ Free /\ allowed
    /\ createForm' = "open"
    /\ UNCHANGED <<storeVars, listVars, activeSection, editForm, deleteForm, password, dialogVars, allowed, jobs,
                   agreed, limitVars>>

\* The button waits for the answer, the Enter key of the name does not.
HandleCreate ==
    /\ createForm # "closed" /\ Turn
    /\ Cardinality({g \in Ids \ {Foreign} : directory[g].at = "missing"})
         > Cardinality({j \in jobs : j.kind = "create" /\ j.at = "sent"}) + MaxChanges - changes
    /\ createForm' = "busy"
    /\ Begins("create", {})
    /\ UNCHANGED <<storeVars, listVars, activeSection, editForm, deleteForm, password, dialogVars, allowed, agreed>>

OpenEditGroup(g) ==
    /\ activeSection = "groups" /\ Free /\ allowed /\ g \in ShownIds
    /\ editForm' = [group |-> g, loading |-> FALSE]
    /\ UNCHANGED <<storeVars, listVars, activeSection, createForm, deleteForm, password, dialogVars, allowed, jobs,
                   agreed, limitVars>>

HandleSave ==
    /\ editForm # NoGroup /\ ~editForm.loading /\ Turn
    /\ editForm' = [editForm EXCEPT !.loading = TRUE]
    /\ Begins("edit", {editForm.group})
    /\ UNCHANGED <<storeVars, listVars, activeSection, createForm, deleteForm, password, dialogVars, allowed, agreed>>

HandleDeleteGroup(g) ==
    /\ activeSection = "groups" /\ Free /\ allowed /\ g \in ShownIds
    /\ deleteForm' = g
    /\ UNCHANGED <<storeVars, listVars, activeSection, createForm, editForm, password, dialogVars, allowed, jobs,
                   agreed, limitVars>>

\* The name of the group has been typed.
ConfirmDeleteGroup ==
    /\ deleteForm # 0 /\ Turn
    /\ agreed' = agreed \cup {deleteForm}
    /\ Begins("delete", {deleteForm})
    /\ UNCHANGED <<storeVars, listVars, activeSection, formVars, dialogVars, allowed>>

\* None of the forms waits for what it has sent.
HandleClose ==
    /\ ~(createForm = "closed" /\ editForm = NoGroup /\ deleteForm = 0 /\ password = "closed")
    /\ createForm' = "closed" /\ editForm' = NoGroup /\ deleteForm' = 0 /\ password' = "closed"
    /\ UNCHANGED <<storeVars, listVars, activeSection, dialogVars, allowed, jobs, agreed, limitVars>>

(***************************************************************************)
(* The danger zone.                                                        *)
(***************************************************************************)
\* Which buttons a running job disables.
Enabled(job) ==
    /\ "faces" \notin busy /\ job \notin busy
    /\ job # "history" => allowed
    /\ job = "directory" => shown # {}

\* confirm: the message counts the groups of the list.
AskDanger(job) ==
    /\ activeSection = "data" /\ Free /\ Enabled(job)
    /\ dialog' = [type |-> "confirm", job |-> job, groups |-> IF job = "directory" THEN ShownIds ELSE {}]
    /\ UNCHANGED <<storeVars, listVars, activeSection, formVars, busy, overridden, allowed, jobs, agreed, limitVars>>

Cancel ==
    /\ dialog.type = "confirm"
    /\ dialog' = NoDialog
    /\ UNCHANGED <<storeVars, listVars, activeSection, formVars, busy, overridden, allowed, jobs, agreed, limitVars>>

\* Seeded bug: the groups the list has by now.
ListedNow(d) == IF d.job = "directory" THEN ShownIds ELSE {}
Confirmed(d) == d.groups

\* What the user agreed to is what the message counted; whether it is still
\* allowed is not looked at again.
ConfirmDanger ==
    /\ dialog.type = "confirm" /\ Turn
    /\ dialog' = NoDialog
    /\ busy' = busy \cup {dialog.job}
    /\ agreed' = agreed \cup dialog.groups
    /\ Begins(dialog.job, Confirmed(dialog))
    /\ UNCHANGED <<storeVars, listVars, activeSection, formVars, overridden, allowed>>

\* alert takes the place of whatever dialog is open: a question is then never
\* answered, and a job whose message it was is never over.
Alerts(job) ==
    /\ dialog' = [type |-> "alert", job |-> job, groups |-> {}]
    /\ overridden' = (overridden \/ dialog.type = "alert")

\* Seeded bug: the job's button is not given back.
KeepsBusy(job) == UNCHANGED busy
GivesBack(job) == busy' = busy \ {job}

\* A job of a page that was left has no button any more.
CloseAlert ==
    /\ dialog.type = "alert"
    /\ dialog' = NoDialog
    /\ \E j \in jobs :
           /\ j.at = "told" /\ j.kind = dialog.job
           /\ jobs' = jobs \ {j}
           /\ IF j.live THEN GivesBack(j.kind) ELSE UNCHANGED busy
    /\ UNCHANGED <<storeVars, listVars, activeSection, formVars, overridden, allowed, agreed, limitVars>>

(***************************************************************************)
(* The backup.                                                             *)
(***************************************************************************)
IsBackingUp == busy \cap {"export", "import"} # {}

\* Create asks for a password; Restore asks for a file first.
OpenPassword(job) ==
    /\ activeSection = "data" /\ Free /\ ~IsBackingUp
    /\ job = "import" => backup # {}
    /\ password' = job
    /\ UNCHANGED <<storeVars, listVars, activeSection, createForm, editForm, deleteForm, dialogVars, allowed,
                   jobs, agreed, limitVars>>

\* The file is read when the password is given.
SubmitPassword ==
    /\ password # "closed" /\ Turn
    /\ password' = "closed"
    /\ busy' = busy \cup {password}
    /\ Begins(password, IF password = "import" THEN backup ELSE {})
    /\ UNCHANGED <<storeVars, listVars, activeSection, createForm, editForm, deleteForm, dialog, overridden,
                   allowed, agreed>>

\* The file is saved, or the save dialog is cancelled.
SaveBackup(j) ==
    /\ j.kind = "export" /\ j.at = "served"
    /\ backup' \in {backup, j.groups}
    /\ jobs' = jobs \ {j}
    /\ IF j.live THEN GivesBack("export") ELSE UNCHANGED busy
    /\ UNCHANGED <<directory, listVars, activeSection, formVars, dialog, overridden, allowed, agreed, limitVars>>

(***************************************************************************)
(* Requests and answers.                                                   *)
(***************************************************************************)
\* Deleted rows stay: what the directory has had is not restored.
Served(j) ==
    [g \in Ids |->
        IF j.kind = "create" /\ directory[g].at = "missing" /\ \A h \in 1 .. g - 1 : directory[h].at # "missing"
        THEN [at |-> "active", edits |-> 0]
        ELSE IF g \notin j.groups THEN directory[g]
        ELSE IF j.kind = "edit" /\ directory[g].at = "active" THEN [directory[g] EXCEPT !.edits = 1]
        ELSE IF j.kind \in {"delete", "directory"} /\ directory[g].at = "active" THEN [directory[g] EXCEPT !.at = "deleted"]
        ELSE IF j.kind = "import" /\ directory[g].at = "missing" THEN [at |-> "active", edits |-> 0]
        ELSE directory[g]]

\* Of several groups the backend deletes one after the other; one that is gone
\* by then, or whose answer is lost, fails the whole.
Serve(j) ==
    /\ j.at = "sent"
    /\ j.kind \in {"edit", "delete"} => j.groups \subseteq Active(directory)
    /\ IF j.kind = "directory"
       THEN \E g \in j.groups :
                /\ directory[g].at = "active"
                /\ directory' = [directory EXCEPT ![g].at = "deleted"]
                /\ jobs' = (jobs \ {j}) \cup {[j EXCEPT !.groups = @ \ {g}, !.at = IF j.groups = {g} THEN "served" ELSE "sent"]}
       ELSE /\ directory' = Served(j)
            /\ jobs' = (jobs \ {j}) \cup
                  {[j EXCEPT !.at = "served",
                             !.groups = IF j.kind = "export" THEN {g \in Ids : directory[g].at # "missing"} ELSE @]}
    /\ UNCHANGED <<backup, listVars, activeSection, formVars, dialogVars, allowed, agreed, limitVars>>

\* Seeded bug: a restore is taken for something that changes no group.
RefreshesLess(kind) == kind \in {"create", "edit", "delete", "directory"}
Refreshes(kind) == kind \in {"create", "edit", "delete", "directory", "history", "import"}

\* Whatever its form shows by now is closed, a danger job tells in a dialog.
Answered(j) ==
    /\ j.at = "served" /\ j.kind # "export"
    /\ IF Refreshes(j.kind) THEN OnGroupsChanged ELSE UNCHANGED refresh
    /\ createForm' = IF j.kind = "create" THEN "closed" ELSE createForm
    /\ editForm' = IF j.kind = "edit" THEN NoGroup ELSE editForm
    /\ deleteForm' = IF j.kind = "delete" THEN 0 ELSE deleteForm
    /\ IF j.kind \in {"directory", "faces", "history"}
       THEN Alerts(j.kind) /\ jobs' = (jobs \ {j}) \cup {[j EXCEPT !.at = "told"]} /\ UNCHANGED busy
       ELSE /\ jobs' = jobs \ {j}
            /\ IF j.kind = "import" /\ j.live THEN GivesBack("import") ELSE UNCHANGED busy
            /\ UNCHANGED <<dialog, overridden>>
    /\ UNCHANGED <<storeVars, shown, outdated, activeSection, password, allowed, agreed, limitVars>>

\* What the backend refuses: every group that is left is gone.
Gone(j) == j.at = "sent" /\ j.kind \in {"edit", "delete", "directory"} /\ j.groups \cap Active(directory) = {}

\* Nothing is loaded again after a failure, and what was asked may have happened.
Fails(j) ==
    /\ j.at \in {"sent", "served"}
    /\ IF Gone(j) THEN UNCHANGED limitVars ELSE Loses
    /\ outdated' = (outdated \/ j.kind \in {"create", "edit", "delete", "directory", "import"})
    /\ createForm' = IF j.kind = "create" /\ createForm = "busy" THEN "open" ELSE createForm
    /\ editForm' = IF j.kind = "edit" THEN [editForm EXCEPT !.loading = FALSE] ELSE editForm
    /\ deleteForm' = IF j.kind = "delete" THEN 0 ELSE deleteForm
    /\ IF j.kind \in {"directory", "faces", "history"}
       THEN Alerts(j.kind) /\ jobs' = (jobs \ {j}) \cup {[j EXCEPT !.at = "told"]} /\ UNCHANGED busy
       ELSE /\ jobs' = jobs \ {j}
            /\ IF j.kind \in {"export", "import"} /\ j.live THEN GivesBack(j.kind) ELSE UNCHANGED busy
            /\ UNCHANGED <<dialog, overridden>>
    /\ UNCHANGED <<storeVars, shown, refresh, activeSection, password, allowed, agreed>>

DirectoryNext ==
    \/ Refreshed \/ RefreshLost \/ Synced \/ (\E to \in {"groups", "data", "main"} : SetActiveSection(to))
    \/ OpenCreateGroup \/ HandleCreate \/ HandleSave \/ ConfirmDeleteGroup \/ HandleClose
    \/ (\E g \in Ids : OpenEditGroup(g) \/ HandleDeleteGroup(g))
    \/ (\E job \in {"directory", "faces", "history"} : AskDanger(job))
    \/ Cancel \/ ConfirmDanger \/ CloseAlert
    \/ (\E job \in {"export", "import"} : OpenPassword(job))
    \/ SubmitPassword
    \/ \E j \in jobs : SaveBackup(j) \/ Serve(j) \/ Answered(j) \/ Fails(j)

DirectorySpec == DirectoryInit /\ [][DirectoryNext]_directoryVars

(***************************************************************************)
(* What must hold.                                                         *)
(***************************************************************************)
\* When nothing is under way the pages list the groups the directory has,
\* unless a request or a refresh has failed since the last load.
ShownSettles ==
    jobs = {} /\ refresh = {} /\ ~outdated => shown = GetGroups

\* No group is deleted that nobody has agreed to delete: neither one that came
\* while the question was open, nor by a job that goes on after its page is left.
DeletedAsAgreed ==
    \A g \in Ids : directory[g].at = "deleted" => g \in agreed

\* When nothing is under way every button can be used again, unless the last
\* message of a job was replaced by another dialog.
ButtonsReturn ==
    (\A j \in jobs : j.at = "told") /\ dialog.type = "none" /\ ~overridden => busy = {}

=============================================================================
