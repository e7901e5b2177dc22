----------------------------- MODULE PagesProofs -----------------------------
(***************************************************************************)
(* Proofs about two pages of the settings: what the directory of groups    *)
(* lists, deletes and gives back, and what the table of the reports and    *)
(* its exports may say.  The pages share no state, and each is proved of   *)
(* its own specification.                                                  *)
(***************************************************************************)
EXTENDS ReportDesk, GroupDirectory, TLAPS

(***************************************************************************)
(* The directory: types.                                                   *)
(***************************************************************************)
DangerJobs == {"directory", "faces", "history"}
BackupJobs == {"export", "import"}
FormJobs == {"create", "edit", "delete"}
Jobs == FormJobs \cup DangerJobs \cup BackupJobs

GroupRows == [at : {"missing", "active", "deleted"}, edits : Int]

IsJob(j) ==
    /\ j \in [n : {j.n}, kind : Jobs, at : {"sent", "served", "told"}, groups : {j.groups}, live : BOOLEAN]
    /\ j.at = "told" => j.kind \in DangerJobs

DirectoryTypeOK ==
    /\ directory \in [Ids -> GroupRows]
    /\ \A j \in jobs : IsJob(j)
    /\ dialog.type \in {"none", "confirm", "alert"} /\ (dialog.type = "none" => dialog = NoDialog)
    /\ dialog.type = "confirm" => dialog.job \in DangerJobs
    /\ password \in {"closed"} \cup BackupJobs
    /\ busy \subseteq DangerJobs \cup BackupJobs

(***************************************************************************)
(* What is deleted was agreed to.                                          *)
(***************************************************************************)
\* A job that has still to delete asks for nothing else.
AskedAsAgreed ==
    \A j \in jobs : j.at = "sent" /\ j.kind \in {"delete", "directory"} => j.groups \subseteq agreed

(***************************************************************************)
(* Buttons.                                                                *)
(***************************************************************************)
\* A button that waits, waits for a job whose page is still there.
BusyIsUnderWay ==
    \A job \in busy : \E j \in jobs : j.kind = job /\ j.live

\* A job that has told its end is the one whose message is read.
ToldIsShown ==
    ~overridden =>
        /\ \A j \in jobs : j.at = "told" => dialog.type = "alert" /\ dialog.job = j.kind
        /\ \A i, j \in jobs : i.at = "told" /\ j.at = "told" => i = j

(***************************************************************************)
(* The list.                                                               *)
(***************************************************************************)
\* A job that may have changed the directory, and has yet to be answered.
Owes(j) ==
    \/ j.at = "served" /\ j.kind \in {"create", "edit", "delete", "directory", "import"}
    \/ j.at = "sent" /\ j.kind = "directory"

\* The list is right, or will be by the refresh that is under way, or by one
\* that the answer to a job begins.
ListedOrOwed ==
    \/ outdated
    \/ \E j \in jobs : Owes(j)
    \/ refresh # {} /\ \A list \in refresh : list = GetGroups
    \/ refresh = {} /\ shown = GetGroups

DirectoryInv ==
    /\ DirectoryTypeOK
    /\ DeletedAsAgreed /\ AskedAsAgreed
    /\ BusyIsUnderWay /\ ToldIsShown
    /\ ListedOrOwed

(***************************************************************************)
(* The reports: types.                                                     *)
(***************************************************************************)
Rows == [status : {"none", "present", "absent"}, in : Int, out : Int, n : Int]
Tables == [ReportDays -> Rows \cup {Unread}]
Requests == [of : Ranges, at : {"sent", "served"}, live : BOOLEAN, rows : Tables]
Corrections == [status : {"present", "absent"}, in : Int, out : Int]
Puts == [kind : {"save", "undo"}, at : {"sent", "served"}, of : Ranges \cup {NoRange}, day : ReportDays,
         orig : Rows, fields : Corrections]

DeskTypeOK ==
    /\ sessions \in [ReportDays -> Rows]
    /\ range \in Ranges \cup {NoRange} /\ settled \in Ranges \cup {NoRange}
    /\ debounced \in BOOLEAN /\ loading \in BOOLEAN /\ error \in BOOLEAN
    /\ rowsLoaded \in Tables
    /\ asked \subseteq Requests
    /\ editing # NoEdit => editing.day \in ReportDays /\ editing.row \in Rows
    /\ toast # NoEdit => toast.day \in ReportDays /\ toast.row \in Rows
    /\ puts \subseteq Puts

\* Only an open page asks, exports and reads all groups.
OpenPageActs ==
    range = NoRange => ~debounced /\ asked = {} /\ handlers = NoHandlers /\ bulk.at = "closed"

\* The request of requestIdRef is of the range that is selected.
LiveIsOfRange == \A q \in asked : q.live => q.of = range

(***************************************************************************)
(* What is shown and exported was read.                                    *)
(***************************************************************************)
ReadIn(rows, of) == \A d \in of : rows[d] # Unread

ShownWasRead ==
    /\ \A q \in asked : q.at = "served" => ReadIn(q.rows, q.of)
    /\ range # NoRange /\ TableShows /\ ~error => ReadIn(rowsLoaded, range)
    /\ handlers # NoHandlers /\ ~handlers.failed => ReadIn(handlers.rows, handlers.of)
    /\ bulk.at = "exporting" => ReadIn(bulk.rows, range)

(***************************************************************************)
(* Freshness.                                                              *)
(***************************************************************************)
FreshIn(rows, of) == \A d \in of : rows[d].n = sessions[d].n

\* A change that the backend has made is known to be answered, or the answers
\* that are awaited and the table that is shown have it.
FreshOrAwaited ==
    \/ requeried
    \/ \E p \in puts : p.at = "served"
    \/ /\ \A q \in asked : q.live /\ q.at = "served" => FreshIn(q.rows, q.of)
       /\ range # NoRange /\ TableShows /\ ~error /\ (\A q \in asked : ~q.live) => FreshIn(rowsLoaded, range)

DeskInv ==
    /\ DeskTypeOK /\ OpenPageActs /\ LiveIsOfRange
    /\ ShownWasRead /\ NoFalseAbsence
    /\ FreshOrAwaited

(***************************************************************************)
(* The directory: proofs.                                                  *)
(***************************************************************************)
LEMMA DirectoryInitInv == DirectoryInit => DirectoryInv
<1> SUFFICES ASSUME DirectoryInit PROVE DirectoryInv
  OBVIOUS
<1>1. DirectoryTypeOK
  BY DEF DirectoryInit, DirectoryTypeOK, GroupRows, Missing, NoDialog
<1>2. \A g \in Ids : directory[g].at # "deleted"
  BY DEF DirectoryInit, Missing
<1> QED
  BY <1>1, <1>2 DEF DirectoryInit, DirectoryInv, DeletedAsAgreed, AskedAsAgreed, BusyIsUnderWay, ToldIsShown,
                    ListedOrOwed

\* A job that goes on keeps what it is.
LEMMA JobAt ==
    ASSUME NEW j, IsJob(j), NEW at \in {"sent", "served", "told"}, at = "told" => j.kind \in DangerJobs
    PROVE  LET k == [j EXCEPT !.at = at] IN
           IsJob(k) /\ k.at = at /\ k.kind = j.kind /\ k.live = j.live /\ k.groups = j.groups
BY DEF IsJob

\* A job that begins.
LEMMA JobBegins ==
    ASSUME NEW kind \in Jobs, NEW groups, Begins(kind, groups), \A j \in jobs : IsJob(j)
    PROVE  \E k : /\ jobs' = jobs \cup {k} /\ IsJob(k)
                  /\ k.kind = kind /\ k.at = "sent" /\ k.groups = groups /\ k.live
<1> DEFINE k == [n |-> NextJob, kind |-> kind, at |-> "sent", groups |-> groups, live |-> TRUE]
<1>1. IsJob(k) /\ k.kind = kind /\ k.at = "sent" /\ k.groups = groups /\ k.live
  BY DEF IsJob
<1>2. jobs' = jobs \cup {k}
  BY DEF Begins
<1> HIDE DEF k
<1> QED
  BY <1>1, <1>2

\* Steps that leave the jobs, the dialog and the directory alone.
DirectoryQuiet ==
    UNCHANGED <<directory, jobs, dialog, busy, overridden, agreed>>

QuietSteps ==
    \/ Refreshed \/ RefreshLost \/ OpenCreateGroup \/ HandleClose
    \/ \E g \in Ids : OpenEditGroup(g) \/ HandleDeleteGroup(g)
    \/ \E job \in {"export", "import"} : OpenPassword(job)

LEMMA QuietIsQuiet ==
    ASSUME QuietSteps, password \in {"closed"} \cup BackupJobs
    PROVE  DirectoryQuiet /\ password' \in {"closed"} \cup BackupJobs
<1> USE DEF DirectoryQuiet, storeVars, listVars, formVars, dialogVars, BackupJobs
<1>1. CASE Refreshed \/ RefreshLost
  BY <1>1 DEF Refreshed, RefreshLost
<1>2. CASE OpenCreateGroup \/ HandleClose
  BY <1>2 DEF OpenCreateGroup, HandleClose
<1>3. CASE \E g \in Ids : OpenEditGroup(g) \/ HandleDeleteGroup(g)
  BY <1>3 DEF OpenEditGroup, HandleDeleteGroup
<1>4. CASE \E job \in {"export", "import"} : OpenPassword(job)
  BY <1>4 DEF OpenPassword
<1> QED
  BY <1>1, <1>2, <1>3, <1>4 DEF QuietSteps

\* Steps that begin a job, and what else they do.
BeginSteps == HandleCreate \/ HandleSave \/ ConfirmDeleteGroup \/ ConfirmDanger \/ SubmitPassword

LEMMA BeginsOne ==
    ASSUME DirectoryTypeOK, BeginSteps
    PROVE  \E k : /\ jobs' = jobs \cup {k} /\ IsJob(k) /\ k.at = "sent" /\ k.live
                  /\ k.kind \in {"delete", "directory"} => k.groups \subseteq agreed'
                  /\ busy' \in {busy, busy \cup {k.kind}}
                  /\ k.kind \in DangerJobs \cup BackupJobs \/ busy' = busy
                  /\ agreed \subseteq agreed'
                  /\ (dialog.type # "alert" /\ dialog' = NoDialog) \/ dialog' = dialog
                  /\ password' \in {"closed"} \cup BackupJobs
                  /\ UNCHANGED <<directory, overridden, shown, refresh, outdated>>
<1> USE DEF storeVars, listVars, dialogVars, DirectoryTypeOK
<1>1. CASE HandleCreate
  <2>1. Begins("create", {}) /\ "create" \in Jobs
    BY <1>1 DEF HandleCreate, Jobs, FormJobs
  <2>2. PICK k : jobs' = jobs \cup {k} /\ IsJob(k) /\ k.kind = "create" /\ k.at = "sent" /\ k.live
    BY <2>1, JobBegins
  <2> QED
    BY <1>1, <2>2 DEF HandleCreate
<1>2. CASE HandleSave
  <2>1. Begins("edit", {editForm.group}) /\ "edit" \in Jobs
    BY <1>2 DEF HandleSave, Jobs, FormJobs
  <2>2. PICK k : jobs' = jobs \cup {k} /\ IsJob(k) /\ k.kind = "edit" /\ k.at = "sent" /\ k.live
    BY <2>1, JobBegins
  <2> QED
    BY <1>2, <2>2 DEF HandleSave
<1>3. CASE ConfirmDeleteGroup
  <2>1. Begins("delete", {deleteForm}) /\ "delete" \in Jobs
    BY <1>3 DEF ConfirmDeleteGroup, Jobs, FormJobs
  <2>2. PICK k : /\ jobs' = jobs \cup {k} /\ IsJob(k) /\ k.kind = "delete" /\ k.at = "sent" /\ k.live
                 /\ k.groups = {deleteForm}
    BY <2>1, JobBegins
  <2> QED
    BY <1>3, <2>2 DEF ConfirmDeleteGroup, formVars
<1>4. CASE ConfirmDanger
  <2>1. Begins(dialog.job, dialog.groups) /\ dialog.job \in DangerJobs
    BY <1>4 DEF ConfirmDanger, Confirmed
  <2>2. PICK k : /\ jobs' = jobs \cup {k} /\ IsJob(k) /\ k.kind = dialog.job /\ k.at = "sent" /\ k.live
                 /\ k.groups = dialog.groups
    BY <2>1, JobBegins DEF Jobs
  <2> QED
    BY <1>4, <2>1, <2>2 DEF ConfirmDanger, formVars
<1>5. CASE SubmitPassword
  <2> DEFINE groups == IF password = "import" THEN backup ELSE {}
  <2>1. Begins(password, groups) /\ password \in BackupJobs
    BY <1>5 DEF SubmitPassword
  <2> HIDE DEF groups
  <2>2. PICK k : jobs' = jobs \cup {k} /\ IsJob(k) /\ k.kind = password /\ k.at = "sent" /\ k.live
    BY <2>1, JobBegins DEF Jobs
  <2> QED
    BY <1>5, <2>1, <2>2 DEF SubmitPassword, BackupJobs
<1> QED
  BY <1>1, <1>2, <1>3, <1>4, <1>5 DEF BeginSteps

\* What the backend does for a job.
ServeShape(j, k) ==
    /\ jobs' = (jobs \ {j}) \cup {k} /\ IsJob(k) /\ k.kind = j.kind /\ k.live = j.live
    /\ k.at = "served" \/ (k.at = "sent" /\ k.kind = "directory" /\ k.groups \subseteq j.groups)
    /\ UNCHANGED <<shown, refresh, outdated, dialog, busy, overridden, agreed, password>>

LEMMA ServeMoves ==
    ASSUME DirectoryTypeOK, NEW j \in jobs, Serve(j)
    PROVE  \E k : ServeShape(j, k)
<1>0. IsJob(j) /\ j.at = "sent"
  BY DEF DirectoryTypeOK, Serve
<1>1. /\ UNCHANGED <<shown, refresh, outdated, dialog, busy, overridden, agreed, password>>
  BY DEF Serve, listVars, dialogVars, formVars
<1>2. CASE j.kind = "directory"
  <2>1. PICK g \in j.groups, then \in {"sent", "served"} :
            jobs' = (jobs \ {j}) \cup {[j EXCEPT !.groups = j.groups \ {g}, !.at = then]}
    BY <1>2 DEF Serve
  <2>2. PICK rest : rest = j.groups \ {g}
    OBVIOUS
  <2>3. PICK k : k = [j EXCEPT !.groups = rest, !.at = then]
    OBVIOUS
  <2>4. IsJob(k) /\ k.at = then /\ k.kind = j.kind /\ k.live = j.live /\ k.groups = rest
    BY <1>0, <2>1, <2>3 DEF IsJob
  <2>5. jobs' = (jobs \ {j}) \cup {k}
    BY <2>1, <2>2, <2>3
  <2> QED
    BY <1>1, <1>2, <2>1, <2>2, <2>4, <2>5 DEF ServeShape
<1>3. CASE j.kind # "directory"
  <2> DEFINE groups == IF j.kind = "export" THEN {g \in Ids : directory[g].at # "missing"} ELSE j.groups
  <2>1. jobs' = (jobs \ {j}) \cup {[j EXCEPT !.at = "served", !.groups = groups]}
    BY <1>3 DEF Serve
  <2> HIDE DEF groups
  <2>2. PICK k : k = [j EXCEPT !.at = "served", !.groups = groups]
    OBVIOUS
  <2>3. IsJob(k) /\ k.at = "served" /\ k.kind = j.kind /\ k.live = j.live
    BY <1>0, <2>2 DEF IsJob
  <2> QED
    BY <1>1, <2>1, <2>2, <2>3 DEF ServeShape
<1> QED
  BY <1>2, <1>3

LEMMA ServeDoes ==
    ASSUME DirectoryTypeOK, NEW j \in jobs, Serve(j)
    PROVE  /\ directory' \in [Ids -> GroupRows]
           /\ \A g \in Ids : directory'[g].at = "deleted" =>
                  directory[g].at = "deleted" \/ (j.kind \in {"delete", "directory"} /\ g \in j.groups)
           /\ j.kind \in {"faces", "history", "export"} => directory' = directory
<1>1. CASE j.kind = "directory"
  <2>1. PICK g \in j.groups : directory[g].at = "active" /\ directory' = [directory EXCEPT ![g].at = "deleted"]
    BY <1>1 DEF Serve
  <2> QED
    BY <1>1, <2>1 DEF DirectoryTypeOK, GroupRows
<1>2. CASE j.kind # "directory"
  <2>1. directory' = Served(j)
    BY <1>2 DEF Serve
  <2>2. ASSUME NEW g \in Ids
        PROVE  /\ Served(j)[g] \in GroupRows
               /\ Served(j)[g].at = "deleted" =>
                      directory[g].at = "deleted" \/ (j.kind \in {"delete", "directory"} /\ g \in j.groups)
               /\ j.kind \in {"faces", "history", "export"} => Served(j)[g] = directory[g]
    <3>1. directory[g] \in GroupRows
      BY DEF DirectoryTypeOK
    <3>2. /\ [at |-> "active", edits |-> 0] \in GroupRows /\ [directory[g] EXCEPT !.edits = 1] \in GroupRows
          /\ [directory[g] EXCEPT !.at = "deleted"] \in GroupRows
          /\ [directory[g] EXCEPT !.edits = 1].at = directory[g].at
      BY <3>1 DEF GroupRows
    <3> QED
      BY <3>1, <3>2 DEF Served
  <2>3. Served(j) = [g \in Ids |-> Served(j)[g]] /\ directory = [g \in Ids |-> directory[g]]
    BY DEF Served, DirectoryTypeOK
  <2> QED
    BY <2>1, <2>2, <2>3
<1> QED
  BY <1>1, <1>2

\* A job tells its end in a dialog, or is over.
Tells(j, k) ==
    /\ jobs' = (jobs \ {j}) \cup {k} /\ IsJob(k) /\ k.kind = j.kind /\ k.live = j.live /\ k.at = "told"
    /\ Alerts(j.kind) /\ busy' = busy

IsOver(j) ==
    /\ jobs' = jobs \ {j}
    /\ busy' = IF j.live /\ j.kind \notin FormJobs THEN busy \ {j.kind} ELSE busy
    /\ UNCHANGED overridden
    /\ \/ j.at # "told" /\ dialog' = dialog
       \/ j.at = "told" /\ dialog.type = "alert" /\ dialog' = NoDialog

EndSteps(j) == SaveBackup(j) \/ Answered(j) \/ Fails(j)

LEMMA EndMoves ==
    ASSUME DirectoryTypeOK, NEW j \in jobs, EndSteps(j)
    PROVE  /\ IsOver(j) \/ \E k : Tells(j, k)
           /\ UNCHANGED <<directory, agreed, password>>
<1>0. IsJob(j) /\ j.kind \in Jobs
  BY DEF DirectoryTypeOK, IsJob
<1>1. UNCHANGED <<directory, agreed, password>>
  BY DEF EndSteps, SaveBackup, Answered, Fails, formVars, storeVars
<1>2. ASSUME NEW k, k = [j EXCEPT !.at = "told"], j.kind \in DangerJobs PROVE IsJob(k) /\ k.kind = j.kind /\ k.live = j.live /\ k.at = "told"
  BY <1>0, <1>2, JobAt
<1>3. CASE SaveBackup(j)
  BY <1>0, <1>1, <1>3 DEF SaveBackup, GivesBack, IsOver, FormJobs
<1>4. CASE Answered(j) \/ Fails(j)
  <2>1. CASE j.kind \in DangerJobs
    <3>1. Alerts(j.kind) /\ jobs' = (jobs \ {j}) \cup {[j EXCEPT !.at = "told"]} /\ UNCHANGED busy
      BY <1>4, <2>1 DEF Answered, Fails, DangerJobs
    <3> QED
      BY <1>1, <1>2, <2>1, <3>1 DEF Tells
  <2>2. CASE j.kind \notin DangerJobs
    <3>1. /\ jobs' = jobs \ {j} /\ UNCHANGED <<dialog, overridden>> /\ j.at # "told"
          /\ IF j.kind \in BackupJobs /\ j.live THEN GivesBack(j.kind) ELSE UNCHANGED busy
      BY <1>4, <2>2 DEF Answered, Fails, DangerJobs, BackupJobs
    <3>2. j.kind \in BackupJobs <=> j.kind \notin FormJobs
      BY <1>0, <2>2 DEF Jobs, BackupJobs, FormJobs, DangerJobs
    <3> QED
      BY <1>1, <3>1, <3>2 DEF IsOver, GivesBack
  <2> QED
    BY <2>1, <2>2
<1> QED
  BY <1>3, <1>4 DEF EndSteps

LEMMA AlertCloses ==
    ASSUME DirectoryTypeOK, ToldIsShown, CloseAlert
    PROVE  /\ \E j \in jobs : j.at = "told" /\ IsOver(j)
           /\ UNCHANGED <<directory, agreed, password>>
<1>1. UNCHANGED <<directory, agreed, password, overridden>> /\ dialog.type = "alert" /\ dialog' = NoDialog
  BY DEF CloseAlert, formVars, storeVars
<1>2. PICK j \in jobs : /\ j.at = "told" /\ j.kind = dialog.job
                        /\ jobs' = jobs \ {j}
                        /\ IF j.live THEN GivesBack(j.kind) ELSE UNCHANGED busy
  BY DEF CloseAlert
<1>3. j.kind \notin FormJobs
  BY <1>2 DEF DirectoryTypeOK, IsJob, DangerJobs, FormJobs
<1> QED
  BY <1>1, <1>2, <1>3 DEF IsOver, GivesBack

\* Leaving a page keeps every job; a button that still waits has its job.
LEMMA SectionMoves ==
    ASSUME DirectoryTypeOK, NEW to \in {"groups", "data", "main"}, SetActiveSection(to)
    PROVE  /\ \A k \in jobs' : /\ IsJob(k)
                               /\ \E j \in jobs : k.kind = j.kind /\ k.at = j.at /\ k.groups = j.groups
           /\ \A j \in jobs : \E k \in jobs' : k.kind = j.kind /\ k.at = j.at
           /\ busy' \subseteq busy
           /\ \A j \in jobs : j.live /\ j.kind \in busy' => \E k \in jobs' : k.kind = j.kind /\ k.live
           /\ dialog = NoDialog /\ refresh' \in {refresh, {GetGroups}}
           /\ UNCHANGED <<directory, dialog, overridden, agreed, password, shown, outdated>>
<1> DEFINE stays(j) == j.live /\ to # "main" /\ ~(activeSection = "data" /\ j.kind \in PageJobs)
           moved(j) == [j EXCEPT !.live = stays(j)]
<1>1. jobs' = {moved(j) : j \in jobs}
  BY DEF SetActiveSection
<1>2. ASSUME NEW j \in jobs
      PROVE  /\ IsJob(moved(j)) /\ moved(j).kind = j.kind /\ moved(j).at = j.at
             /\ moved(j).groups = j.groups /\ moved(j).live = stays(j)
  <2>1. IsJob(j) /\ stays(j) \in BOOLEAN
    BY DEF DirectoryTypeOK, IsJob
  <2> HIDE DEF stays
  <2> QED
    BY <2>1 DEF IsJob
<1>3. /\ busy' \subseteq busy
      /\ \A j \in jobs : j.live /\ j.kind \in busy' => stays(j)
      /\ dialog = NoDialog /\ refresh' \in {refresh, {GetGroups}}
      /\ UNCHANGED <<directory, dialog, overridden, agreed, password, shown, outdated>>
  BY DEF SetActiveSection, storeVars, formVars, Free, OnGroupsChanged, PageJobs
<1> HIDE DEF moved, stays
<1> QED
  BY <1>1, <1>2, <1>3

LEMMA DirectoryCases ==
    ASSUME DirectoryNext
    PROVE  \/ QuietSteps \/ BeginSteps \/ Synced \/ Cancel \/ CloseAlert
           \/ \E to \in {"groups", "data", "main"} : SetActiveSection(to)
           \/ \E job \in DangerJobs : AskDanger(job)
           \/ \E j \in jobs : Serve(j) \/ EndSteps(j)
BY DEF DirectoryNext, QuietSteps, BeginSteps, EndSteps, DangerJobs

LEMMA SyncedMoves ==
    ASSUME DirectoryTypeOK, Synced
    PROVE  /\ directory' \in [Ids -> GroupRows] /\ agreed \subseteq agreed'
           /\ \A g \in Ids : directory'[g].at = "deleted" => directory[g].at = "deleted" \/ g \in agreed'
           /\ refresh' = {GetGroups'} \/ UNCHANGED <<directory, refresh>>
           /\ UNCHANGED <<jobs, dialog, busy, overridden, password, shown, outdated>>
<1>1. UNCHANGED <<jobs, dialog, busy, overridden, password, shown, outdated>>
  BY DEF Synced, formVars, dialogVars
<1>2. ASSUME NEW g \in Ids,
             directory' = [directory EXCEPT ![g].at = IF @ = "missing" THEN "active" ELSE "deleted"],
             agreed' = IF directory[g].at = "active" THEN agreed \cup {g} ELSE agreed,
             refresh' = {{[id |-> i, edits |-> directory[i].edits] : i \in Active(directory')}}
      PROVE  /\ directory' \in [Ids -> GroupRows] /\ agreed \subseteq agreed'
             /\ \A h \in Ids : directory'[h].at = "deleted" => directory[h].at = "deleted" \/ h \in agreed'
             /\ refresh' = {GetGroups'}
  <2>1. directory[g] \in GroupRows
    BY DEF DirectoryTypeOK
  <2>2. PICK at \in {"active", "deleted"} :
            directory' = [directory EXCEPT ![g].at = at] /\ (at = "deleted" => directory[g].at # "missing")
    BY <1>2
  <2>3. [directory[g] EXCEPT !.at = at] \in GroupRows
    BY <2>1, <2>2 DEF GroupRows
  <2>4. directory' \in [Ids -> GroupRows]
    BY <2>2, <2>3 DEF DirectoryTypeOK
  <2>5. \A h \in Ids : /\ h # g => directory'[h] = directory[h]
                       /\ directory'[h].edits = directory[h].edits
                       /\ directory'[g].at = at
    BY <2>1, <2>2 DEF DirectoryTypeOK, GroupRows
  <2>6. \A h \in Ids : directory'[h].at = "deleted" => directory[h].at = "deleted" \/ h \in agreed'
    BY <1>2, <2>1, <2>2, <2>5 DEF GroupRows
  <2>7. GetGroups' = {[id |-> i, edits |-> directory[i].edits] : i \in Active(directory')}
    BY <2>5 DEF GetGroups, Active
  <2> QED
    BY <1>2, <2>4, <2>6, <2>7
<1>3. CASE UNCHANGED <<directory, agreed, refresh>>
  BY <1>1, <1>3 DEF DirectoryTypeOK
<1>4. CASE ~UNCHANGED <<directory, agreed, refresh>>
  <2>1. PICK g \in Ids :
            /\ directory' = [directory EXCEPT ![g].at = IF @ = "missing" THEN "active" ELSE "deleted"]
            /\ agreed' = IF directory[g].at = "active" THEN agreed \cup {g} ELSE agreed
            /\ refresh' = {{[id |-> i, edits |-> directory[i].edits] : i \in Active(directory')}}
    BY <1>4 DEF Synced
  <2> QED
    BY <1>1, <1>2, <2>1
<1> QED
  BY <1>3, <1>4

LEMMA DirectoryTyped ==
    ASSUME DirectoryTypeOK, ToldIsShown, DirectoryNext
    PROVE  DirectoryTypeOK'
<1> USE DEF DirectoryTypeOK
<1>1. CASE QuietSteps
  BY <1>1, QuietIsQuiet DEF DirectoryQuiet
<1>2. CASE BeginSteps
  <2>1. PICK k : /\ jobs' = jobs \cup {k} /\ IsJob(k)
                 /\ busy' \in {busy, busy \cup {k.kind}}
                 /\ k.kind \in DangerJobs \cup BackupJobs \/ busy' = busy
                 /\ (dialog.type # "alert" /\ dialog' = NoDialog) \/ dialog' = dialog
                 /\ password' \in {"closed"} \cup BackupJobs
                 /\ UNCHANGED directory
    BY <1>2, BeginsOne
  <2>2. busy' \subseteq DangerJobs \cup BackupJobs
    BY <2>1
  <2>3. /\ dialog'.type \in {"none", "confirm", "alert"} /\ (dialog'.type = "none" => dialog' = NoDialog)
        /\ dialog'.type = "confirm" => dialog'.job \in DangerJobs
    BY <2>1 DEF NoDialog
  <2> QED
    BY <2>1, <2>2, <2>3
<1>3. CASE Synced
  BY <1>3, SyncedMoves
<1>4. CASE Cancel
  BY <1>4 DEF Cancel, NoDialog, storeVars, formVars
<1>5. CASE CloseAlert
  <2>1. PICK j \in jobs : IsOver(j) /\ UNCHANGED <<directory, agreed, password>>
    BY <1>5, AlertCloses
  <2> QED
    BY <2>1 DEF IsOver, NoDialog
<1>6. CASE \E to \in {"groups", "data", "main"} : SetActiveSection(to)
  BY <1>6, SectionMoves
<1>7. CASE \E job \in DangerJobs : AskDanger(job)
  BY <1>7 DEF AskDanger, storeVars, formVars
<1>8. ASSUME NEW j \in jobs, Serve(j) PROVE DirectoryTypeOK'
  <2>1. PICK k : ServeShape(j, k)
    BY <1>8, ServeMoves
  <2> QED
    BY <1>8, <2>1, ServeDoes DEF ServeShape
<1>9. ASSUME NEW j \in jobs, EndSteps(j) PROVE DirectoryTypeOK'
  <2>1. UNCHANGED <<directory, agreed, password>>
    BY <1>9, EndMoves
  <2>2. CASE IsOver(j)
    BY <2>1, <2>2 DEF IsOver, NoDialog
  <2>3. ASSUME NEW k, Tells(j, k) PROVE DirectoryTypeOK'
    BY <2>1, <2>3 DEF Tells, Alerts
  <2> QED
    BY <1>9, <2>2, <2>3, EndMoves
<1> QED
  BY <1>1, <1>2, <1>3, <1>4, <1>5, <1>6, <1>7, <1>8, <1>9, DirectoryCases

\* A group is deleted by a job that asks for groups that were agreed to.
LEMMA AgreedStep ==
    ASSUME DirectoryTypeOK, ToldIsShown, DeletedAsAgreed, AskedAsAgreed, DirectoryNext
    PROVE  DeletedAsAgreed' /\ AskedAsAgreed'
<1> USE DEF DeletedAsAgreed, AskedAsAgreed
<1>1. CASE QuietSteps
  BY <1>1, QuietIsQuiet DEF DirectoryQuiet, DirectoryTypeOK
<1>2. CASE BeginSteps
  <2>1. PICK k : /\ jobs' = jobs \cup {k} /\ k.at = "sent"
                 /\ k.kind \in {"delete", "directory"} => k.groups \subseteq agreed'
                 /\ agreed \subseteq agreed' /\ directory' = directory
    BY <1>2, BeginsOne
  <2> QED
    BY <2>1
<1>3. CASE Synced
  BY <1>3, SyncedMoves
<1>4. CASE Cancel \/ \E job \in DangerJobs : AskDanger(job)
  BY <1>4 DEF Cancel, AskDanger, storeVars
<1>5. CASE CloseAlert
  BY <1>5, AlertCloses DEF IsOver
<1>6. CASE \E to \in {"groups", "data", "main"} : SetActiveSection(to)
  BY <1>6, SectionMoves
<1>7. ASSUME NEW j \in jobs, Serve(j) PROVE DeletedAsAgreed' /\ AskedAsAgreed'
  <2>1. PICK k : ServeShape(j, k)
    BY <1>7, ServeMoves
  <2>2. j.at = "sent"
    BY <1>7 DEF Serve
  <2> QED
    BY <1>7, <2>1, <2>2, ServeDoes DEF ServeShape
<1>8. ASSUME NEW j \in jobs, EndSteps(j) PROVE DeletedAsAgreed' /\ AskedAsAgreed'
  <2>1. jobs' = jobs \ {j} \/ \E k : jobs' = (jobs \ {j}) \cup {k} /\ k.at = "told"
    BY <1>8, EndMoves DEF IsOver, Tells
  <2> QED
    BY <1>8, <2>1, EndMoves
<1> QED
  BY <1>1, <1>2, <1>3, <1>4, <1>5, <1>6, <1>7, <1>8, DirectoryCases

\* A button goes with its job: whichever job is over, another one that is live
\* keeps its own button waiting.
LEMMA BusyStep ==
    ASSUME DirectoryTypeOK, ToldIsShown, BusyIsUnderWay, DirectoryNext
    PROVE  BusyIsUnderWay'
<1> USE DEF BusyIsUnderWay
<1>0. ASSUME NEW j \in jobs, IsOver(j) PROVE BusyIsUnderWay'
  <2> SUFFICES ASSUME NEW job \in busy' PROVE \E i \in jobs' : i.kind = job /\ i.live
    OBVIOUS
  <2>1. job \in busy /\ ~(j.live /\ j.kind = job)
    BY <1>0 DEF IsOver, DirectoryTypeOK, DangerJobs, BackupJobs, FormJobs
  <2>2. PICK i \in jobs : i.kind = job /\ i.live
    BY <2>1
  <2>3. i # j
    BY <2>1, <2>2
  <2> QED
    BY <1>0, <2>2, <2>3 DEF IsOver
<1>a. ASSUME NEW j \in jobs, NEW k, jobs' = (jobs \ {j}) \cup {k}, k.kind = j.kind, k.live = j.live, busy' = busy
      PROVE  BusyIsUnderWay'
  BY <1>a
<1>1. CASE QuietSteps
  BY <1>1, QuietIsQuiet DEF DirectoryQuiet, DirectoryTypeOK
<1>2. CASE BeginSteps
  <2>1. PICK k : jobs' = jobs \cup {k} /\ k.live /\ busy' \in {busy, busy \cup {k.kind}}
    BY <1>2, BeginsOne
  <2> QED
    BY <2>1
<1>3. CASE Synced
  BY <1>3, SyncedMoves
<1>4. CASE Cancel \/ \E job \in DangerJobs : AskDanger(job)
  BY <1>4 DEF Cancel, AskDanger
<1>5. CASE CloseAlert
  BY <1>0, <1>5, AlertCloses
<1>6. CASE \E to \in {"groups", "data", "main"} : SetActiveSection(to)
  BY <1>6, SectionMoves
<1>7. ASSUME NEW j \in jobs, Serve(j) PROVE BusyIsUnderWay'
  BY <1>a, <1>7, ServeMoves DEF ServeShape
<1>8. ASSUME NEW j \in jobs, EndSteps(j) PROVE BusyIsUnderWay'
  BY <1>0, <1>a, <1>8, EndMoves DEF Tells
<1> QED
  BY <1>1, <1>2, <1>3, <1>4, <1>5, <1>6, <1>7, <1>8, DirectoryCases

\* A message is shown by itself, unless one was replaced.
LEMMA ToldStep ==
    ASSUME DirectoryTypeOK, ToldIsShown, DirectoryNext
    PROVE  ToldIsShown'
<1> USE DEF ToldIsShown
<1>0. ASSUME NEW j \in jobs, IsOver(j) PROVE ToldIsShown'
  <2>1. CASE j.at # "told" /\ dialog' = dialog
    BY <1>0, <2>1 DEF IsOver
  <2>2. CASE dialog.type = "alert" /\ dialog' = NoDialog /\ j.at = "told"
    BY <1>0, <2>2 DEF IsOver
  <2> QED
    BY <1>0, <2>1, <2>2 DEF IsOver
<1>1. CASE QuietSteps
  BY <1>1, QuietIsQuiet DEF DirectoryQuiet, DirectoryTypeOK
<1>2. CASE BeginSteps
  <2>1. PICK k : /\ jobs' = jobs \cup {k} /\ k.at = "sent" /\ UNCHANGED overridden
                 /\ (dialog.type # "alert" /\ dialog' = NoDialog) \/ dialog' = dialog
    BY <1>2, BeginsOne
  <2> QED
    BY <2>1
<1>3. CASE Synced
  BY <1>3, SyncedMoves
<1>4. CASE Cancel \/ \E job \in DangerJobs : AskDanger(job)
  BY <1>4 DEF Cancel, AskDanger, Free, NoDialog
<1>5. CASE CloseAlert
  <2>1. PICK j \in jobs : j.at = "told" /\ IsOver(j)
    BY <1>5, AlertCloses
  <2> QED
    BY <1>0, <2>1
<1>6. CASE \E to \in {"groups", "data", "main"} : SetActiveSection(to)
  <2>1. PICK to \in {"groups", "data", "main"} : SetActiveSection(to)
    BY <1>6
  <2>2. ~overridden => \A j \in jobs : j.at # "told"
    BY <2>1, SectionMoves DEF NoDialog
  <2>3. ~overridden' => \A k \in jobs' : k.at # "told"
    BY <2>1, <2>2, SectionMoves
  <2> QED
    BY <2>3
<1>7. ASSUME NEW j \in jobs, Serve(j) PROVE ToldIsShown'
  <2>1. PICK k : ServeShape(j, k)
    BY <1>7, ServeMoves
  <2> QED
    BY <2>1 DEF ServeShape
<1>8. ASSUME NEW j \in jobs, EndSteps(j) PROVE ToldIsShown'
  <2>1. ASSUME NEW k, Tells(j, k) PROVE ToldIsShown'
    BY <2>1 DEF Tells, Alerts
  <2> QED
    BY <1>0, <1>8, <2>1, EndMoves
<1> QED
  BY <1>1, <1>2, <1>3, <1>4, <1>5, <1>6, <1>7, <1>8, DirectoryCases

\* What changes the directory is answered by a refresh, tells of one, or is
\* known to have failed.
LEMMA ListStep ==
    ASSUME DirectoryTypeOK, ToldIsShown, ListedOrOwed, DirectoryNext
    PROVE  ListedOrOwed'
<1> USE DEF ListedOrOwed
<1>0. directory' = directory => GetGroups' = GetGroups
  BY DEF GetGroups, Active
<1>a. ASSUME NEW j \in jobs, ~Owes(j), directory' = directory, UNCHANGED <<shown, refresh>>, outdated => outdated',
             jobs' = jobs \ {j} \/ \E k : jobs' = (jobs \ {j}) \cup {k}
      PROVE  ListedOrOwed'
  BY <1>0, <1>a DEF Owes
<1>1. CASE Refreshed
  <2>1. /\ shown' \in refresh \cup {GetGroups} /\ refresh # {} /\ refresh' = {}
        /\ outdated' = (outdated /\ shown' # GetGroups) /\ UNCHANGED <<directory, jobs>>
    BY <1>1 DEF Refreshed, storeVars
  <2> QED
    BY <1>0, <2>1 DEF Owes
<1>2. CASE RefreshLost
  BY <1>2 DEF RefreshLost
<1>3. CASE QuietSteps /\ ~Refreshed /\ ~RefreshLost
  <2>1. UNCHANGED <<directory, jobs, shown, refresh, outdated>>
    BY <1>3 DEF QuietSteps, OpenCreateGroup, HandleClose, OpenEditGroup, HandleDeleteGroup, OpenPassword,
                storeVars, listVars
  <2> QED
    BY <1>0, <2>1 DEF Owes
<1>4. CASE BeginSteps
  <2>1. PICK k : jobs' = jobs \cup {k} /\ UNCHANGED <<directory, shown, refresh, outdated>>
    BY <1>4, BeginsOne
  <2> QED
    BY <1>0, <2>1 DEF Owes
<1>5. CASE Synced
  BY <1>0, <1>5, SyncedMoves DEF Owes
<1>6. CASE Cancel \/ \E job \in DangerJobs : AskDanger(job)
  BY <1>0, <1>6 DEF Cancel, AskDanger, storeVars, listVars, Owes
<1>7. CASE CloseAlert
  <2>1. PICK j \in jobs : j.at = "told" /\ IsOver(j) /\ directory' = directory
    BY <1>7, AlertCloses
  <2>2. UNCHANGED <<shown, refresh, outdated>>
    BY <1>7 DEF CloseAlert, listVars
  <2> QED
    BY <1>a, <2>1, <2>2 DEF IsOver, Owes
<1>8. ASSUME NEW to \in {"groups", "data", "main"}, SetActiveSection(to) PROVE ListedOrOwed'
  <2>1. \A j \in jobs : \E k \in jobs' : k.kind = j.kind /\ k.at = j.at
    BY <1>8, SectionMoves
  <2>2. refresh' \in {refresh, {GetGroups}} /\ UNCHANGED <<directory, shown, outdated>>
    BY <1>8, SectionMoves
  <2>3. (\E j \in jobs : Owes(j)) => \E k \in jobs' : Owes(k)
    BY <2>1 DEF Owes
  <2> QED
    BY <1>0, <2>2, <2>3
<1>9. ASSUME NEW j \in jobs, Serve(j) PROVE ListedOrOwed'
  <2>1. PICK k : ServeShape(j, k)
    BY <1>9, ServeMoves
  <2>2. IsJob(j) /\ j.kind \in Jobs /\ j.at = "sent"
    BY <1>9 DEF DirectoryTypeOK, IsJob, Serve
  <2>3. CASE j.kind \in {"create", "edit", "delete", "directory", "import"}
    BY <2>1, <2>3 DEF ServeShape, Owes
  <2>4. CASE j.kind \in {"faces", "history", "export"}
    <3>1. directory' = directory
      BY <1>9, <2>4, ServeDoes
    <3> QED
      BY <1>a, <2>1, <2>2, <2>4, <3>1 DEF ServeShape, Owes
  <2> QED
    BY <2>2, <2>3, <2>4 DEF Jobs, FormJobs, DangerJobs, BackupJobs
<1>10. ASSUME NEW j \in jobs, EndSteps(j) PROVE ListedOrOwed'
  <2>1. directory' = directory /\ (jobs' = jobs \ {j} \/ \E k : jobs' = (jobs \ {j}) \cup {k})
    BY <1>10, EndMoves DEF IsOver, Tells
  <2>2. CASE SaveBackup(j)
    BY <1>a, <2>1, <2>2 DEF SaveBackup, listVars, Owes
  <2>3. CASE Answered(j)
    <3>1. UNCHANGED <<shown, outdated>> /\ j.at = "served"
          /\ (IF Refreshes(j.kind) THEN refresh' = {GetGroups} ELSE UNCHANGED refresh)
      BY <2>3 DEF Answered, OnGroupsChanged
    <3>2. CASE Refreshes(j.kind)
      BY <1>0, <2>1, <3>1, <3>2
    <3>3. CASE ~Refreshes(j.kind)
      BY <1>a, <2>1, <3>1, <3>3 DEF Refreshes, Owes
    <3> QED
      BY <3>2, <3>3
  <2>4. CASE Fails(j)
    <3>1. /\ outdated' = (outdated \/ j.kind \in {"create", "edit", "delete", "directory", "import"})
          /\ UNCHANGED <<shown, refresh>>
      BY <2>4 DEF Fails
    <3>2. CASE j.kind \in {"create", "edit", "delete", "directory", "import"}
      BY <3>1, <3>2
    <3>3. CASE j.kind \notin {"create", "edit", "delete", "directory", "import"}
      <4>1. ~Owes(j) /\ (outdated => outdated')
        BY <3>1, <3>3 DEF Owes
      <4> QED
        BY <1>a, <2>1, <3>1, <4>1
    <3> QED
      BY <3>2, <3>3
  <2> QED
    BY <1>10, <2>2, <2>3, <2>4 DEF EndSteps
<1> QED
  BY <1>1, <1>2, <1>3, <1>4, <1>5, <1>6, <1>7, <1>8, <1>9, <1>10, DirectoryCases

LEMMA DirectoryStep ==
    ASSUME DirectoryInv, [DirectoryNext]_directoryVars
    PROVE  DirectoryInv'
<1>1. CASE DirectoryNext
  BY <1>1, DirectoryTyped, AgreedStep, BusyStep, ToldStep, ListStep DEF DirectoryInv
<1>2. CASE UNCHANGED directoryVars
  BY <1>2 DEF DirectoryInv, DirectoryTypeOK, DeletedAsAgreed, AskedAsAgreed, BusyIsUnderWay, ToldIsShown,
              ListedOrOwed, Owes, GetGroups, Active, directoryVars, storeVars, listVars, formVars, dialogVars
<1> QED
  BY <1>1, <1>2

LEMMA DirectoryAlways == DirectorySpec => []DirectoryInv
BY DirectoryInitInv, DirectoryStep, PTL DEF DirectorySpec

\* When nothing is under way the pages list the groups the directory has, unless
\* a request or a refresh has failed since: every change is owed a refresh until
\* its answer begins one, and a change from the cloud begins one itself.
THEOREM ListSettles == DirectorySpec => []ShownSettles
<1>1. DirectoryInv => ShownSettles
  BY DEF DirectoryInv, ListedOrOwed, ShownSettles
<1> QED
  BY <1>1, DirectoryAlways, PTL

\* A group is deleted only after somebody has agreed to delete it, though jobs
\* go on after their page is left and the cloud adds groups meanwhile.
THEOREM NothingElseDeleted == DirectorySpec => []DeletedAsAgreed
<1>1. DirectoryInv => DeletedAsAgreed
  BY DEF DirectoryInv
<1> QED
  BY <1>1, DirectoryAlways, PTL

\* A button that waits has a job of a page that is there; when nothing is under
\* way, and no message was replaced, every button can be used.
THEOREM NoButtonIsStuck == DirectorySpec => []ButtonsReturn
<1>1. DirectoryInv => ButtonsReturn
  BY DEF DirectoryInv, DirectoryTypeOK, BusyIsUnderWay, ToldIsShown, ButtonsReturn
<1> QED
  BY <1>1, DirectoryAlways, PTL

(***************************************************************************)
(* The reports: proofs.                                                    *)
(***************************************************************************)
LEMMA TodayIsADay == TodayIs \in ReportDays /\ {TodayIs} \in Ranges
<1>1. PICK t \in ReportDays : {t} \in Ranges /\ \A d \in ReportDays : d <= t
  BY DeskAssumption
<1>2. TodayIs \in ReportDays /\ \A e \in ReportDays : e <= TodayIs
  BY <1>1 DEF TodayIs
<1>3. TodayIs <= t /\ t <= TodayIs /\ TodayIs \in Nat /\ t \in Nat
  BY <1>1, <1>2, DeskAssumption
<1>4. TodayIs = t
  BY <1>3
<1> QED
  BY <1>1, <1>4

LEMMA RangesAreDays ==
    ASSUME NEW r \in Ranges
    PROVE  r \subseteq ReportDays /\ r # NoRange
BY DeskAssumption

LEMMA UnreadIsNoRow == Unread \notin Rows
BY DEF Unread, Rows

LEMMA UnloadedType == Unloaded \in Tables
BY DEF Unloaded, Tables

LEMMA DeskInitInv == DeskInit => DeskInv
<1> SUFFICES ASSUME DeskInit PROVE DeskInv
  OBVIOUS
<1>1. sessions \in [ReportDays -> Rows]
  <2>1. NoSession \in Rows /\ Scanned \in Rows
    BY DEF NoSession, Scanned, Rows
  <2> QED
    BY <2>1 DEF DeskInit
<1>2. DeskTypeOK
  BY <1>1, UnloadedType DEF DeskInit, DeskTypeOK
<1>3. OpenPageActs /\ LiveIsOfRange /\ ShownWasRead /\ NoFalseAbsence /\ FreshOrAwaited
  BY DEF DeskInit, OpenPageActs, LiveIsOfRange, ShownWasRead, NoFalseAbsence, FreshOrAwaited, NoBulk, TableShows
<1> QED
  BY <1>2, <1>3 DEF DeskInv

\* What is read has every day asked for, as it is.
LEMMA ReadDays ==
    ASSUME DeskTypeOK, NEW days \in Ranges
    PROVE  /\ Read(days) \in Tables
           /\ ReadIn(Read(days), days)
           /\ FreshIn(Read(days), days)
<1>1. \A d \in days : d \in ReportDays /\ sessions[d] \in Rows /\ sessions[d] # Unread
  BY RangesAreDays, UnreadIsNoRow DEF DeskTypeOK
<1>2. \A d \in ReportDays : sessions[d] \in Rows \cup {Unread}
  BY DEF DeskTypeOK
<1> QED
  BY <1>1, <1>2 DEF Read, Tables, ReadIn, FreshIn

\* A request that is superseded keeps all but its claim to be the last.
LEMMA SupersededAre ==
    ASSUME asked \subseteq Requests
    PROVE  /\ Superseded \subseteq Requests
           /\ \A q \in Superseded : ~q.live /\ \E p \in asked : q.of = p.of /\ q.at = p.at /\ q.rows = p.rows
<1>1. \A p \in asked : LET q == [p EXCEPT !.live = FALSE] IN
          q \in Requests /\ ~q.live /\ q.of = p.of /\ q.at = p.at /\ q.rows = p.rows
  BY DEF Requests
<1> QED
  BY <1>1 DEF Superseded

\* The requests after generateReport of the range a step was made for.
Asks(q) ==
    /\ asked' = Superseded \cup {q} /\ q \in Requests /\ q.live /\ q.at = "sent" /\ q.of = range
    /\ loading' = TRUE /\ error' = FALSE

LEMMA GeneratesAsks ==
    ASSUME DeskTypeOK, range # NoRange, NEW of, Generates(of)
    PROVE  (of = range /\ \E q : Asks(q)) \/ (of # range /\ UNCHANGED <<asked, loading, error>>)
<1> DEFINE q == [of |-> range, at |-> "sent", live |-> TRUE, rows |-> Unloaded]
<1>1. q \in Requests /\ q.live /\ q.at = "sent" /\ q.of = range
  BY UnloadedType DEF DeskTypeOK, Requests
<1>2. of = range => asked' = Superseded \cup {q} /\ loading' = TRUE /\ error' = FALSE
  BY DEF Generates
<1> HIDE DEF q
<1>3. CASE of = range
  BY <1>1, <1>2, <1>3 DEF Asks
<1>4. CASE of # range
  BY <1>4 DEF Generates
<1> QED
  BY <1>3, <1>4

\* A request that is served has what was read.
LEMMA ServedRequest ==
    ASSUME DeskTypeOK, NEW q \in asked, ServeReport(q)
    PROVE  \E s \in Requests : /\ asked' = (asked \ {q}) \cup {s}
                               /\ s.of = q.of /\ s.at = "served" /\ s.live = q.live
                               /\ ReadIn(s.rows, s.of) /\ FreshIn(s.rows, s.of)
<1>1. q \in Requests
  BY DEF DeskTypeOK
<1>2. Read(q.of) \in Tables /\ ReadIn(Read(q.of), q.of) /\ FreshIn(Read(q.of), q.of)
  BY <1>1, ReadDays DEF Requests
<1>3. PICK rows \in Tables : rows = Read(q.of)
  BY <1>2
<1>4. PICK s : s = [q EXCEPT !.at = "served", !.rows = rows]
  OBVIOUS
<1>5. s \in Requests /\ s.of = q.of /\ s.at = "served" /\ s.live = q.live /\ s.rows = rows
  BY <1>1, <1>3, <1>4 DEF Requests
<1>6. asked' = (asked \ {q}) \cup {s}
  BY <1>3, <1>4 DEF ServeReport
<1> QED
  BY <1>2, <1>3, <1>5, <1>6

\* What the header's button is told.
LEMMA PublishesShown ==
    ASSUME Publishes
    PROVE  \/ handlers' \in {NoHandlers, handlers}
           \/ /\ handlers'.of = range' /\ handlers'.rows = rowsLoaded' /\ handlers'.failed = error'
              /\ range' # NoRange /\ ~loading' /\ settled' = range'
BY DEF Publishes, Settles, TableShows, Shown

\* Steps that leave the query and its answers alone.
DeskQuiet == UNCHANGED <<range, debounced, settled, loading, error, rowsLoaded, asked, handlers>>

DeskQuietSteps ==
    \/ \E d \in ReportDays : OpenEditor(d)
    \/ CloseEditor \/ (\E f \in Fields(editing.row) : HandleSaveSession(f)) \/ Undo \/ ToastGoes
    \/ \E p \in puts : ServePut(p) \/ PutFails(p)
    \/ HandleExportCSV \/ HandleOpenExportAllModal \/ CloseExportAll \/ HandleExecuteExportAll
    \/ BulkExported \/ BulkFails \/ ScanToday

LEMMA DeskQuietIsQuiet ==
    ASSUME DeskQuietSteps
    PROVE  DeskQuiet
<1> USE DEF DeskQuiet, query
<1>1. CASE (\E d \in ReportDays : OpenEditor(d)) \/ CloseEditor \/ ToastGoes \/ Undo
  BY <1>1 DEF OpenEditor, CloseEditor, ToastGoes, Undo
<1>2. CASE \E f \in Fields(editing.row) : HandleSaveSession(f)
  BY <1>2 DEF HandleSaveSession
<1>3. CASE \E p \in puts : ServePut(p) \/ PutFails(p)
  BY <1>3 DEF ServePut, PutFails
<1>4. CASE HandleExportCSV \/ HandleOpenExportAllModal \/ CloseExportAll
  BY <1>4 DEF HandleExportCSV, HandleOpenExportAllModal, CloseExportAll
<1>5. CASE HandleExecuteExportAll \/ BulkExported \/ BulkFails \/ ScanToday
  BY <1>5 DEF HandleExecuteExportAll, BulkExported, BulkFails, ScanToday
<1> QED
  BY <1>1, <1>2, <1>3, <1>4, <1>5 DEF DeskQuietSteps

LEMMA DeskCases ==
    ASSUME DeskNext
    PROVE  \/ DeskQuietSteps \/ OpenDesk \/ CloseDesk \/ Debounce
           \/ \E r \in Ranges : SetRange(r)
           \/ \E q \in asked : ServeReport(q) \/ ReportAnswered(q) \/ ReportFails(q)
           \/ \E p \in puts : PutAnswered(p)
BY DEF DeskNext, DeskQuietSteps

\* The corrections: their types, and that they are of rows that were read.
CorrectionsTyped ==
    /\ sessions \in [ReportDays -> Rows]
    /\ editing # NoEdit => editing.day \in ReportDays /\ editing.row \in Rows
    /\ toast # NoEdit => toast.day \in ReportDays /\ toast.row \in Rows
    /\ puts \subseteq Puts

QueryTyped ==
    /\ range \in Ranges \cup {NoRange} /\ settled \in Ranges \cup {NoRange}
    /\ debounced \in BOOLEAN /\ loading \in BOOLEAN /\ error \in BOOLEAN
    /\ rowsLoaded \in Tables
    /\ asked \subseteq Requests

LEMMA DeskTypes == DeskTypeOK <=> CorrectionsTyped /\ QueryTyped
BY DEF DeskTypeOK, CorrectionsTyped, QueryTyped

LEMMA FieldsTyped ==
    ASSUME NEW row \in Rows, NEW f \in Fields(row)
    PROVE  f \in Corrections
<1>1. CASE f = [status |-> "absent", in |-> 0, out |-> 0]
  BY <1>1 DEF Corrections
<1>2. CASE f \in [status : {"present"}, in : IF row.in = 0 THEN {2} ELSE {Keep, 2},
                  out : IF row.out = 0 THEN {Keep, 2} ELSE {Keep, 0, 2}]
  <2>1. f.in \in {Keep, 2} /\ f.out \in {Keep, 0, 2} /\ f.status = "present"
    BY <1>2
  <2>2. f = [status |-> f.status, in |-> f.in, out |-> f.out]
    BY <1>2
  <2>3. f.in \in Int /\ f.out \in Int
    BY <2>1 DEF Keep
  <2> QED
    BY <2>1, <2>2, <2>3 DEF Corrections
<1> QED
  BY <1>1, <1>2 DEF Fields

LEMMA CorrectedRow ==
    ASSUME NEW row \in Rows, NEW p \in Puts
    PROVE  Corrected(row, p) \in Rows /\ Corrected(row, p).n = row.n + 1
<1>1. /\ p.fields.status \in {"none", "present", "absent"} /\ p.fields.in \in Int /\ p.fields.out \in Int
      /\ row.in \in Int /\ row.out \in Int /\ row.n + 1 \in Int
  BY DEF Puts, Corrections, Rows
<1>2. PICK in \in Int, out \in Int, status \in {"none", "present", "absent"}, n \in Int :
          /\ in = (IF p.fields.in = Keep THEN row.in ELSE p.fields.in)
          /\ out = (IF p.fields.out = Keep THEN row.out ELSE p.fields.out)
          /\ status = p.fields.status /\ n = row.n + 1
  BY <1>1
<1>3. Corrected(row, p) = [status |-> status, in |-> in, out |-> out, n |-> n]
  BY <1>2 DEF Corrected
<1> QED
  BY <1>2, <1>3 DEF Rows

LEMMA ScannedRow ==
    ASSUME NEW row \in Rows
    PROVE  \A new : new = [row EXCEPT !.status = "present", !.in = 1] \/ new = [row EXCEPT !.out = 1] =>
               new \in Rows /\ new.n = row.n
<1> DEFINE Status == {"none", "present", "absent"}
<1>1. Rows = [status : Status, in : Int, out : Int, n : Int]
  BY DEF Rows
<1>2. PICK present \in Status : present = "present"
  OBVIOUS
<1>3. PICK one \in Int : one = 1
  OBVIOUS
<1> HIDE DEF Status
<1>4. ASSUME NEW new, new = [row EXCEPT !.status = present, !.in = one] \/ new = [row EXCEPT !.out = one]
      PROVE  new \in Rows /\ new.n = row.n
  BY <1>1, <1>4
<1> QED
  BY <1>2, <1>3, <1>4

LEMMA CorrectionsStep ==
    ASSUME DeskTypeOK, ShownWasRead, DeskNext
    PROVE  CorrectionsTyped'
<1> USE DEF CorrectionsTyped
<1>0. CorrectionsTyped
  BY DeskTypes
<1>1. CASE OpenDesk \/ Debounce \/ \E r \in Ranges : SetRange(r)
  BY <1>0, <1>1 DEF OpenDesk, Debounce, SetRange
<1>2. CASE CloseDesk
  <2>1. \A p \in puts : [p EXCEPT !.of = NoRange] \in Puts
    BY <1>0 DEF Puts
  <2> QED
    BY <1>0, <1>2, <2>1 DEF CloseDesk, NoEdit
<1>3. CASE \E q \in asked : ServeReport(q) \/ ReportAnswered(q) \/ ReportFails(q)
  BY <1>0, <1>3 DEF ServeReport, ReportAnswered, ReportFails
<1>4. ASSUME NEW p \in puts, PutAnswered(p) PROVE CorrectionsTyped'
  <2>1. p.day \in ReportDays /\ p.orig \in Rows
    BY <1>0 DEF Puts
  <2>2. /\ toast' = toast \/ toast' = [day |-> p.day, row |-> p.orig]
        /\ editing' = editing \/ editing' = NoEdit
        /\ puts' \subseteq puts /\ sessions' = sessions
    BY <1>4 DEF PutAnswered
  <2> QED
    BY <1>0, <2>1, <2>2
<1>5. ASSUME NEW d \in ReportDays, OpenEditor(d) PROVE CorrectionsTyped'
  <2>1. rowsLoaded[d] \in Rows
    BY <1>5 DEF OpenEditor, HasPencil, ShownWasRead, ReadIn, DeskTypeOK, Tables
  <2> QED
    BY <1>0, <1>5, <2>1 DEF OpenEditor
<1>6. CASE CloseEditor \/ ToastGoes
  BY <1>0, <1>6 DEF CloseEditor, ToastGoes
<1>7. ASSUME NEW f \in Fields(editing.row), HandleSaveSession(f) PROVE CorrectionsTyped'
  <2> DEFINE p == [kind |-> "save", at |-> "sent", of |-> range, day |-> editing.day, orig |-> editing.row,
                   fields |-> f]
  <2>1. editing.day \in ReportDays /\ editing.row \in Rows /\ f \in Corrections
    BY <1>0, <1>7, FieldsTyped DEF HandleSaveSession
  <2>2. p \in Puts
    BY <2>1 DEF Puts, DeskTypeOK
  <2>3. puts' = puts \cup {p}
    BY <1>7 DEF HandleSaveSession
  <2> HIDE DEF p
  <2> QED
    BY <1>0, <1>7, <2>2, <2>3 DEF HandleSaveSession
<1>8. CASE Undo
  <2> DEFINE f == [status |-> IF toast.row.status = "none" THEN "absent" ELSE toast.row.status,
                   in |-> toast.row.in, out |-> toast.row.out]
             p == [kind |-> "undo", at |-> "sent", of |-> range, day |-> toast.day, orig |-> toast.row, fields |-> f]
  <2>1. toast.day \in ReportDays /\ toast.row \in Rows
    BY <1>0, <1>8 DEF Undo
  <2>2. f \in Corrections
    BY <2>1 DEF Rows, Corrections
  <2>3. puts' = puts \cup {p}
    BY <1>8 DEF Undo
  <2> HIDE DEF f
  <2>4. p \in Puts
    BY <2>1, <2>2 DEF Puts, DeskTypeOK
  <2> HIDE DEF p
  <2> QED
    BY <1>0, <1>8, <2>3, <2>4 DEF Undo
<1>9. ASSUME NEW p \in puts, ServePut(p) PROVE CorrectionsTyped'
  <2>1. p \in Puts /\ sessions[p.day] \in Rows /\ p.day \in ReportDays
    BY <1>0 DEF Puts
  <2>2. [p EXCEPT !.at = "served"] \in Puts
    BY <2>1 DEF Puts
  <2>3. Corrected(sessions[p.day], p) \in Rows
    BY <2>1, CorrectedRow
  <2>4. sessions' \in [ReportDays -> Rows]
    BY <1>0, <1>9, <2>3 DEF ServePut
  <2> QED
    BY <1>0, <1>9, <2>2, <2>4 DEF ServePut
<1>10. ASSUME NEW p \in puts, PutFails(p) PROVE CorrectionsTyped'
  BY <1>0, <1>10 DEF PutFails
<1>11. CASE HandleExportCSV \/ HandleOpenExportAllModal \/ CloseExportAll \/ HandleExecuteExportAll
            \/ BulkExported \/ BulkFails
  BY <1>0, <1>11 DEF HandleExportCSV, HandleOpenExportAllModal, CloseExportAll, HandleExecuteExportAll,
                     BulkExported, BulkFails
<1>12. CASE ScanToday
  <2>1. PICK row : row = sessions[TodayIs] /\ row \in Rows
    BY <1>0, TodayIsADay
  <2>2. PICK new : /\ sessions' = [sessions EXCEPT ![TodayIs] = new]
                   /\ new = [row EXCEPT !.status = "present", !.in = 1] \/ new = [row EXCEPT !.out = 1]
    BY <1>12, <2>1 DEF ScanToday
  <2>3. new \in Rows
    BY <2>1, <2>2, ScannedRow
  <2>4. sessions' \in [ReportDays -> Rows]
    BY <1>0, <2>2, <2>3
  <2>5. UNCHANGED <<editing, toast, puts>>
    BY <1>12 DEF ScanToday
  <2> QED
    BY <1>0, <2>4, <2>5
<1> QED
  BY <1>1, <1>2, <1>3, <1>4, <1>5, <1>6, <1>7, <1>8, <1>9, <1>10, <1>11, <1>12 DEF DeskNext

LEMMA QueryStep ==
    ASSUME DeskTypeOK, OpenPageActs, DeskNext
    PROVE  QueryTyped'
<1> USE DEF QueryTyped
<1>0. QueryTyped
  BY DeskTypes
<1>1. CASE DeskQuietSteps
  BY <1>0, <1>1, DeskQuietIsQuiet DEF DeskQuiet
<1>2. CASE OpenDesk
  BY <1>0, <1>2, TodayIsADay, UnloadedType, SupersededAre DEF OpenDesk, Queries
<1>3. CASE CloseDesk
  BY <1>0, <1>3 DEF CloseDesk
<1>4. CASE Debounce
  <2>1. range # NoRange /\ Generates(range)
    BY <1>4 DEF Debounce, OpenPageActs
  <2>2. PICK q : Asks(q)
    BY <2>1, GeneratesAsks
  <2> QED
    BY <1>0, <1>4, <2>2, SupersededAre DEF Debounce, Asks
<1>5. CASE \E r \in Ranges : SetRange(r)
  BY <1>0, <1>5, SupersededAre DEF SetRange, Queries
<1>6. ASSUME NEW q \in asked, ServeReport(q) PROVE QueryTyped'
  BY <1>0, <1>6, ServedRequest DEF ServeReport
<1>7. ASSUME NEW q \in asked, ReportAnswered(q) PROVE QueryTyped'
  BY <1>0, <1>7 DEF ReportAnswered, Requests
<1>8. ASSUME NEW q \in asked, ReportFails(q) PROVE QueryTyped'
  BY <1>0, <1>8 DEF ReportFails
<1>9. ASSUME NEW p \in puts, PutAnswered(p) PROVE QueryTyped'
  <2>1. CASE UNCHANGED <<asked, loading, error>>
    BY <1>0, <1>9, <2>1 DEF PutAnswered
  <2>2. CASE p.of # NoRange /\ Generates(p.of) /\ p.of = range
    <3>1. PICK q : Asks(q)
      BY <2>2, GeneratesAsks
    <3> QED
      BY <1>0, <1>9, <3>1, SupersededAre DEF PutAnswered, Asks
  <2> QED
    BY <1>9, <2>1, <2>2 DEF PutAnswered, Generates
<1> QED
  BY <1>1, <1>2, <1>3, <1>4, <1>5, <1>6, <1>7, <1>8, <1>9, DeskCases

LEMMA DeskTyped ==
    ASSUME DeskTypeOK, OpenPageActs, ShownWasRead, DeskNext
    PROVE  DeskTypeOK'
<1>1. CorrectionsTyped' /\ QueryTyped'
  BY CorrectionsStep, QueryStep
<1> QED
  BY <1>1 DEF DeskTypeOK, CorrectionsTyped, QueryTyped

\* A change answered to the page that sent it asks for its table again.
LEMMA AnswersAsk ==
    ASSUME DeskTypeOK, NEW p \in puts, PutAnswered(p)
    PROVE  /\ UNCHANGED <<sessions, range, debounced, settled, rowsLoaded, handlers, bulk, lastFile>>
           /\ \/ p.of = range /\ range # NoRange /\ \E q : Asks(q)
              \/ UNCHANGED <<asked, loading, error>> /\ (p.of = range => range = NoRange)
           /\ requeried' = (requeried \/ p.of # range)
<1>1. CASE p.of = range /\ range # NoRange
  <2>1. Generates(p.of)
    BY <1>1 DEF PutAnswered
  <2> QED
    BY <1>1, <2>1, GeneratesAsks DEF PutAnswered
<1>2. CASE p.of # range \/ range = NoRange
  BY <1>2 DEF PutAnswered, Generates
<1> QED
  BY <1>1, <1>2

LEMMA OpenPageStep ==
    ASSUME DeskTypeOK, OpenPageActs, LiveIsOfRange, DeskNext
    PROVE  OpenPageActs' /\ LiveIsOfRange'
<1> USE DEF OpenPageActs, LiveIsOfRange
<1>0. asked \subseteq Requests
  BY DEF DeskTypeOK
<1>a. ASSUME NEW q, Asks(q), range' = range PROVE LiveIsOfRange'
  BY <1>0, <1>a, SupersededAre DEF Asks
<1>1. CASE DeskQuietSteps
  <2>1. range = NoRange => bulk'.at = "closed"
    BY <1>1 DEF DeskQuietSteps, OpenEditor, CloseEditor, HandleSaveSession, Undo, ToastGoes, ServePut, PutFails,
                HandleExportCSV, HandleOpenExportAllModal, CloseExportAll, HandleExecuteExportAll, BulkExported,
                BulkFails, ScanToday, MayExport, NoBulk
  <2> QED
    BY <1>1, <2>1, DeskQuietIsQuiet DEF DeskQuiet
<1>2. CASE OpenDesk
  BY <1>0, <1>2, TodayIsADay, RangesAreDays, SupersededAre DEF OpenDesk, Queries
<1>3. CASE CloseDesk
  BY <1>3 DEF CloseDesk
<1>4. CASE Debounce
  <2>1. range # NoRange /\ Generates(range)
    BY <1>4 DEF Debounce
  <2>2. PICK q : Asks(q)
    BY <2>1, GeneratesAsks
  <2> QED
    BY <1>4, <1>a, <2>1, <2>2 DEF Debounce
<1>5. CASE \E r \in Ranges : SetRange(r)
  BY <1>0, <1>5, RangesAreDays, SupersededAre DEF SetRange, Queries
<1>6. ASSUME NEW q \in asked, ServeReport(q) PROVE OpenPageActs' /\ LiveIsOfRange'
  <2>1. PICK s \in Requests : asked' = (asked \ {q}) \cup {s} /\ s.of = q.of /\ s.live = q.live
    BY <1>6, ServedRequest
  <2> QED
    BY <1>6, <2>1 DEF ServeReport
<1>7. ASSUME NEW q \in asked, ReportAnswered(q) \/ ReportFails(q) PROVE OpenPageActs' /\ LiveIsOfRange'
  BY <1>7 DEF ReportAnswered, ReportFails
<1>8. ASSUME NEW p \in puts, PutAnswered(p) PROVE OpenPageActs' /\ LiveIsOfRange'
  BY <1>8, <1>a, AnswersAsk
<1> QED
  BY <1>1, <1>2, <1>3, <1>4, <1>5, <1>6, <1>7, <1>8, DeskCases

\* What an export writes was read.
LEMMA ExportWasRead ==
    ASSUME NEW of, NEW rows, NEW failed, Exports(of, rows, failed), failed \/ ReadIn(rows, of)
    PROVE  NoFalseAbsence'
BY DEF Exports, NoFalseAbsence, ReadIn

LEMMA ReadStep ==
    ASSUME DeskInv, DeskNext
    PROVE  ShownWasRead' /\ NoFalseAbsence'
<1> USE DEF DeskInv
<1>0. asked \subseteq Requests /\ \A q \in asked : q.at = "served" => ReadIn(q.rows, q.of)
  BY DEF DeskTypeOK, ShownWasRead
<1>a. ASSUME NEW q, Asks(q), UNCHANGED <<range, rowsLoaded, handlers, bulk, lastFile>>
      PROVE  ShownWasRead' /\ NoFalseAbsence'
  <2>1. \A s \in asked' : s.at = "served" => ReadIn(s.rows, s.of)
    BY <1>0, <1>a, SupersededAre DEF Asks
  <2> QED
    BY <1>a, <2>1 DEF ShownWasRead, NoFalseAbsence, TableShows, Asks
<1>1. CASE DeskQuietSteps
  <2>1. UNCHANGED <<range, settled, loading, error, rowsLoaded, asked, handlers>>
    BY <1>1, DeskQuietIsQuiet DEF DeskQuiet
  <2>2. CASE UNCHANGED <<bulk, lastFile>>
    BY <2>1, <2>2 DEF ShownWasRead, NoFalseAbsence, TableShows
  <2>3. CASE HandleExportCSV
    <3>1. NoFalseAbsence'
      BY <2>3, ExportWasRead DEF HandleExportCSV, MayExport, ShownWasRead
    <3> QED
      BY <2>1, <2>3, <3>1 DEF HandleExportCSV, ShownWasRead, TableShows
  <2>4. CASE HandleOpenExportAllModal \/ CloseExportAll \/ BulkFails
    BY <2>1, <2>4 DEF HandleOpenExportAllModal, CloseExportAll, BulkFails, NoBulk, ShownWasRead, NoFalseAbsence,
                      TableShows
  <2>5. CASE HandleExecuteExportAll
    <3>1. range \in Ranges
      BY <2>5 DEF HandleExecuteExportAll, OpenPageActs, DeskTypeOK
    <3>2. bulk'.rows = Read(range) /\ UNCHANGED lastFile
      BY <2>5 DEF HandleExecuteExportAll, ReadAll
    <3>3. ReadIn(bulk'.rows, range)
      BY <3>1, <3>2, ReadDays
    <3> QED
      BY <2>1, <3>2, <3>3 DEF ShownWasRead, NoFalseAbsence, TableShows
  <2>6. CASE BulkExported
    <3>1. NoFalseAbsence'
      BY <2>6, ExportWasRead DEF BulkExported, ShownWasRead
    <3> QED
      BY <2>1, <2>6, <3>1 DEF BulkExported, NoBulk, ShownWasRead, TableShows
  <2> QED
    BY <1>1, <2>2, <2>3, <2>4, <2>5, <2>6
       DEF DeskQuietSteps, OpenEditor, CloseEditor, HandleSaveSession, Undo, ToastGoes, ServePut, PutFails, ScanToday
<1>2. CASE OpenDesk \/ \E r \in Ranges : SetRange(r)
  <2>1. /\ asked' = Superseded /\ loading' = TRUE /\ bulk.at # "exporting"
        /\ UNCHANGED <<handlers, bulk, lastFile>>
    BY <1>2 DEF OpenDesk, SetRange, Queries, OpenPageActs
  <2>2. \A s \in asked' : s.at = "served" => ReadIn(s.rows, s.of)
    BY <1>0, <2>1, SupersededAre
  <2> QED
    BY <2>1, <2>2 DEF ShownWasRead, NoFalseAbsence, TableShows
<1>3. CASE CloseDesk
  BY <1>3 DEF CloseDesk, ShownWasRead, NoFalseAbsence
<1>4. CASE Debounce
  <2>1. PICK q : Asks(q)
    BY <1>4, GeneratesAsks DEF Debounce, OpenPageActs
  <2> QED
    BY <1>4, <1>a, <2>1 DEF Debounce
<1>5. ASSUME NEW q \in asked, ServeReport(q) PROVE ShownWasRead' /\ NoFalseAbsence'
  <2>1. PICK s \in Requests : asked' = (asked \ {q}) \cup {s} /\ ReadIn(s.rows, s.of)
    BY <1>5, ServedRequest
  <2> QED
    BY <1>0, <1>5, <2>1 DEF ServeReport, ShownWasRead, NoFalseAbsence, TableShows
<1>6. ASSUME NEW q \in asked, ReportAnswered(q) \/ ReportFails(q) PROVE ShownWasRead' /\ NoFalseAbsence'
  <2>1. /\ asked' = asked \ {q} /\ UNCHANGED <<range, bulk, lastFile>> /\ Publishes
    BY <1>6 DEF ReportAnswered, ReportFails
  <2>2. range # NoRange /\ ~loading' /\ settled' = range /\ ~error' => ReadIn(rowsLoaded', range)
    <3>1. CASE ReportAnswered(q) /\ q.live
      BY <1>0, <3>1 DEF ReportAnswered, IsCurrentRequest, LiveIsOfRange
    <3>2. CASE ReportAnswered(q) /\ ~q.live
      BY <3>2 DEF ReportAnswered, IsCurrentRequest, ShownWasRead, TableShows
    <3>3. CASE ReportFails(q)
      BY <3>3 DEF ReportFails
    <3> QED
      BY <1>6, <3>1, <3>2, <3>3
  <2>3. handlers' # NoHandlers /\ ~handlers'.failed => ReadIn(handlers'.rows, handlers'.of)
    BY <2>1, <2>2, PublishesShown DEF ShownWasRead
  <2> QED
    BY <1>0, <2>1, <2>2, <2>3 DEF ShownWasRead, NoFalseAbsence, TableShows
<1>7. ASSUME NEW p \in puts, PutAnswered(p) PROVE ShownWasRead' /\ NoFalseAbsence'
  <2>1. CASE \E q : Asks(q)
    BY <1>7, <1>a, <2>1, AnswersAsk
  <2>2. CASE UNCHANGED <<asked, loading, error>>
    BY <1>7, <2>2, AnswersAsk DEF ShownWasRead, NoFalseAbsence, TableShows
  <2> QED
    BY <1>7, <2>1, <2>2, AnswersAsk
<1> QED
  BY <1>1, <1>2, <1>3, <1>4, <1>5, <1>6, <1>7, DeskCases

\* An answer that awaits or a table that is shown misses a change only while the
\* change has yet to be answered: its answer asks for the table anew.
LEMMA FreshStep ==
    ASSUME DeskInv, DeskNext
    PROVE  FreshOrAwaited'
<1> USE DEF DeskInv
<1>0. asked \subseteq Requests /\ puts \subseteq Puts
  BY DEF DeskTypeOK
<1>a. ASSUME NEW q, Asks(q), UNCHANGED range
      PROVE  FreshOrAwaited'
  <2>1. \A s \in asked' : s.live => s.at # "served"
    BY <1>0, <1>a, SupersededAre DEF Asks
  <2>2. q \in asked' /\ q.live
    BY <1>a DEF Asks
  <2> QED
    BY <2>1, <2>2 DEF FreshOrAwaited
<1>b. ASSUME \A d \in ReportDays : sessions'[d].n = sessions[d].n,
             \A p \in puts : p.at = "served" => (p \in puts' \/ requeried'), requeried => requeried',
             UNCHANGED <<range, settled, loading, error, rowsLoaded, asked>>
      PROVE  FreshOrAwaited'
  <2>1. /\ \A q \in asked : q.of \subseteq ReportDays
        /\ range # NoRange => range \subseteq ReportDays
    BY <1>0, RangesAreDays DEF Requests, DeskTypeOK
  <2>2. \A q \in asked : FreshIn(q.rows, q.of) => FreshIn(q.rows, q.of)'
    BY <1>b, <2>1 DEF FreshIn
  <2>3. range # NoRange /\ FreshIn(rowsLoaded, range) => FreshIn(rowsLoaded, range)'
    BY <1>b, <2>1 DEF FreshIn
  <2> QED
    BY <1>b, <2>2, <2>3 DEF FreshOrAwaited, TableShows
<1>1. CASE DeskQuietSteps
  <2>1. UNCHANGED <<range, settled, loading, error, rowsLoaded, asked>>
    BY <1>1, DeskQuietIsQuiet DEF DeskQuiet
  <2>2. CASE UNCHANGED <<sessions, requeried>> /\ puts \subseteq puts'
    BY <1>b, <2>1, <2>2
  <2>3. ASSUME NEW p \in puts, ServePut(p) PROVE FreshOrAwaited'
    <3>1. [p EXCEPT !.at = "served"].at = "served"
      BY <1>0 DEF Puts
    <3> QED
      BY <2>3, <3>1 DEF ServePut, FreshOrAwaited
  <2>4. ASSUME NEW p \in puts, PutFails(p) PROVE FreshOrAwaited'
    BY <1>b, <2>1, <2>4 DEF PutFails
  <2>5. CASE ScanToday
    <3>1. PICK row : row = sessions[TodayIs] /\ row \in Rows
      BY TodayIsADay DEF DeskTypeOK
    <3>2. PICK new : /\ sessions' = [sessions EXCEPT ![TodayIs] = new]
                     /\ new = [row EXCEPT !.status = "present", !.in = 1] \/ new = [row EXCEPT !.out = 1]
      BY <2>5, <3>1 DEF ScanToday
    <3>3. new.n = row.n
      BY <3>1, <3>2, ScannedRow
    <3>4. \A d \in ReportDays : sessions'[d].n = sessions[d].n
      BY <3>1, <3>2, <3>3 DEF DeskTypeOK
    <3> QED
      BY <1>b, <2>1, <2>5, <3>4 DEF ScanToday
  <2> QED
    BY <1>1, <2>2, <2>3, <2>4, <2>5
       DEF DeskQuietSteps, OpenEditor, CloseEditor, HandleSaveSession, Undo, ToastGoes, HandleExportCSV,
           HandleOpenExportAllModal, CloseExportAll, HandleExecuteExportAll, BulkExported, BulkFails
<1>2. CASE OpenDesk \/ \E r \in Ranges : SetRange(r)
  <2>1. asked' = Superseded /\ loading' = TRUE
    BY <1>2 DEF OpenDesk, SetRange, Queries
  <2>2. \A q \in asked' : ~q.live
    BY <1>0, <2>1, SupersededAre
  <2> QED
    BY <2>1, <2>2 DEF FreshOrAwaited, TableShows
<1>3. CASE CloseDesk
  BY <1>3 DEF CloseDesk, FreshOrAwaited
<1>4. CASE Debounce
  <2>1. PICK q : Asks(q)
    BY <1>4, GeneratesAsks DEF Debounce, OpenPageActs
  <2> QED
    BY <1>4, <1>a, <2>1 DEF Debounce
<1>5. ASSUME NEW q \in asked, ServeReport(q) PROVE FreshOrAwaited'
  <2>1. PICK s \in Requests : asked' = (asked \ {q}) \cup {s} /\ s.live = q.live /\ FreshIn(s.rows, s.of)
    BY <1>5, ServedRequest
  <2>2. UNCHANGED <<sessions, range, settled, loading, error, rowsLoaded, puts, requeried>>
    BY <1>5 DEF ServeReport
  <2>3. (\A i \in asked' : ~i.live) => \A i \in asked : ~i.live
    BY <2>1
  <2>4. \A i \in asked' : i = s \/ i \in asked
    BY <2>1
  <2> QED
    BY <2>1, <2>2, <2>3, <2>4 DEF FreshOrAwaited, FreshIn, TableShows
<1>6. ASSUME NEW q \in asked, ReportAnswered(q) PROVE FreshOrAwaited'
  <2>1. asked' = asked \ {q} /\ UNCHANGED <<sessions, range, error, puts, requeried>> /\ q.at = "served"
    BY <1>6 DEF ReportAnswered
  <2>2. CASE q.live
    <3>1. rowsLoaded' = q.rows /\ q.of = range
      BY <1>6, <2>2 DEF ReportAnswered, IsCurrentRequest, LiveIsOfRange
    <3> QED
      BY <2>1, <2>2, <3>1 DEF FreshOrAwaited, FreshIn
  <2>3. CASE ~q.live
    <3>1. UNCHANGED <<rowsLoaded, loading, settled>>
      BY <1>6, <2>3 DEF ReportAnswered, IsCurrentRequest
    <3> QED
      BY <2>1, <2>3, <3>1 DEF FreshOrAwaited, FreshIn, TableShows
  <2> QED
    BY <2>2, <2>3
<1>7. ASSUME NEW q \in asked, ReportFails(q) PROVE FreshOrAwaited'
  BY <1>7 DEF ReportFails, FreshOrAwaited, FreshIn
<1>8. ASSUME NEW p \in puts, PutAnswered(p) PROVE FreshOrAwaited'
  <2>1. CASE \E q : Asks(q)
    BY <1>8, <1>a, <2>1, AnswersAsk
  <2>2. CASE p.of = range /\ range = NoRange
    <3>1. asked' = {} /\ range' = NoRange
      BY <1>8, <2>2, AnswersAsk DEF OpenPageActs, PutAnswered
    <3> QED
      BY <3>1 DEF FreshOrAwaited
  <2>3. CASE p.of # range
    BY <1>8, <2>3, AnswersAsk DEF FreshOrAwaited
  <2> QED
    BY <1>8, <2>1, <2>2, <2>3, AnswersAsk
<1> QED
  BY <1>1, <1>2, <1>3, <1>4, <1>5, <1>6, <1>7, <1>8, DeskCases

LEMMA DeskStep ==
    ASSUME DeskInv, [DeskNext]_deskVars
    PROVE  DeskInv'
<1>1. CASE DeskNext
  BY <1>1, DeskTyped, OpenPageStep, ReadStep, FreshStep DEF DeskInv
<1>2. CASE UNCHANGED deskVars
  BY <1>2 DEF DeskInv, DeskTypeOK, OpenPageActs, LiveIsOfRange, ShownWasRead, NoFalseAbsence, FreshOrAwaited,
              FreshIn, TableShows, deskVars
<1> QED
  BY <1>1, <1>2

LEMMA DeskAlways == DeskSpec => []DeskInv
BY DeskInitInv, DeskStep, PTL DEF DeskSpec

\* With nothing under way the table has every change made at this desk, whatever
\* the order in which changes and tables are answered and ranges are chosen, unless
\* a change was answered after its range was left.
THEOREM TableIsFresh == DeskSpec => []TableFresh
<1>1. DeskInv => TableFresh
  BY DEF DeskInv, FreshOrAwaited, FreshIn, TableFresh
<1> QED
  BY <1>1, DeskAlways, PTL

\* An export never takes a day that was not read for one without attendance,
\* unless the table it exports failed to load.
THEOREM AbsenceWasRead == DeskSpec => []NoFalseAbsence
<1>1. DeskInv => NoFalseAbsence
  BY DEF DeskInv
<1> QED
  BY <1>1, DeskAlways, PTL

\* A time of a scan is lost only to what the user typed or cleared for it, to an
\* absence or to an Undo.
THEOREM ScansAreKept == DeskSpec => ScansKept
<1>1. ASSUME DeskInv, [DeskNext]_deskVars, NEW d \in ReportDays, NEW t \in {"in", "out"},
             sessions[d][t] = 1, sessions'[d][t] # 1
      PROVE  \E p \in puts : /\ p.day = d /\ p.at = "sent"
                             /\ \/ p.kind = "undo" \/ p.fields.status = "absent" \/ p.fields[t] # Keep
  <2>1. sessions \in [ReportDays -> Rows] /\ sessions' # sessions
    BY <1>1 DEF DeskInv, DeskTypeOK
  <2>2. CASE \E p \in puts : ServePut(p)
    <3>1. PICK p \in puts : ServePut(p)
      BY <2>2
    <3>2. sessions' = [sessions EXCEPT ![p.day] = Corrected(sessions[p.day], p)] /\ p.at = "sent" /\ p.day \in ReportDays
      BY <1>1, <3>1 DEF ServePut, DeskInv, DeskTypeOK, Puts
    <3>3. p.day = d
      BY <1>1, <2>1, <3>2
    <3>4. p.fields[t] # Keep
      <4>1. t = "in" \/ t = "out"
        BY <1>1
      <4>2. Corrected(sessions[d], p)[t] # 1
        BY <1>1, <2>1, <3>2, <3>3
      <4> QED
        BY <1>1, <4>1, <4>2 DEF Corrected
    <3> QED
      BY <3>1, <3>2, <3>3, <3>4
  <2>3. CASE ScanToday
    <3>1. TodayIs \in ReportDays /\ sessions[TodayIs] \in Rows
      BY <2>1, TodayIsADay
    <3>2. PICK row : row = sessions[TodayIs] /\ row \in Rows
      BY <3>1
    <3>3. sessions' = [sessions EXCEPT ![TodayIs] =
              IF row.in = 0 THEN [row EXCEPT !.status = "present", !.in = 1] ELSE [row EXCEPT !.out = 1]]
      BY <2>3, <3>2 DEF ScanToday
    <3>4. row[t] = 1 => /\ row.in = 0 => [row EXCEPT !.status = "present", !.in = 1][t] = 1
                        /\ [row EXCEPT !.out = 1][t] = 1
      BY <3>2 DEF Rows
    <3> QED
      BY <1>1, <2>1, <3>2, <3>3, <3>4
  <2>4. sessions' = sessions \/ ScanToday \/ \E q \in puts : ServePut(q)
    BY <1>1 DEF DeskNext, deskVars, query, OpenDesk, CloseDesk, SetRange, Debounce, ServeReport, ReportAnswered, ReportFails,
                OpenEditor, CloseEditor, HandleSaveSession, Undo, ToastGoes, PutAnswered, PutFails, HandleExportCSV,
                HandleOpenExportAllModal, CloseExportAll, HandleExecuteExportAll, BulkExported, BulkFails
  <2> QED
    BY <2>1, <2>2, <2>3, <2>4
<1>2. DeskInv /\ [DeskNext]_deskVars =>
        [\A d \in ReportDays : \A t \in {"in", "out"} :
          sessions[d][t] = 1 /\ sessions'[d][t] # 1 =>
              \E p \in puts : /\ p.day = d /\ p.at = "sent"
                              /\ \/ p.kind = "undo" \/ p.fields.status = "absent" \/ p.fields[t] # Keep]_deskVars
  BY <1>1
<1> QED
  BY <1>2, DeskAlways, PTL DEF DeskSpec, ScansKept
================================================================================
