------------------------------ MODULE CloudSync ------------------------------
(***************************************************************************)
(* The exchange of one paired computer with the cloud                      *)
(* (app/src/electron/managers/BackgroundSyncManager.ts, syncChunks.ts) and *)
(* the routes of the local backend it uses (server/api/routes/attendance.py*)
(* and maintenance.py): export of what changed since the last boundary,    *)
(* upload in chunks that survive a restart, download of the directory, and *)
(* the remote wipe.                                                        *)
(*                                                                         *)
(* The directory is one row, a group or a member, that this computer and   *)
(* others edit; attendance is a set of records that only this computer     *)
(* changes.  The cloud is external: it accepts an edit made on its current *)
(* revision, keeps its own revision otherwise, and recognizes a chunk that *)
(* it has taken before.  The manager is one JavaScript thread, so a step   *)
(* is the code between two awaits.  A route of the backend reads the row in *)
(* one step and writes it in a later one: nothing is locked between them.  *)
(***************************************************************************)
EXTENDS Integers, Sequences, FiniteSets

CONSTANTS
    Records,        \* attendance records (and visits) of this computer
    MaxEdits,       \* bound on edits of records and of the row, here and elsewhere, and the wipe
    MaxTime,        \* bound on the local clock
    MaxTroubles,    \* bound on failed requests, lost answers and ends of the application
    None            \* what is not there

ASSUME BoundsAssumption ==
    /\ {MaxEdits, MaxTroubles} \subseteq Nat
    /\ MaxTime \in Nat \ {0}

\* What is stored and sent: the row, what is sent of it once it is edited, a chunk
\* (SyncPushPayload) of it and of changed records, the acknowledgements, a pending
\* upload.
Rows == [val : Int, version : Nat, base : Nat, dirty : BOOLEAN]
EditedRows == [val : Int, version : Nat, base : Nat]
Chunks == [row : EditedRows \cup {None}, records : [Records -> Nat]]
Acks == [version : Nat, accepted : Nat]
Uploads == [exportedAt : Nat, chunks : Seq(Chunks), next : Nat, acknowledged : Acks,
            rejected : BOOLEAN]

ASSUME NoneAssumption == None \notin Uploads /\ None \notin Rows

VARIABLES
    now,        \* the trusted clock, in the steps the export cursor tells apart
    row,        \* the directory row in the local database
    records,    \* the records in the local database
    edits,      \* how many edits there have been: each has a number of its own
    editing,    \* the row as the request of the user's edit has read it
    late,       \* imports of the row whose caller has given up
    upload,     \* sync.pendingUpload
    acks,       \* sync.pendingAcknowledgements
    lastSyncedAt, \* sync.lastSyncedAt
    receipt,    \* sync.commandReceipts of the wipe command
    sync,       \* performSync, from one await to the next
    queued,     \* pendingSyncRequested, pendingPullRequested
    command,    \* pollCommands and executeCommand, likewise
    cloud,      \* what the cloud holds
    mine,       \* history: the latest edit of the row made here
    delivered,  \* history: whether the cloud was sent that edit
    wiped,      \* history: edits up to this one have been wiped
    wipes,      \* history: how often the database was wiped
    troubles    \* failures so far

stored == <<upload, acks, lastSyncedAt, receipt>>
history == <<mine, delivered, wiped, wipes>>
requests == <<editing, late>>
vars == <<now, row, records, edits, requests, stored, sync, queued, command, cloud, history, troubles>>

(***************************************************************************)
(* Values.  The number of an edit stands for what it made of a record or   *)
(* of the row.                                                             *)
(***************************************************************************)
Gone == -1   \* is_deleted, is_active false

\* emptyAcknowledgements: the version of the row the cloud has answered for,
\* and the revision it gave an accepted edit.
EmptyAcks == [version |-> 0, accepted |-> 0]

\* SyncPushPayload: an edited row, and the changed records with their changes.
Chunk(edited, changed) == [row |-> edited, records |-> changed]
NoChanges == [r \in Records |-> 0]

\* What runs between two exchanges.
Idle == [at |-> "idle", acks |-> EmptyAcks, boundary |-> 0,
         pushed |-> FALSE, answer |-> 0, page |-> None, read |-> None]

\* A destructive command keeps performSync out (isWiping).
IsWiping == command \in {"waiting", "faces", "failed"}

Init ==
    /\ now = 1
    /\ row = [val |-> 0, version |-> 1, base |-> 1, dirty |-> FALSE]
    /\ records = [r \in Records |-> [change |-> 0, at |-> 0]]
    /\ edits = 0
    /\ editing = None
    /\ late = {}
    /\ upload = None
    /\ acks = None
    /\ lastSyncedAt = 0
    /\ receipt = "none"
    /\ sync = Idle
    /\ queued = {}
    /\ command = "idle"
    /\ cloud = [revision |-> 1, val |-> 0, records |-> NoChanges,
                taken |-> 0, answer |-> 0, wipe |-> "none"]
    /\ mine = 0
    /\ delivered = TRUE
    /\ wiped = 0
    /\ wipes = 0
    /\ troubles = 0

(***************************************************************************)
(* Those who change the data.                                              *)
(***************************************************************************)
Tick ==
    /\ now < MaxTime
    /\ now' = now + 1
    /\ UNCHANGED <<row, records, edits, requests, stored, sync, queued, command, cloud, history,
                   troubles>>

\* The bound on edits leaves room for the one that is being saved.
MoreEdits == edits + (IF editing = None THEN 0 ELSE 1) < MaxEdits

\* The route of an edit reads the row, which a removed one has not.  The user
\* saves one change of a row at a time.
EditReads ==
    /\ editing = None /\ MoreEdits
    /\ row.val # Gone
    /\ editing' = row
    /\ UNCHANGED <<now, row, records, edits, late, stored, sync, queued, command, cloud, history,
                   troubles>>

\* An UPDATE writes the columns that differ from the row as it was read, whatever
\* the row is by then; a removal is a column of its own.
Written(read, new) ==
    [val |-> IF new.val = read.val \/ (row.val = Gone /\ read.val # Gone) THEN row.val ELSE new.val,
     version |-> IF new.version = read.version THEN row.version ELSE new.version,
     base |-> IF new.base = read.base THEN row.base ELSE new.base,
     dirty |-> IF new.dirty = read.dirty THEN row.dirty ELSE new.dirty]

\* track_directory_edits: a local edit bumps the version and marks the row.
EditCommits ==
    /\ editing # None
    /\ edits' = edits + 1
    /\ row' = Written(editing, [editing EXCEPT !.val = edits + 1, !.version = @ + 1, !.dirty = TRUE])
    /\ editing' = None
    /\ mine' = edits + 1
    /\ delivered' = FALSE
    /\ UNCHANGED <<now, records, late, stored, sync, queued, command, cloud, wiped, wipes, troubles>>

\* A scan, a correction or a void stamps what it writes with the time.
ChangeRecord(r) ==
    /\ MoreEdits
    /\ edits' = edits + 1
    /\ records' = [records EXCEPT ![r] = [change |-> edits + 1, at |-> now]]
    /\ UNCHANGED <<now, row, requests, stored, sync, queued, command, cloud, history, troubles>>

\* Another computer, or an administrator, edits or removes the row.
CloudEdit ==
    /\ MoreEdits
    /\ edits' = edits + 1
    /\ \E val \in {edits + 1, Gone} :
           cloud' = [cloud EXCEPT !.revision = @ + 1, !.val = val]
    /\ UNCHANGED <<now, row, records, requests, stored, sync, queued, command, history, troubles>>

\* An administrator orders the wipe.
OrderWipe ==
    /\ MoreEdits
    /\ edits' = edits + 1
    /\ cloud.wipe = "none"
    /\ cloud' = [cloud EXCEPT !.wipe = "pending"]
    /\ UNCHANGED <<now, row, records, requests, stored, sync, queued, command, history, troubles>>

(***************************************************************************)
(* performSync.                                                            *)
(***************************************************************************)
\* Everything of a pending upload has been sent, and only the end of the run was
\* missed.
Sent(pending) == pending.next = Len(pending.chunks)

\* The state of a run that starts on what is stored: a pending upload is
\* resumed as it is, unless the cloud has rejected it.
Started(pullOnly, pending, acknowledged) ==
    LET fresh == pending = None \/ pending.rejected
        sent == ~fresh /\ Sent(pending) IN
    [Idle EXCEPT !.at = CASE pullOnly \/ sent -> "pull"
                          [] fresh /\ ~pullOnly -> "export"
                          [] OTHER -> "push",
                 !.pushed = ~pullOnly /\ sent,
                 !.acks = IF pending # None THEN pending.acknowledged
                          ELSE IF acknowledged # None THEN acknowledged
                          ELSE EmptyAcks]

\* A run in progress is not disturbed, it is repeated.
PerformSync(pullOnly) ==
    /\ ~IsWiping
    /\ IF sync.at = "idle"
       THEN sync' = Started(pullOnly, upload, acks) /\ UNCHANGED queued
       ELSE queued' = queued \cup {IF pullOnly THEN "pull" ELSE "full"} /\ UNCHANGED sync
    /\ UNCHANGED <<now, row, records, edits, requests, stored, command, cloud, history, troubles>>

\* The interval, the catch-up and debounce timers, and "Sync Now".
TimerFires == PerformSync(FALSE)

\* A notification of the cloud only downloads.
SyncRequired == PerformSync(TRUE)

\* A seeded bug: the cursor moves to the end of the exchange.
CursorNow == IF sync.pushed THEN now ELSE lastSyncedAt

\* The boundary of the export becomes the cursor once all of it is uploaded.
Cursor == IF sync.pushed THEN upload.exportedAt ELSE lastSyncedAt

\* The end of a run: acknowledgements wait for a download that succeeds, and
\* what was asked for meanwhile is started.
Finish(pulled) ==
    LET pending == IF sync.pushed THEN None ELSE upload
        waiting == IF pulled THEN None ELSE sync.acks IN
    /\ lastSyncedAt' = Cursor
    /\ acks' = waiting
    /\ upload' = pending
    /\ sync' = IF queued = {} THEN Idle ELSE Started("full" \notin queued, pending, waiting)
    /\ queued' = {}
    /\ UNCHANGED receipt

Trouble == troubles < MaxTroubles /\ troubles' = troubles + 1

\* The export route takes its boundary before it reads any table.
TakeBoundary ==
    /\ sync.at = "export"
    /\ sync' = [sync EXCEPT !.at = "rows", !.boundary = now]
    /\ UNCHANGED <<now, row, records, edits, requests, stored, queued, command, cloud, history, troubles>>

\* What a chunk that was accepted before a rejection need not carry again.
AcceptedChunks == IF upload = None THEN <<>> ELSE SubSeq(upload.chunks, 1, upload.next)
AlreadyAccepted(r, change) ==
    \E i \in DOMAIN AcceptedChunks : AcceptedChunks[i].records[r] = change

\* The row is exported while it is marked, records when they changed at or
\* after the cursor.
ExportedRow ==
    LET edited == [val |-> row.val, version |-> row.version, base |-> row.base] IN
    IF row.dirty /\ \A i \in DOMAIN AcceptedChunks : AcceptedChunks[i].row # edited
    THEN edited ELSE None
ExportedRecords ==
    [r \in Records |-> IF /\ records[r].at >= lastSyncedAt
                          /\ ~AlreadyAccepted(r, records[r].change)
                       THEN records[r].change ELSE 0]

\* buildSyncChunks: one request, or several when it would be too large, the
\* directory before the records.  There is always at least one.
Packings(edited, changed) ==
    {<<Chunk(edited, changed)>>} \cup
    IF edited # None /\ changed # NoChanges
    THEN {<<Chunk(edited, NoChanges), Chunk(None, changed)>>} ELSE {}

ReadRows ==
    /\ sync.at = "rows"
    /\ \E chunks \in Packings(ExportedRow, ExportedRecords) :
           upload' = [exportedAt |-> sync.boundary, chunks |-> AcceptedChunks \o chunks,
                      next |-> Len(AcceptedChunks), acknowledged |-> sync.acks,
                      rejected |-> FALSE]
    /\ sync' = [sync EXCEPT !.at = "push", !.boundary = 0]
    /\ cloud' = [cloud EXCEPT !.taken = 0, !.answer = 0]
    /\ UNCHANGED <<now, row, records, edits, requests, acks, lastSyncedAt, receipt, queued, command,
                   history, troubles>>

\* A failed export leaves the download to be done.
ExportFails ==
    /\ sync.at \in {"export", "rows"}
    /\ Trouble
    /\ sync' = [sync EXCEPT !.at = "pull", !.boundary = 0]
    /\ UNCHANGED <<now, row, records, edits, requests, stored, queued, command, cloud, history>>

(***************************************************************************)
(* The upload, a chunk at a time.                                          *)
(***************************************************************************)
Current == upload.chunks[upload.next + 1]

\* The cloud takes a chunk it has not seen: records by their id, the row if it
\* was edited on the current revision.  The answer names the revision given.
Taken(chunk) ==
    LET kept == chunk.row = None \/ chunk.row.base # cloud.revision IN
    [cloud EXCEPT !.records = [r \in Records |-> IF chunk.records[r] > 0 THEN chunk.records[r]
                                                 ELSE cloud.records[r]],
                  !.revision = IF kept THEN @ ELSE @ + 1,
                  !.val = IF kept THEN @ ELSE chunk.row.val,
                  !.taken = upload.next + 1,
                  !.answer = IF kept THEN 0 ELSE cloud.revision + 1]

PushChunk ==
    /\ sync.at = "push"
    /\ cloud' = IF cloud.taken = upload.next + 1 THEN cloud ELSE Taken(Current)
    /\ sync' = [sync EXCEPT !.at = "sent", !.answer = cloud'.answer]
    /\ delivered' = (delivered \/ (Current.row # None /\ Current.row.val = mine))
    /\ UNCHANGED <<now, row, records, edits, requests, stored, queued, command, mine, wiped, wipes,
                   troubles>>

\* A seeded bug: the version of the row when the answer comes.
AcknowledgedNow ==
    IF Current.row = None THEN sync.acks
    ELSE [version |-> row.version,
          accepted |-> IF sync.answer > 0 THEN sync.answer ELSE sync.acks.accepted]

\* The versions sent are acknowledged, an accepted revision replaces an earlier
\* one; a refused edit leaves the earlier one.
Acknowledged ==
    IF Current.row = None THEN sync.acks
    ELSE [version |-> Current.row.version,
          accepted |-> IF sync.answer > 0 THEN sync.answer ELSE sync.acks.accepted]

PushAnswered ==
    /\ sync.at = "sent"
    /\ upload' = [upload EXCEPT !.next = @ + 1, !.acknowledged = Acknowledged]
    /\ sync' = [sync EXCEPT !.at = IF upload.next + 1 = Len(upload.chunks) THEN "pull" ELSE "push",
                            !.pushed = upload.next + 1 = Len(upload.chunks),
                            !.acks = Acknowledged, !.answer = 0]
    /\ cloud' = [cloud EXCEPT !.taken = 0, !.answer = 0]
    /\ UNCHANGED <<now, row, records, edits, requests, acks, lastSyncedAt, receipt, queued, command,
                   history, troubles>>

\* The chunk is taken, but its answer is lost, or the policy it carries cannot
\* be applied: it stays the next one, and the download follows.
PushUnconfirmed ==
    /\ sync.at = "sent"
    /\ Trouble
    /\ \E known \in {sync.acks, Acknowledged} :
           sync' = [sync EXCEPT !.at = "pull", !.acks = known, !.answer = 0]
    /\ UNCHANGED <<now, row, records, edits, requests, stored, queued, command, cloud, history>>

\* A seeded bug: nobody handles the error, and isSyncing stays set.
PushFailsUnhandled ==
    /\ sync.at = "push"
    /\ Trouble
    /\ sync' = [sync EXCEPT !.at = "stuck"]
    /\ UNCHANGED <<now, row, records, edits, requests, stored, queued, command, cloud, history>>

\* The request fails, is limited (429), or needs a newer cloud; a payload that
\* is rejected (400, 402, 422) will be exported anew.
PushFails ==
    /\ sync.at = "push"
    /\ Trouble
    /\ \E rejected \in BOOLEAN : upload' = [upload EXCEPT !.rejected = @ \/ rejected]
    /\ sync' = [sync EXCEPT !.at = "pull"]
    /\ UNCHANGED <<now, row, records, edits, requests, acks, lastSyncedAt, receipt, queued, command, cloud,
                   history>>

(***************************************************************************)
(* pullMetadata and import_metadata.                                       *)
(***************************************************************************)
\* The page carries the row of the cloud as it is when it is asked for.
PullPage ==
    /\ sync.at = "pull"
    /\ sync' = [sync EXCEPT !.at = "page", !.page = [revision |-> cloud.revision, val |-> cloud.val]]
    /\ UNCHANGED <<now, row, records, edits, requests, stored, queued, command, cloud, history, troubles>>

\* _accept_remote: a newer edit is kept; its base advances when the revision is
\* the one an earlier edit was given.  Removals are always adopted.
KeepsEdit(import) ==
    import.read.dirty /\ import.page.val # Gone /\ import.read.version # import.acks.version

\* What import_metadata makes of the row as it has read it; nothing is marked.
Imported(import) ==
    LET read == import.read
        page == import.page IN
    IF page.revision < read.base THEN read
    ELSE IF KeepsEdit(import)
    THEN [read EXCEPT !.base = IF import.acks.accepted = page.revision THEN page.revision ELSE @]
    ELSE [read EXCEPT !.val = page.val, !.base = page.revision, !.dirty = FALSE]

\* The import of the run, which has read the row or not.
OwnImport == [page |-> sync.page, acks |-> sync.acks, read |-> sync.read]

ImportReads ==
    /\ sync.at = "page"
    /\ sync' = [sync EXCEPT !.at = "import", !.read = row]
    /\ UNCHANGED <<now, row, records, edits, requests, stored, queued, command, cloud, history,
                   troubles>>

\* What it makes of the row is written, and its answer ends the run or is lost.
ImportCommits ==
    /\ sync.at = "import"
    /\ row' = Written(sync.read, Imported(OwnImport))
    /\ \/ Finish(TRUE) /\ UNCHANGED troubles
       \/ Finish(FALSE) /\ Trouble
    /\ UNCHANGED <<now, records, edits, requests, command, cloud, history>>

\* The download or the import fails.
PullFails ==
    /\ sync.at \in {"pull", "page", "import"}
    /\ Trouble
    /\ Finish(FALSE)
    /\ UNCHANGED <<now, row, records, edits, requests, command, cloud, history>>

\* The import is not waited for any longer, but the backend does not stop it.
ImportAbandoned ==
    /\ sync.at \in {"page", "import"}
    /\ Trouble
    /\ late' = late \cup {OwnImport}
    /\ UNCHANGED <<now, row, records, edits, editing, cloud, history>>

ImportTimesOut ==
    /\ ImportAbandoned
    /\ Finish(FALSE)
    /\ UNCHANGED command

LateImportReads ==
    /\ \E import \in late :
           /\ import.read = None
           /\ late' = (late \ {import}) \cup {[import EXCEPT !.read = row]}
    /\ UNCHANGED <<now, row, records, edits, editing, stored, sync, queued, command, cloud, history,
                   troubles>>

LateImportCommits ==
    /\ \E import \in late :
           /\ import.read # None
           /\ row' = Written(import.read, Imported(import))
           /\ late' = late \ {import}
    /\ UNCHANGED <<now, records, edits, editing, stored, sync, queued, command, cloud, history,
                   troubles>>

(***************************************************************************)
(* pollCommands and executeCommand, for a wipe.                            *)
(***************************************************************************)
\* A seeded bug: the receipt is left to the end.
IntentUnrecorded == "none"

\* What the receipt says until the outcome is known.
Intent == "interrupted"

\* The run in progress is aborted: whatever it awaits fails, it finishes without a
\* download, and nothing queued is started.
Aborted ==
    /\ sync' = Idle
    /\ queued' = {}
    /\ IF sync.at = "idle" THEN UNCHANGED <<upload, acks, lastSyncedAt>>
       ELSE /\ lastSyncedAt' = Cursor
            /\ acks' = sync.acks
            /\ upload' = IF sync.pushed THEN None ELSE upload

\* The commands asked for are those the cloud has no acknowledgement of, one poll
\* at a time.
Asked == command = "idle" /\ cloud.wipe = "pending"

\* The receipt is stored before anything happens, and the run is aborted.
ExecuteCommand ==
    /\ Asked /\ receipt = "none"
    /\ command' = "waiting"
    /\ receipt' = Intent
    /\ Aborted
    /\ \/ ImportAbandoned
       \/ UNCHANGED <<now, row, records, edits, requests, cloud, history, troubles>>

\* A command that has a receipt is only acknowledged again.
CommandKnown ==
    /\ Asked /\ receipt # "none"
    /\ command' = "acknowledging"
    /\ UNCHANGED <<now, row, records, edits, requests, stored, sync, queued, cloud, history, troubles>>

\* remote_wipe_data: attendance is deleted and the directory retired first, in
\* a transaction of its own that marks no row as edited.
WipeAttendance ==
    /\ command = "waiting"
    /\ command' = "faces"
    /\ records' = [r \in Records |-> [change |-> 0, at |-> 0]]
    /\ row' = [row EXCEPT !.val = Gone]
    /\ wiped' = edits
    /\ wipes' = wipes + 1
    /\ UNCHANGED <<now, edits, requests, stored, sync, queued, cloud, mine, delivered, troubles>>

\* The backend does not answer, fails, or clears the attendance and then cannot
\* remove the faces.
WipeFails ==
    /\ command \in {"waiting", "faces"}
    /\ Trouble
    /\ command' = "failed"
    /\ UNCHANGED <<now, row, records, edits, requests, stored, sync, queued, cloud, history>>

\* A seeded bug: the pending upload outlives the wipe.
UploadKept == upload

\* What was to be uploaded is local data too.
UploadAfterWipe == None

\* Then the faces are removed, and what was going to be uploaded is forgotten
\* with the data.
WipeDone ==
    /\ command = "faces"
    /\ command' = "acknowledging"
    /\ upload' = UploadAfterWipe
    /\ acks' = None
    /\ lastSyncedAt' = 0
    /\ receipt' = "completed"
    /\ UNCHANGED <<now, row, records, edits, requests, sync, queued, cloud, history, troubles>>

WipeFailed ==
    /\ command = "failed"
    /\ command' = "acknowledging"
    /\ receipt' = "failed"
    /\ UNCHANGED <<now, row, records, edits, requests, upload, acks, lastSyncedAt, sync, queued, cloud,
                   history, troubles>>

\* The acknowledgement may be lost; the command is then offered again.
Acknowledge ==
    /\ command = "acknowledging"
    /\ command' = "idle"
    /\ \/ cloud' = [cloud EXCEPT !.wipe = "acknowledged"] /\ UNCHANGED troubles
       \/ Trouble /\ UNCHANGED cloud
    /\ UNCHANGED <<now, row, records, edits, requests, stored, sync, queued, history>>

\* The application and its backend end: what is stored and what is committed
\* remains.
Crash ==
    /\ Trouble
    /\ sync' = Idle
    /\ queued' = {}
    /\ command' = "idle"
    /\ editing' = None
    /\ late' = {}
    /\ UNCHANGED <<now, row, records, edits, stored, cloud, history>>

LateImport == LateImportReads \/ LateImportCommits
SyncStep ==
    \/ TakeBoundary \/ ReadRows \/ PushChunk \/ PushAnswered \/ PullPage
    \/ ImportReads \/ ImportCommits
CommandStep ==
    \/ ExecuteCommand \/ CommandKnown \/ WipeAttendance \/ WipeDone \/ WipeFailed \/ Acknowledge
Next ==
    \/ Tick
    \/ EditReads \/ EditCommits
    \/ \E r \in Records : ChangeRecord(r)
    \/ CloudEdit \/ OrderWipe
    \/ TimerFires
    \/ SyncRequired
    \/ SyncStep
    \/ LateImport
    \/ ExportFails \/ PushUnconfirmed \/ PushFails \/ PullFails \/ ImportTimesOut
    \/ CommandStep
    \/ WipeFails
    \/ Crash

\* The interval timer keeps asking for a full exchange, requests end, those that
\* nobody waits for too, and the command timer keeps polling.  Failures are faults and are bounded.
Fairness ==
    /\ WF_vars(TimerFires)
    /\ WF_vars(SyncStep)
    /\ WF_vars(CommandStep)
    /\ WF_vars(EditCommits)
    /\ WF_vars(LateImport)

Spec == Init /\ [][Next]_vars /\ Fairness

(***************************************************************************)
(* Properties.                                                             *)
(***************************************************************************)
Pages == [revision : Nat, val : Int]
Imports == [page : Pages, acks : Acks, read : Rows \cup {None}]
Syncs == [at : {"idle", "export", "rows", "push", "sent", "pull", "page", "import"}, acks : Acks,
          boundary : Nat, pushed : BOOLEAN, answer : Nat, page : Pages \cup {None},
          read : Rows \cup {None}]
Clouds == [revision : Nat, val : Int, records : [Records -> Nat], taken : Nat,
           answer : Nat, wipe : {"none", "pending", "acknowledged"}]

\* The variables have their types.
TypeOK ==
    /\ now \in Nat /\ edits \in Nat /\ lastSyncedAt \in Nat
    /\ row \in Rows
    /\ editing \in Rows \cup {None} /\ late \subseteq Imports
    /\ records \in [Records -> [change : Nat, at : Nat]]
    /\ upload \in Uploads \cup {None}
    /\ acks \in Acks \cup {None}
    /\ receipt \in {"none", "interrupted", "completed", "failed"}
    /\ sync \in Syncs
    /\ queued \subseteq {"full", "pull"}
    /\ command \in {"idle", "waiting", "faces", "failed", "acknowledging"}
    /\ cloud \in Clouds
    /\ mine \in Nat /\ delivered \in BOOLEAN /\ wiped \in Nat /\ wipes \in Nat /\ troubles \in Nat

\* A change of a record is in the cloud, or it is recent enough for the next
\* export, whatever failed, was retried or interrupted: the cursor never passes
\* a change that the cloud does not have.
NothingForgotten ==
    \A r \in Records :
        records[r].change > 0 /\ cloud.records[r] # records[r].change =>
            records[r].at >= lastSyncedAt

\* The row holds the latest edit made here, and the cloud was not sent it.
Unsent == row.dirty /\ row.val = mine /\ ~delivered

\* The step is of an import that read the row before it last changed.
Overtaken ==
    \E import \in late \cup {OwnImport} :
        import.read \notin {None, row} /\ row' = Written(import.read, Imported(import))

\* A download never overwrites a local edit of the directory that the cloud has
\* not been sent, nor takes its mark, and an edit that is saved is to be sent: only
\* a removal, or two requests that each read the row before the other wrote it,
\* lose one.
UnsentEditsKept ==
    [][/\ Unsent /\ mine' = mine /\ ~delivered' =>
             Unsent' \/ row'.val = Gone \/ Overtaken
       /\ mine' # mine => Unsent' \/ editing # row]_vars

\* Once the wipe is reported as completed, nothing from before it reaches the
\* cloud any more.
WipedStaysLocal ==
    [][\A r \in Records :
           receipt = "completed" /\ cloud'.records[r] # cloud.records[r] =>
               cloud'.records[r] > wiped]_vars

\* A wipe is executed at most once, although it is offered again until its
\* acknowledgement arrives, and whatever is interrupted.
WipedOnce == wipes <= 1

\* When edits and failures end, the cloud and this computer agree.
Agree ==
    /\ row.val = cloud.val
    /\ ~row.dirty
    /\ \A r \in Records : records[r].change > 0 => cloud.records[r] = records[r].change
Converges == <>[]Agree
=============================================================================
