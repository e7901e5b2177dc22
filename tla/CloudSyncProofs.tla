---------------------------- MODULE CloudSyncProofs ----------------------------
(***************************************************************************)
(* Proofs about CloudSync: for any records, and whatever number of edits,  *)
(* failures, lost answers and restarts, no change is forgotten, no edit is *)
(* overwritten before it was sent, and the wipe happens once and is final. *)
(***************************************************************************)
EXTENDS CloudSync, SequenceTheorems, TLAPS

(***************************************************************************)
(* What an exchange may rely on.                                           *)
(***************************************************************************)
\* A run that pushes has a next chunk; one that has pushed everything has a
\* cursor to store; nothing runs during a wipe; the cloud has taken the next
\* chunk or not.
Resumable ==
    /\ sync.at \in {"push", "sent"} => upload # None /\ upload.next < Len(upload.chunks)
    /\ sync.pushed => /\ sync.at \in {"pull", "page", "import"}
                      /\ upload # None /\ upload.next = Len(upload.chunks)
    /\ IsWiping => sync.at = "idle"
    /\ upload # None =>
           /\ upload.next <= Len(upload.chunks)
           /\ cloud.taken \in {0, upload.next + 1}
    /\ sync.at = "sent" => cloud.taken = upload.next + 1
    /\ sync.at \in {"page", "import"} => sync.page \in Pages
    /\ sync.at = "import" => sync.read \in Rows

\* Whatever was read as a time is past.
InThePast ==
    /\ \A r \in Records : records[r].at <= now
    /\ sync.boundary <= now /\ lastSyncedAt <= now
    /\ upload # None => upload.exportedAt <= now

\* The chunk at i has reached the cloud.
Reached(i) == i <= upload.next \/ i = cloud.taken

\* Changes have growing numbers: what is in the cloud or in a chunk is not newer
\* than the record, chunks are in the order of the changes, and the cloud is as
\* new as what reached it and not newer than what did not.
OrderedChunks(r) ==
    \A i \in 1..Len(upload.chunks) :
        /\ upload.chunks[i].records[r] <= edits
        /\ records[r].change > 0 => upload.chunks[i].records[r] <= records[r].change
        /\ \A j \in i + 1..Len(upload.chunks) :
               upload.chunks[j].records[r] > 0 => upload.chunks[i].records[r] <= upload.chunks[j].records[r]
        /\ Reached(i) => upload.chunks[i].records[r] <= cloud.records[r]
        /\ ~Reached(i) /\ upload.chunks[i].records[r] > 0 => cloud.records[r] <= upload.chunks[i].records[r]

Ordered ==
    \A r \in Records :
        /\ records[r].change <= edits /\ cloud.records[r] <= edits
        /\ records[r].change > 0 => cloud.records[r] <= records[r].change
        /\ upload # None => OrderedChunks(r)

\* Of the changes before the boundary of the upload, those the cloud does not
\* have are in a chunk that is still to be sent.
Covered ==
    upload # None =>
        \A r \in Records :
            records[r].change > 0 /\ records[r].at < upload.exportedAt =>
                \/ cloud.records[r] = records[r].change
                \/ \E i \in upload.next + 1..Len(upload.chunks) :
                       upload.chunks[i].records[r] = records[r].change

\* The acknowledgements there are: of the run, stored, of the upload, and of the
\* imports that nobody waits for.
HeldByRuns(ack) ==
    \/ ack = sync.acks
    \/ acks # None /\ ack = acks
    \/ upload # None /\ ack = upload.acknowledged
Held(ack) ==
    \/ HeldByRuns(ack)
    \/ \E import \in late : ack = import.acks

\* The values of the row that come from the cloud.
Remote(val) ==
    \/ val = cloud.val
    \/ sync.at \in {"page", "import"} /\ val = sync.page.val
    \/ \E import \in late : val = import.page.val

\* Edits have numbers of their own: the latest one made here is in the cloud only
\* if it was sent.  An edit that is being saved is of the current version.
Numbered ==
    /\ mine <= edits /\ row.val <= edits
    /\ \A val \in Int : Remote(val) => val <= edits /\ (val = mine => delivered)
    /\ upload # None => \A i \in 1..Len(upload.chunks) :
           upload.chunks[i].row # None => upload.chunks[i].row.val <= edits
    /\ editing # None =>
           editing.version = row.version /\ editing.val # Gone /\ editing.val <= edits

\* If the row holds the latest edit, and what is acknowledged is its version, it
\* was sent; none still to be sent is older than what is acknowledged.
AnswersFor(ack) ==
    /\ ack.version <= row.version
    /\ ack.version = row.version /\ row.val = mine => delivered
    /\ upload # None => \A i \in upload.next + 1..Len(upload.chunks) :
           upload.chunks[i].row # None => ack.version <= upload.chunks[i].row.version

\* Chunks carry versions in order, and the latest one with the latest edit.
VersionsOrdered ==
    upload # None => \A i \in 1..Len(upload.chunks) :
        upload.chunks[i].row # None =>
            /\ upload.chunks[i].row.version <= row.version
            /\ upload.chunks[i].row.version = row.version /\ row.val = mine =>
                   upload.chunks[i].row.val = mine \/ delivered
            /\ \A j \in i + 1..Len(upload.chunks) :
                   upload.chunks[j].row # None =>
                       upload.chunks[i].row.version <= upload.chunks[j].row.version

Acknowledgements ==
    /\ row.version > 0
    /\ \A ack \in Acks : Held(ack) => AnswersFor(ack)
    /\ VersionsOrdered
    /\ sync.at = "sent" /\ Current.row # None /\ Current.row.val = mine => delivered

\* A wipe starts once, with its receipt stored; what is still to be sent after
\* it was made after it.
Wiping ==
    /\ wipes <= 1 /\ wiped <= edits
    /\ receipt = "none" \/ command = "waiting" => wipes = 0
    /\ IsWiping => receipt = "interrupted"
    /\ \A r \in Records : records[r].change > 0 => records[r].change > wiped
    /\ receipt = "completed" /\ upload # None =>
           \A r \in Records, i \in 1..Len(upload.chunks) :
               ~Reached(i) /\ upload.chunks[i].records[r] > 0 => upload.chunks[i].records[r] > wiped

CloudInv ==
    TypeOK /\ Resumable /\ InThePast /\ Ordered /\ Covered /\ NothingForgotten
        /\ Numbered /\ Acknowledgements /\ Wiping

(***************************************************************************)
(* What the operators of the exchange return.                              *)
(***************************************************************************)
LEMMA IdleRun ==
    /\ Idle \in Syncs /\ Idle.at = "idle" /\ ~Idle.pushed
    /\ Idle.boundary = 0 /\ Idle.acks = EmptyAcks /\ EmptyAcks \in Acks
BY DEF Idle, EmptyAcks, Acks, Syncs

\* A run that starts on a pending upload resumes where it stands.
LEMMA StartedRun ==
    ASSUME NEW pullOnly \in BOOLEAN, NEW pending \in Uploads \cup {None},
           NEW waiting \in Acks \cup {None}
    PROVE  LET run == Started(pullOnly, pending, waiting) IN
           /\ run \in Syncs /\ run.at \in {"export", "push", "pull"} /\ run.boundary = 0
           /\ run.at = "push" => pending # None /\ pending.next # Len(pending.chunks)
           /\ run.pushed => run.at = "pull" /\ pending # None /\ pending.next = Len(pending.chunks)
           /\ run.acks = IF pending # None THEN pending.acknowledged
                         ELSE IF waiting # None THEN waiting ELSE EmptyAcks
<1> DEFINE fresh == pending = None \/ pending.rejected
           sent == ~fresh /\ Sent(pending)
           at == CASE pullOnly \/ sent -> "pull"
                   [] fresh /\ ~pullOnly -> "export"
                   [] OTHER -> "push"
           held == IF pending # None THEN pending.acknowledged
                   ELSE IF waiting # None THEN waiting ELSE EmptyAcks
<1>1. Started(pullOnly, pending, waiting) =
          [Idle EXCEPT !.at = at, !.pushed = ~pullOnly /\ sent, !.acks = held]
  BY DEF Started
<1>2. at \in {"export", "push", "pull"} /\ (at = "push" => ~fresh /\ ~sent)
  BY DEF fresh
<1>3. held \in Acks
  BY IdleRun DEF Uploads
<1>4. (~pullOnly /\ sent) \in BOOLEAN
  OBVIOUS
<1> HIDE DEF at, held
<1>5. Started(pullOnly, pending, waiting) =
          [at |-> at, acks |-> held, boundary |-> 0, pushed |-> ~pullOnly /\ sent, answer |-> 0, page |-> None,
           read |-> None]
  BY <1>1 DEF Idle
<1>6. Started(pullOnly, pending, waiting) \in Syncs
  BY <1>2, <1>3, <1>4, <1>5 DEF Syncs
<1>7. /\ at = "push" => pending # None /\ pending.next # Len(pending.chunks)
      /\ sent => at = "pull" /\ pending # None /\ pending.next = Len(pending.chunks)
  BY <1>2 DEF Sent, at
<1> DEFINE run == Started(pullOnly, pending, waiting)
<1>8. run.at = at /\ run.boundary = 0 /\ run.pushed = (~pullOnly /\ sent) /\ run.acks = held
  BY <1>5
<1> HIDE DEF run, sent
<1> QED
  BY <1>2, <1>6, <1>7, <1>8 DEF held, run

LEMMA ExportedTypes ==
    ASSUME TypeOK
    PROVE  /\ ExportedRow \in EditedRows \cup {None}
           /\ ExportedRecords \in [Records -> Nat] /\ NoChanges \in [Records -> Nat]
<1>1. ExportedRow \in EditedRows \cup {None}
  BY DEF ExportedRow, EditedRows, TypeOK, Rows
<1>2. \A r \in Records : records[r].change \in Nat
  BY DEF TypeOK
<1> QED
  BY <1>1, <1>2 DEF ExportedRecords, NoChanges

\* An export is packed in one chunk, or in one of the row and one of the records.
LEMMA PackingShape ==
    ASSUME NEW edited \in EditedRows \cup {None}, NEW changed \in [Records -> Nat],
           NoChanges \in [Records -> Nat], NEW chunks \in Packings(edited, changed)
    PROVE  /\ chunks \in Seq(Chunks) /\ Len(chunks) \in {1, 2}
           /\ chunks[Len(chunks)].records = changed
           /\ \A i \in 1..Len(chunks) :
                  chunks[i].row \in {edited, None} /\ chunks[i].records \in {changed, NoChanges}
           /\ Len(chunks) = 2 => chunks[1].records = NoChanges /\ chunks[2].row = None
<1> DEFINE all == Chunk(edited, changed)
           first == Chunk(edited, NoChanges)
           second == Chunk(None, changed)
<1>1. /\ all \in Chunks /\ all.row = edited /\ all.records = changed
      /\ first \in Chunks /\ first.row = edited /\ first.records = NoChanges
      /\ second \in Chunks /\ second.row = None /\ second.records = changed
  BY DEF Chunk, Chunks
<1>2. chunks = <<all>> \/ chunks = <<first, second>>
  BY DEF Packings
<1> HIDE DEF all, first, second
<1>3. CASE chunks = <<all>>
  BY <1>1, <1>3
<1>4. CASE chunks = <<first, second>>
  BY <1>1, <1>4
<1> QED
  BY <1>2, <1>3, <1>4

\* An export begins with the chunks that the cloud has accepted already.
LEMMA ReadUpload ==
    ASSUME TypeOK, Resumable, ReadRows
    PROVE  /\ upload' \in Uploads /\ upload'.exportedAt = sync.boundary
           /\ upload'.acknowledged = sync.acks /\ upload'.next < Len(upload'.chunks)
           /\ upload'.next = IF upload = None THEN 0 ELSE upload.next
           /\ \A i \in 1..upload'.next : upload'.chunks[i] = upload.chunks[i]
           /\ upload'.chunks[Len(upload'.chunks)].records = ExportedRecords
           /\ \A i \in upload'.next + 1..Len(upload'.chunks) :
                  /\ upload'.chunks[i].row \in {ExportedRow, None}
                  /\ upload'.chunks[i].records \in {ExportedRecords, NoChanges}
                  /\ \A j \in i + 1..Len(upload'.chunks) :
                         upload'.chunks[i].records = NoChanges /\ upload'.chunks[j].row = None
<1> DEFINE accepted == AcceptedChunks
           n == IF upload = None THEN 0 ELSE upload.next
<1>1. PICK chunks \in Packings(ExportedRow, ExportedRecords) :
          upload' = [exportedAt |-> sync.boundary, chunks |-> accepted \o chunks,
                     next |-> Len(accepted), acknowledged |-> sync.acks, rejected |-> FALSE]
  BY DEF ReadRows
<1>2. /\ chunks \in Seq(Chunks) /\ Len(chunks) \in {1, 2}
      /\ chunks[Len(chunks)].records = ExportedRecords
      /\ \A i \in 1..Len(chunks) : /\ chunks[i].row \in {ExportedRow, None}
                                   /\ chunks[i].records \in {ExportedRecords, NoChanges}
      /\ Len(chunks) = 2 => chunks[1].records = NoChanges /\ chunks[2].row = None
  <2>1. /\ ExportedRow \in EditedRows \cup {None} /\ ExportedRecords \in [Records -> Nat]
        /\ NoChanges \in [Records -> Nat] /\ chunks \in Packings(ExportedRow, ExportedRecords)
    BY <1>1, ExportedTypes
  <2> QED
    BY ONLY <2>1, PackingShape
<1>3. /\ accepted \in Seq(Chunks) /\ Len(accepted) = n /\ n \in Nat
      /\ \A i \in 1..n : accepted[i] = upload.chunks[i]
  <2>1. CASE upload = None
    BY <2>1 DEF AcceptedChunks
  <2>2. CASE upload # None
    <3>1. /\ upload.chunks \in Seq(Chunks) /\ upload.next \in Nat
          /\ upload.next <= Len(upload.chunks)
      BY <2>2 DEF TypeOK, Uploads, Resumable
    <3>2. \A i \in 1..upload.next : upload.chunks[i] \in Chunks
      BY <3>1
    <3> QED
      BY <2>2, <3>1, <3>2, SubSeqProperties DEF AcceptedChunks
  <2> QED
    BY <2>1, <2>2
<1> DEFINE joined == accepted \o chunks
<1>4. /\ joined \in Seq(Chunks) /\ Len(joined) = n + Len(chunks)
      /\ \A i \in 1..n : joined[i] = upload.chunks[i]
      /\ \A i \in n + 1..n + Len(chunks) : joined[i] = chunks[i - n]
  BY <1>2, <1>3, ConcatProperties
<1>5. /\ upload'.chunks = joined /\ upload'.next = n /\ upload' \in Uploads
      /\ upload'.exportedAt = sync.boundary /\ upload'.acknowledged = sync.acks
  <2> HIDE DEF joined, accepted, n
  <2>1. sync.boundary \in Nat /\ sync.acks \in Acks
    BY DEF TypeOK, Syncs
  <2> QED
    BY <1>1, <1>3, <1>4, <2>1 DEF Uploads, joined
<1> HIDE DEF joined, accepted, n
<1>6. \A i \in n + 1..Len(joined) :
          /\ joined[i].row \in {ExportedRow, None}
          /\ joined[i].records \in {ExportedRecords, NoChanges}
          /\ \A j \in i + 1..Len(joined) : joined[i].records = NoChanges /\ joined[j].row = None
  <2> SUFFICES ASSUME NEW i \in n + 1..Len(joined)
               PROVE  /\ joined[i].row \in {ExportedRow, None}
                      /\ joined[i].records \in {ExportedRecords, NoChanges}
                      /\ \A j \in i + 1..Len(joined) :
                             joined[i].records = NoChanges /\ joined[j].row = None
    OBVIOUS
  <2>1. i \in Int /\ i - n \in 1..Len(chunks) /\ joined[i] = chunks[i - n]
    BY <1>2, <1>3, <1>4
  <2>2. ASSUME NEW j \in i + 1..Len(joined)
        PROVE  joined[i].records = NoChanges /\ joined[j].row = None
    <3>1. i = n + 1 /\ j = n + 2 /\ Len(chunks) = 2
      BY <1>2, <1>3, <1>4, <2>1
    <3>2. joined[i] = chunks[1] /\ joined[j] = chunks[2]
      BY <1>2, <1>3, <1>4, <3>1
    <3> QED
      BY <1>2, <3>1, <3>2
  <2> QED
    BY <1>2, <2>1, <2>2
<1>7. joined[Len(joined)] = chunks[Len(chunks)] /\ n < Len(joined)
  <2>1. n \in Nat /\ Len(chunks) \in 1..2 /\ Len(joined) = n + Len(chunks)
    BY <1>2, <1>3, <1>4
  <2>2. n + Len(chunks) \in n + 1..n + Len(chunks) /\ (n + Len(chunks)) - n = Len(chunks) /\ n < n + Len(chunks)
    BY <2>1
  <2> QED
    BY <1>4, <2>1, <2>2
<1> QED
  BY <1>2, <1>4, <1>5, <1>6, <1>7 DEF n

\* How a run ends: with the cursor at the boundary of what it uploaded, and
\* perhaps with another run.
LEMMA Finished ==
    ASSUME TypeOK, Resumable, NEW pulled \in BOOLEAN, Finish(pulled)
    PROVE  /\ lastSyncedAt' \in Nat /\ lastSyncedAt' = Cursor
           /\ upload' \in Uploads \cup {None} /\ upload' = IF sync.pushed THEN None ELSE upload
           /\ acks' \in Acks \cup {None} /\ acks' \in {None, sync.acks}
           /\ queued' = {} /\ receipt' = receipt
           /\ sync' \in Syncs /\ sync'.at \in {"idle", "export", "push", "pull"} /\ sync'.boundary = 0
           /\ sync'.at = "push" => upload' # None /\ upload'.next # Len(upload'.chunks)
           /\ sync'.pushed => sync'.at = "pull" /\ upload' # None /\ upload'.next = Len(upload'.chunks)
           /\ \/ sync'.acks = EmptyAcks
              \/ upload' # None /\ sync'.acks = upload'.acknowledged
              \/ acks' # None /\ sync'.acks = acks'
<1>1. /\ sync.acks \in Acks /\ sync.pushed \in BOOLEAN /\ upload \in Uploads \cup {None}
      /\ sync.pushed => upload \in Uploads
  BY DEF TypeOK, Resumable, Syncs
<1>2. Cursor \in Nat
  BY <1>1 DEF Cursor, TypeOK, Uploads
<1>3. /\ lastSyncedAt' = Cursor /\ queued' = {} /\ receipt' = receipt
      /\ upload' = IF sync.pushed THEN None ELSE upload
      /\ acks' = IF pulled THEN None ELSE sync.acks
      /\ sync' = IF queued = {} THEN Idle ELSE Started("full" \notin queued, upload', acks')
  BY DEF Finish
<1>4. upload' \in Uploads \cup {None} /\ acks' \in Acks \cup {None} /\ acks' \in {None, sync.acks}
  BY <1>1, <1>3
<1>5. CASE queued = {}
  BY <1>2, <1>3, <1>4, <1>5, IdleRun
<1>6. CASE queued # {}
  <2> DEFINE pullOnly == "full" \notin queued
             run == Started(pullOnly, upload', acks')
  <2>1. pullOnly \in BOOLEAN /\ sync' = run
    BY <1>3, <1>6
  <2> HIDE DEF pullOnly
  <2>2. /\ run \in Syncs /\ run.at \in {"export", "push", "pull"} /\ run.boundary = 0
        /\ run.at = "push" => upload' # None /\ upload'.next # Len(upload'.chunks)
        /\ run.pushed => run.at = "pull" /\ upload' # None /\ upload'.next = Len(upload'.chunks)
        /\ run.acks = IF upload' # None THEN upload'.acknowledged
                      ELSE IF acks' # None THEN acks' ELSE EmptyAcks
    BY <1>4, <2>1, StartedRun
  <2> HIDE DEF run
  <2> QED
    BY <1>2, <1>3, <1>4, <2>1, <2>2
<1> QED
  BY <1>5, <1>6

\* What an import makes of the row as it has read it.
LEMMA ImportedRow ==
    ASSUME NEW import \in Imports, import.read \in Rows
    PROVE  /\ Imported(import) \in Rows
           /\ Imported(import).version = import.read.version
           /\ Imported(import).val \in {import.read.val, import.page.val}
           /\ \/ Imported(import).val = import.read.val /\ Imported(import).dirty = import.read.dirty
              \/ Imported(import).val = import.page.val /\ ~KeepsEdit(import)
BY DEF Imports, Acks, Imported, KeepsEdit, Rows, Pages

\* What a request writes: its version or the one there is, its value or that of
\* the row, which stays removed once it is.
LEMMA WrittenRow ==
    ASSUME row \in Rows, NEW read \in Rows, NEW new \in Rows
    PROVE  /\ Written(read, new) \in Rows
           /\ Written(read, new).version = IF new.version = read.version THEN row.version ELSE new.version
           /\ Written(read, new).val \in {row.val, new.val}
           /\ new.val = read.val => Written(read, new).val = row.val
           /\ new.val # read.val /\ row.val # Gone => Written(read, new).val = new.val
           /\ new.dirty = read.dirty => Written(read, new).dirty = row.dirty
           /\ new.dirty # read.dirty => Written(read, new).dirty = new.dirty
BY DEF Written, Rows

\* The import of the run.
LEMMA OwnImportType ==
    ASSUME TypeOK, Resumable, sync.at \in {"page", "import"}
    PROVE  /\ OwnImport \in Imports /\ OwnImport.acks = sync.acks /\ OwnImport.page = sync.page
           /\ OwnImport.read = sync.read /\ sync.page \in Pages /\ sync.acks \in Acks
           /\ sync.at = "import" => sync.read \in Rows /\ sync.read # None
BY NoneAssumption DEF OwnImport, Imports, TypeOK, Resumable, Syncs

(***************************************************************************)
(* Types, and what may be resumed.                                         *)
(***************************************************************************)
LEMMA CurrentType ==
    ASSUME TypeOK, upload # None, upload.next < Len(upload.chunks)
    PROVE  /\ Current \in Chunks /\ Current = upload.chunks[upload.next + 1]
           /\ upload.next + 1 \in 1..Len(upload.chunks)
           /\ Acknowledged \in Acks
<1>1. /\ upload \in Uploads /\ upload.chunks \in Seq(Chunks) /\ upload.next \in Nat
      /\ sync.acks \in Acks /\ sync.answer \in Nat
  BY DEF TypeOK, Uploads, Syncs
<1>2. upload.next + 1 \in 1..Len(upload.chunks) /\ Current \in Chunks
  BY <1>1 DEF Current
<1>3. Acknowledged \in Acks
  <2>1. CASE Current.row = None
    BY <1>1, <2>1 DEF Acknowledged
  <2>2. CASE Current.row # None
    <3>1. Current.row \in EditedRows
      BY <1>2, <2>2 DEF Chunks
    <3> QED
      BY <1>1, <2>2, <3>1 DEF Acknowledged, Acks, EditedRows
  <2> QED
    BY <2>1, <2>2
<1> QED
  BY <1>2, <1>3 DEF Current

LEMMA TakenType ==
    ASSUME TypeOK, NEW chunk \in Chunks, upload \in Uploads
    PROVE  /\ Taken(chunk) \in Clouds
           /\ Taken(chunk).taken = upload.next + 1
           /\ Taken(chunk).records = [r \in Records |-> IF chunk.records[r] > 0 THEN chunk.records[r]
                                                        ELSE cloud.records[r]]
<1> DEFINE kept == chunk.row = None \/ chunk.row.base # cloud.revision
           taken == [r \in Records |-> IF chunk.records[r] > 0 THEN chunk.records[r] ELSE cloud.records[r]]
<1>1. /\ taken \in [Records -> Nat] /\ upload.next + 1 \in Nat
      /\ cloud.revision \in Nat /\ cloud.val \in Int /\ cloud.wipe \in {"none", "pending", "acknowledged"}
  BY DEF TypeOK, Chunks, Uploads, Clouds
<1>2. kept \/ chunk.row.val \in Int
  BY DEF Chunks, EditedRows
<1> DEFINE revision == IF kept THEN cloud.revision ELSE cloud.revision + 1
           val == IF kept THEN cloud.val ELSE chunk.row.val
           answer == IF kept THEN 0 ELSE cloud.revision + 1
<1>3. Taken(chunk) = [cloud EXCEPT !.records = taken, !.revision = revision, !.val = val,
                                   !.taken = upload.next + 1, !.answer = answer]
  BY DEF Taken
<1>4. revision \in Nat /\ answer \in Nat /\ val \in Int
  BY <1>1, <1>2
<1> HIDE DEF taken, kept, revision, val, answer
<1>5. cloud \in Clouds
  BY DEF TypeOK
<1> QED
  BY <1>1, <1>3, <1>4, <1>5 DEF taken, Clouds

LEMMA InitType == ASSUME Init PROVE TypeOK /\ Resumable
<1>1. sync \in Syncs /\ ~sync.pushed /\ sync.at = "idle"
  BY IdleRun DEF Init
<1>2. cloud \in Clouds
  BY DEF Init, NoChanges, Clouds
<1>3. TypeOK
  BY <1>1, <1>2, BoundsAssumption DEF Init, TypeOK, Rows, Gone
<1>4. Resumable
  BY <1>1 DEF Init, Resumable, IsWiping
<1> QED
  BY <1>3, <1>4

LEMMA RowUpdate ==
    ASSUME NEW old \in Rows, NEW val \in Int, NEW version \in Nat
    PROVE  LET new == [old EXCEPT !.val = val, !.version = version, !.dirty = TRUE] IN
           /\ new \in Rows /\ new.val = val /\ new.version = version /\ new.dirty
           /\ [old EXCEPT !.val = val] \in Rows
BY DEF Rows

LEMMA CloudUpdate ==
    ASSUME NEW old \in Clouds, NEW revision \in Nat, NEW val \in Int
    PROVE  /\ [old EXCEPT !.revision = revision, !.val = val] \in Clouds
           /\ [old EXCEPT !.revision = revision, !.val = val].taken = old.taken
           /\ [old EXCEPT !.revision = revision, !.val = val].records = old.records
BY DEF Clouds

\* A saved edit is marked, unless the row that it read was and no longer is.
LEMMA RowEdited ==
    ASSUME row \in Rows, edits \in Nat, editing \in Rows \cup {None}, EditCommits,
           editing # None => editing.version = row.version /\ editing.val <= edits
    PROVE  /\ row' \in Rows /\ row'.version = row.version + 1
           /\ row'.val \in {row.val, edits + 1}
           /\ editing = row /\ row.val # Gone => row'.val = edits + 1 /\ row'.dirty
<1> DEFINE new == [editing EXCEPT !.val = edits + 1, !.version = editing.version + 1, !.dirty = TRUE]
<1>1. /\ editing \in Rows /\ editing.version = row.version /\ editing.val <= edits
      /\ row' = Written(editing, new)
  BY DEF EditCommits
<1>2. editing.version + 1 \in Nat /\ edits + 1 \in Int /\ editing.version \in Nat /\ editing.val \in Int
  BY <1>1 DEF Rows
<1>3. new \in Rows /\ new.val = edits + 1 /\ new.version = row.version + 1 /\ new.dirty
  <2>1. new \in Rows /\ new.val = edits + 1 /\ new.version = editing.version + 1 /\ new.dirty
    BY <1>1, <1>2 DEF Rows
  <2> QED
    BY <1>1, <2>1
<1> HIDE DEF new
<1>4. new.version # editing.version /\ new.val # editing.val
  BY <1>1, <1>2, <1>3
<1>5. editing = row => (new.dirty = row.dirty \/ new.dirty # row.dirty)
  OBVIOUS
<1> QED
  BY <1>1, <1>3, <1>4, WrittenRow DEF Rows

LEMMA CloudEdited ==
    ASSUME cloud \in Clouds, edits \in Nat, CloudEdit
    PROVE  cloud' \in Clouds /\ cloud'.taken = cloud.taken
<1>1. PICK val \in {edits + 1, Gone} : cloud' = [cloud EXCEPT !.revision = @ + 1, !.val = val]
  BY DEF CloudEdit
<1>2. val \in Int /\ cloud.revision + 1 \in Nat
  BY DEF Gone, Clouds
<1> QED
  BY <1>1, <1>2, CloudUpdate

\* Edits, the clock and the commands.
LEMMA EditsType ==
    ASSUME TypeOK, Resumable,
           \/ Tick \/ EditReads \/ EditCommits \/ CloudEdit \/ OrderWipe
           \/ \E r \in Records : ChangeRecord(r)
    PROVE  TypeOK' /\ Resumable'
<1> USE DEF TypeOK, stored, history, requests
<1>1. CASE Tick
  BY <1>1 DEF Tick, Resumable, IsWiping
<1>2. CASE EditReads
  BY <1>2 DEF EditReads, Resumable, IsWiping
<1>3. CASE EditCommits
  <2> DEFINE new == [editing EXCEPT !.val = edits + 1, !.version = editing.version + 1, !.dirty = TRUE]
  <2>1. editing \in Rows /\ row' = Written(editing, new)
    BY <1>3 DEF EditCommits
  <2>2. editing.version + 1 \in Nat /\ edits + 1 \in Int /\ edits + 1 \in Nat
    BY <2>1 DEF Rows
  <2>3. new \in Rows
    BY <2>1, <2>2, RowUpdate
  <2> HIDE DEF new
  <2>4. row' \in Rows
    BY <2>1, <2>3, WrittenRow
  <2> QED
    BY <1>3, <2>2, <2>4 DEF EditCommits, Resumable, IsWiping
<1>4. CASE CloudEdit
  <2>1. cloud' \in Clouds /\ cloud'.taken = cloud.taken
    BY <1>4, CloudEdited
  <2> QED
    BY <1>4, <2>1 DEF CloudEdit, Resumable, IsWiping
<1>5. CASE OrderWipe
  <2>1. cloud' \in Clouds /\ cloud'.taken = cloud.taken
    BY <1>5 DEF OrderWipe, Clouds
  <2> QED
    BY <1>5, <2>1 DEF OrderWipe, Resumable, IsWiping
<1>6. ASSUME NEW r \in Records, ChangeRecord(r) PROVE TypeOK' /\ Resumable'
  <2>1. records' \in [Records -> [change : Nat, at : Nat]]
    BY <1>6 DEF ChangeRecord
  <2> QED
    BY <1>6, <2>1 DEF ChangeRecord, Resumable, IsWiping
<1> QED
  BY <1>1, <1>2, <1>3, <1>4, <1>5, <1>6

\* Imports that nobody waits for keep their types.
LEMMA LateType ==
    ASSUME TypeOK, Resumable, LateImport
    PROVE  TypeOK' /\ Resumable'
<1> USE DEF stored, history, requests
<1>1. CASE LateImportReads
  <2>1. PICK import \in late : late' = (late \ {import}) \cup {[import EXCEPT !.read = row]}
    BY <1>1 DEF LateImportReads
  <2>2. [import EXCEPT !.read = row] \in Imports
    BY <2>1 DEF TypeOK, Imports
  <2>3. late' \subseteq Imports
    BY <2>1, <2>2 DEF TypeOK
  <2> QED
    BY <1>1, <2>3 DEF LateImportReads, TypeOK, Resumable, IsWiping
<1>2. CASE LateImportCommits
  <2>1. PICK import \in late : /\ import.read # None /\ late' = late \ {import}
                              /\ row' = Written(import.read, Imported(import))
    BY <1>2 DEF LateImportCommits
  <2>2. import \in Imports /\ import.read \in Rows /\ row \in Rows
    BY <2>1 DEF TypeOK, Imports
  <2>3. row' \in Rows
    BY <2>1, <2>2, ImportedRow, WrittenRow
  <2> QED
    BY <1>2, <2>1, <2>3 DEF LateImportCommits, TypeOK, Resumable, IsWiping
<1> QED
  BY <1>1, <1>2 DEF LateImport

\* An import that is not waited for any longer goes on.
LEMMA AbandonedType ==
    ASSUME TypeOK, Resumable, ImportAbandoned
    PROVE  late' \subseteq Imports /\ troubles' \in Nat
BY OwnImportType DEF ImportAbandoned, Trouble, TypeOK

LEMMA CommandType ==
    ASSUME TypeOK, Resumable,
           \/ ExecuteCommand \/ CommandKnown \/ WipeAttendance \/ WipeDone \/ WipeFailed
           \/ Acknowledge \/ WipeFails \/ Crash
    PROVE  TypeOK' /\ Resumable'
<1> USE DEF TypeOK, stored, history, requests, Trouble
<1>1. CASE ExecuteCommand
  <2>1. /\ sync' = Idle /\ queued' = {} /\ receipt' = "interrupted" /\ command' = "waiting"
        /\ upload' \in {upload, None}
        /\ acks' \in {acks, sync.acks} /\ lastSyncedAt' \in {lastSyncedAt, Cursor}
        /\ UNCHANGED <<now, row, records, edits, editing, cloud, history>>
    BY <1>1 DEF ExecuteCommand, Aborted, ImportAbandoned, Intent
  <2>2. late' \subseteq Imports /\ troubles' \in Nat
    BY <1>1, AbandonedType DEF ExecuteCommand
  <2>3. Cursor \in Nat /\ sync.acks \in Acks
    BY DEF Cursor, Uploads, Resumable, Syncs
  <2>4. TypeOK'
    BY <2>1, <2>2, <2>3, IdleRun
  <2>5. Resumable'
    BY <2>1, IdleRun DEF Resumable
  <2> QED
    BY <2>4, <2>5
<1>0. CASE CommandKnown
  BY <1>0 DEF CommandKnown, Resumable, IsWiping
<1>2. CASE WipeAttendance
  <2>1. records' \in [Records -> [change : Nat, at : Nat]] /\ wipes + 1 \in Nat /\ Gone \in Int
    BY <1>2 DEF WipeAttendance, Gone
  <2>2. row' \in Rows
    <3> HIDE DEF Gone
    <3> QED BY <1>2, <2>1, RowUpdate, 0 \in Nat DEF WipeAttendance
  <2> QED
    BY <1>2, <2>1, <2>2 DEF WipeAttendance, Resumable, IsWiping
<1>3. CASE WipeDone
  BY <1>3 DEF WipeDone, UploadAfterWipe, Resumable, IsWiping
<1>4. CASE WipeFailed
  BY <1>4 DEF WipeFailed, Resumable, IsWiping
<1>5. CASE Acknowledge
  <2>1. cloud' \in Clouds /\ cloud'.taken = cloud.taken
    BY <1>5 DEF Acknowledge, Clouds
  <2> QED
    BY <1>5, <2>1 DEF Acknowledge, Resumable, IsWiping
<1>6. CASE WipeFails
  BY <1>6 DEF WipeFails, Resumable, IsWiping
<1>7. CASE Crash
  BY <1>7, IdleRun DEF Crash, Resumable, IsWiping
<1> QED
  BY <1>0, <1>1, <1>2, <1>3, <1>4, <1>5, <1>6, <1>7

\* One step of a run sets a few fields of it.
RunSteps == {"rows", "push", "sent", "pull", "page"}

LEMMA RunMoves ==
    ASSUME sync \in Syncs, NEW at \in RunSteps
    PROVE  /\ [sync EXCEPT !.at = at] \in Syncs
           /\ [sync EXCEPT !.at = at].at = at
           /\ [sync EXCEPT !.at = at].pushed = sync.pushed
BY DEF Syncs, RunSteps

LEMMA RunForgets ==
    ASSUME sync \in Syncs, NEW at \in RunSteps, NEW none \in Nat
    PROVE  /\ [sync EXCEPT !.at = at, !.boundary = none] \in Syncs
           /\ [sync EXCEPT !.at = at, !.boundary = none].at = at
           /\ [sync EXCEPT !.at = at, !.boundary = none].pushed = sync.pushed
BY DEF Syncs, RunSteps

LEMMA RunReads ==
    ASSUME sync \in Syncs, NEW n \in Nat
    PROVE  \A run \in {[sync EXCEPT !.at = "rows", !.boundary = n]} :
               run \in Syncs /\ run.at = "rows" /\ run.pushed = sync.pushed /\ run.acks = sync.acks
                   /\ run.boundary = n
BY DEF Syncs

LEMMA RunPulls ==
    ASSUME sync \in Syncs, NEW page \in Pages
    PROVE  \A run \in {[sync EXCEPT !.at = "page", !.page = page]} :
               run \in Syncs /\ run.at = "page" /\ run.pushed = sync.pushed /\ run.acks = sync.acks
                   /\ run.page = page /\ run.boundary = sync.boundary
BY DEF Syncs

LEMMA RunSends ==
    ASSUME sync \in Syncs, NEW n \in Nat
    PROVE  \A run \in {[sync EXCEPT !.at = "sent", !.answer = n]} :
               run \in Syncs /\ run.at = "sent" /\ run.pushed = sync.pushed /\ run.acks = sync.acks
                   /\ run.boundary = sync.boundary
BY DEF Syncs

LEMMA RunLearns ==
    ASSUME sync \in Syncs, NEW ack \in Acks, NEW none \in Nat
    PROVE  \A run \in {[sync EXCEPT !.at = "pull", !.acks = ack, !.answer = none]} :
               run \in Syncs /\ run.at = "pull" /\ run.pushed = sync.pushed /\ run.acks = ack
                   /\ run.boundary = sync.boundary
BY DEF Syncs

LEMMA PullTypes ==
    ASSUME sync \in Syncs, cloud \in Clouds, PullPage
    PROVE  /\ sync' \in Syncs /\ sync'.at = "page" /\ sync'.pushed = sync.pushed /\ sync'.page \in Pages
           /\ sync'.page.val = cloud.val /\ sync'.acks = sync.acks /\ sync'.boundary = sync.boundary
<1> DEFINE page == [revision |-> cloud.revision, val |-> cloud.val]
<1>1. page \in Pages /\ page.val = cloud.val /\ sync' = [sync EXCEPT !.at = "page", !.page = page]
  BY DEF PullPage, Clouds, Pages
<1> HIDE DEF page
<1> QED
  BY <1>1, RunPulls

LEMMA ReadTypes ==
    ASSUME sync \in Syncs, row \in Rows, ImportReads
    PROVE  /\ sync' \in Syncs /\ sync'.at = "import" /\ sync'.pushed = sync.pushed /\ sync'.page = sync.page
           /\ sync'.read = row /\ sync'.acks = sync.acks /\ sync'.boundary = sync.boundary
           /\ sync'.answer = sync.answer
BY DEF ImportReads, Syncs

LEMMA ExchangeType ==
    ASSUME TypeOK, Resumable,
           \/ TimerFires \/ SyncRequired \/ TakeBoundary \/ ReadRows
           \/ ExportFails \/ PushUnconfirmed \/ PushFails \/ PullPage \/ ImportReads
    PROVE  TypeOK' /\ Resumable'
<1> USE DEF stored, history, requests, Trouble
<1>0. sync.boundary \in Nat /\ sync.pushed \in BOOLEAN /\ 0 \in Nat
  BY DEF TypeOK, Syncs
<1>1. ASSUME NEW pullOnly \in BOOLEAN, PerformSync(pullOnly)
      PROVE  TypeOK' /\ Resumable'
  <2>1. CASE sync.at = "idle"
    <3> DEFINE run == Started(pullOnly, upload, acks)
    <3>1. sync' = run /\ ~IsWiping /\ UNCHANGED <<now, row, records, edits, requests, stored, queued, command, cloud, history, troubles>>
      BY <1>1, <2>1 DEF PerformSync
    <3>2. /\ run \in Syncs /\ run.at \in {"export", "push", "pull"}
          /\ run.at = "push" => upload # None /\ upload.next # Len(upload.chunks)
          /\ run.pushed => run.at = "pull" /\ upload # None /\ upload.next = Len(upload.chunks)
      BY StartedRun DEF TypeOK
    <3> HIDE DEF run
    <3>3. TypeOK'
      BY <3>1, <3>2 DEF TypeOK
    <3>4. upload # None /\ upload.next # Len(upload.chunks) => upload.next < Len(upload.chunks)
      BY DEF TypeOK, Uploads, Resumable
    <3> QED
      BY <3>1, <3>2, <3>3, <3>4 DEF Resumable, IsWiping
  <2>2. CASE sync.at # "idle"
    <3>1. /\ queued' \subseteq queued \cup {"full", "pull"}
          /\ UNCHANGED <<now, row, records, edits, requests, stored, sync, command, cloud, history, troubles>>
      BY <1>1, <2>2 DEF PerformSync
    <3>2. TypeOK'
      BY <3>1 DEF TypeOK
    <3> QED
      BY <3>1, <3>2 DEF Resumable, IsWiping
  <2> QED
    BY <2>1, <2>2
<1>2. CASE TakeBoundary
  <2>1. sync' \in Syncs /\ sync'.at = "rows" /\ sync'.pushed = sync.pushed
    <3>1. PICK n \in Nat : sync' = [sync EXCEPT !.at = "rows", !.boundary = n]
      BY <1>2 DEF TakeBoundary, TypeOK
    <3>2. sync \in Syncs
      BY DEF TypeOK
    <3> QED
      BY <3>1, <3>2, RunReads
  <2> QED
    BY <1>2, <2>1 DEF TakeBoundary, TypeOK, Resumable, IsWiping
<1>3. CASE ReadRows
  <2>1. /\ upload' \in Uploads /\ upload'.next < Len(upload'.chunks)
    BY <1>3, ReadUpload
  <2>2. sync' \in Syncs /\ sync'.at = "push" /\ sync'.pushed = sync.pushed
    <3>1. sync' = [sync EXCEPT !.at = "push", !.boundary = 0]
      BY <1>3 DEF ReadRows
    <3>2. sync \in Syncs /\ "push" \in RunSteps
      BY DEF TypeOK, RunSteps
    <3> QED
      BY <1>0, <3>1, <3>2, RunForgets
  <2>3. ~sync.pushed
    BY <1>3 DEF ReadRows, Resumable
  <2>4. cloud' \in Clouds /\ cloud'.taken = 0
    BY <1>3 DEF ReadRows, TypeOK, Clouds
  <2>5. TypeOK'
    BY <1>3, <2>1, <2>2, <2>4 DEF ReadRows, TypeOK
  <2>6. upload' # None /\ upload'.next <= Len(upload'.chunks)
    BY <2>1, NoneAssumption DEF Uploads
  <2> QED
    BY <1>3, <2>1, <2>2, <2>3, <2>4, <2>5, <2>6 DEF ReadRows, Resumable, IsWiping
<1>4. CASE ExportFails
  <2>1. sync' \in Syncs /\ sync'.at = "pull" /\ sync'.pushed = sync.pushed
    <3>1. sync' = [sync EXCEPT !.at = "pull", !.boundary = 0]
      BY <1>4 DEF ExportFails
    <3>2. sync \in Syncs /\ "pull" \in RunSteps
      BY DEF TypeOK, RunSteps
    <3> QED
      BY <1>0, <3>1, <3>2, RunForgets
  <2> QED
    BY <1>4, <2>1 DEF ExportFails, TypeOK, Resumable, IsWiping
<1>5. CASE PushUnconfirmed
  <2>1. PICK known \in {sync.acks, Acknowledged} : sync' = [sync EXCEPT !.at = "pull", !.acks = known, !.answer = 0]
    BY <1>5 DEF PushUnconfirmed
  <2>2. known \in Acks
    BY <1>5, CurrentType DEF PushUnconfirmed, Resumable, TypeOK, Syncs
  <2>3. sync' \in Syncs /\ sync'.at = "pull" /\ sync'.pushed = sync.pushed
    <3>1. sync \in Syncs /\ 0 \in Nat
      BY DEF TypeOK
    <3> QED
      BY <2>1, <2>2, <3>1, RunLearns
  <2> QED
    BY <1>5, <2>3 DEF PushUnconfirmed, TypeOK, Resumable, IsWiping
<1>6. CASE PushFails
  <2>1. sync' \in Syncs /\ sync'.at = "pull" /\ sync'.pushed = sync.pushed
    <3>1. sync' = [sync EXCEPT !.at = "pull"]
      BY <1>6 DEF PushFails
    <3>2. sync \in Syncs /\ "pull" \in RunSteps
      BY DEF TypeOK, RunSteps
    <3> QED
      BY <1>0, <3>1, <3>2, RunMoves
  <2>2. upload \in Uploads /\ upload # None
    BY <1>6 DEF PushFails, TypeOK, Resumable
  <2>3. upload' \in Uploads /\ upload'.chunks = upload.chunks /\ upload'.next = upload.next
    <3>1. PICK rejected \in BOOLEAN : upload' = [upload EXCEPT !.rejected = @ \/ rejected]
      BY <1>6 DEF PushFails
    <3>2. (upload.rejected \/ rejected) \in BOOLEAN
      OBVIOUS
    <3> QED
      BY <2>2, <3>1, <3>2 DEF Uploads
  <2> QED
    BY <1>6, <2>1, <2>2, <2>3 DEF PushFails, TypeOK, Resumable, IsWiping
<1>7. CASE PullPage
  <2>2. sync' \in Syncs /\ sync'.at = "page" /\ sync'.pushed = sync.pushed /\ sync'.page \in Pages
    BY <1>7, PullTypes DEF TypeOK
  <2> QED
    BY <1>7, <2>2 DEF PullPage, TypeOK, Resumable, IsWiping
<1>8. CASE ImportReads
  <2>1. /\ sync' \in Syncs /\ sync'.at = "import" /\ sync'.pushed = sync.pushed
        /\ sync'.page = sync.page /\ sync'.read = row /\ row \in Rows
    BY <1>8, ReadTypes DEF TypeOK
  <2> QED
    BY <1>8, <2>1 DEF ImportReads, TypeOK, Resumable, IsWiping
<1> QED
  BY <1>1, <1>2, <1>3, <1>4, <1>5, <1>6, <1>7, <1>8 DEF TimerFires, SyncRequired

LEMMA PushType ==
    ASSUME TypeOK, Resumable,
           PushChunk \/ PushAnswered \/ ImportCommits \/ PullFails \/ ImportTimesOut
    PROVE  TypeOK' /\ Resumable'
<1> USE DEF stored, history, requests, Trouble
<1>1. CASE PushChunk
  <2>1. upload \in Uploads /\ Current \in Chunks /\ upload.next < Len(upload.chunks)
    BY <1>1, CurrentType DEF PushChunk, Resumable, TypeOK
  <2>2. cloud' \in Clouds /\ cloud'.taken = upload.next + 1
    BY <1>1, <2>1, TakenType DEF PushChunk, TypeOK
  <2>3. cloud'.answer \in Nat
    BY <2>2 DEF Clouds
  <2>4. sync' \in Syncs /\ sync'.at = "sent" /\ sync'.pushed = sync.pushed
    BY <1>1, <2>3, RunSends DEF PushChunk, TypeOK
  <2>5. delivered' \in BOOLEAN
    BY <1>1 DEF PushChunk, TypeOK
  <2> QED
    BY <1>1, <2>1, <2>2, <2>4, <2>5 DEF PushChunk, TypeOK, Resumable, IsWiping
<1>2. CASE PushAnswered
  <2>1. /\ upload \in Uploads /\ upload # None /\ upload.next < Len(upload.chunks)
        /\ Acknowledged \in Acks /\ upload.next \in Nat /\ Len(upload.chunks) \in Nat
    BY <1>2, CurrentType DEF PushAnswered, Resumable, TypeOK, Uploads
  <2>2. /\ upload' \in Uploads /\ upload'.next = upload.next + 1 /\ upload'.chunks = upload.chunks
    <3>1. \A n \in Nat : /\ [upload EXCEPT !.next = n, !.acknowledged = Acknowledged] \in Uploads
                         /\ [upload EXCEPT !.next = n, !.acknowledged = Acknowledged].next = n
                         /\ [upload EXCEPT !.next = n, !.acknowledged = Acknowledged].chunks = upload.chunks
      BY <2>1 DEF Uploads
    <3>2. upload.next + 1 \in Nat /\ upload' = [upload EXCEPT !.next = upload.next + 1, !.acknowledged = Acknowledged]
      BY <1>2, <2>1 DEF PushAnswered
    <3> QED
      BY <3>1, <3>2
  <2> DEFINE done == upload.next + 1 = Len(upload.chunks)
  <2>3. /\ sync' \in Syncs
        /\ done => sync'.at = "pull" /\ sync'.pushed
        /\ ~done => sync'.at = "push" /\ ~sync'.pushed
    <3>0. PICK none \in Nat : none = 0
      OBVIOUS
    <3>1. sync \in Syncs /\ Acknowledged \in Acks
      BY <2>1 DEF TypeOK
    <3>2. CASE done
      <4>1. sync' = [sync EXCEPT !.at = "pull", !.pushed = TRUE, !.acks = Acknowledged, !.answer = none]
        BY <1>2, <3>0, <3>2 DEF PushAnswered
      <4>2. sync' \in Syncs /\ sync'.at = "pull" /\ sync'.pushed
        BY <3>1, <4>1 DEF Syncs
      <4> QED
        BY <3>2, <4>2
    <3>3. CASE ~done
      <4>1. sync' = [sync EXCEPT !.at = "push", !.pushed = FALSE, !.acks = Acknowledged, !.answer = none]
        BY <1>2, <3>0, <3>3 DEF PushAnswered
      <4>2. sync' \in Syncs /\ sync'.at = "push" /\ ~sync'.pushed
        BY <3>1, <4>1 DEF Syncs
      <4> QED
        BY <3>3, <4>2
    <3> QED
      BY <3>2, <3>3
  <2>4. cloud' \in Clouds /\ cloud'.taken = 0
    BY <1>2 DEF PushAnswered, TypeOK, Clouds
  <2>5. upload' # None /\ upload'.next <= Len(upload'.chunks) /\ upload'.next \in Nat
    BY <2>1, <2>2, NoneAssumption
  <2>6. TypeOK'
    BY <1>2, <2>2, <2>3, <2>4 DEF PushAnswered, TypeOK
  <2>7. ~IsWiping' /\ (~done => upload'.next < Len(upload'.chunks)) /\ (done => upload'.next = Len(upload'.chunks))
    BY <1>2, <2>1, <2>2 DEF PushAnswered, Resumable, IsWiping
  <2> HIDE DEF done
  <2> QED
    BY <2>3, <2>4, <2>5, <2>6, <2>7 DEF Resumable
<1>3. ASSUME NEW pulled \in BOOLEAN, Finish(pulled), row' \in Rows, troubles' \in Nat,
             sync.at \in {"pull", "page", "import"}, late' \subseteq Imports,
             UNCHANGED <<now, records, edits, editing, command, cloud, history>>
      PROVE  TypeOK' /\ Resumable'
  <2>1. /\ lastSyncedAt' \in Nat
        /\ upload' \in Uploads \cup {None} /\ upload' \in {None, upload}
        /\ acks' \in Acks \cup {None}
        /\ queued' = {} /\ receipt' = receipt
        /\ sync' \in Syncs /\ sync'.at \in {"idle", "export", "push", "pull"}
        /\ sync'.at = "push" => upload' # None /\ upload'.next # Len(upload'.chunks)
        /\ sync'.pushed => sync'.at = "pull" /\ upload' # None /\ upload'.next = Len(upload'.chunks)
    BY <1>3, Finished
  <2>2. TypeOK'
    BY <1>3, <2>1 DEF TypeOK
  <2>3. /\ ~IsWiping'
        /\ upload' # None => upload'.next <= Len(upload'.chunks) /\ upload'.next \in Nat /\ Len(upload'.chunks) \in Nat
    BY <1>3, <2>1 DEF Resumable, IsWiping, Uploads
  <2>4. sync'.at = "push" => upload' # None /\ upload'.next < Len(upload'.chunks)
    BY <2>1, <2>3
  <2> QED
    BY <1>3, <2>1, <2>2, <2>3, <2>4 DEF Resumable
<1>4. CASE ImportCommits
  <2>1. row' \in Rows
    <3>1. row' = Written(sync.read, Imported(OwnImport)) /\ sync.at = "import" /\ row \in Rows
      BY <1>4 DEF ImportCommits, TypeOK
    <3>2. OwnImport \in Imports /\ OwnImport.read = sync.read /\ sync.read \in Rows
      BY <3>1, OwnImportType
    <3>3. Imported(OwnImport) \in Rows
      BY <3>2, ImportedRow
    <3> QED
      BY <3>1, <3>2, <3>3, WrittenRow
  <2>2. /\ sync.at \in {"pull", "page", "import"} /\ late' \subseteq Imports
        /\ UNCHANGED <<now, records, edits, editing, command, cloud, history>>
    BY <1>4 DEF ImportCommits, TypeOK
  <2>3. CASE Finish(TRUE) /\ UNCHANGED troubles
    BY <1>3, <2>1, <2>2, <2>3 DEF TypeOK
  <2>4. CASE Finish(FALSE) /\ troubles' = troubles + 1
    <3>1. troubles' \in Nat
      BY <2>4 DEF TypeOK
    <3> QED
      BY <1>3, <2>1, <2>2, <2>4, <3>1
  <2> QED
    BY <1>4, <2>3, <2>4 DEF ImportCommits
<1>5. CASE PullFails
  <2>1. troubles' \in Nat /\ row' \in Rows /\ late' \subseteq Imports
    BY <1>5 DEF PullFails, TypeOK
  <2> QED
    BY <1>3, <1>5, <2>1 DEF PullFails
<1>6. CASE ImportTimesOut
  <2>1. troubles' \in Nat /\ row' \in Rows /\ late' \subseteq Imports
    BY <1>6, AbandonedType DEF ImportTimesOut, ImportAbandoned, TypeOK
  <2> QED
    BY <1>3, <1>6, <2>1 DEF ImportTimesOut, ImportAbandoned
<1> QED
  BY <1>1, <1>2, <1>4, <1>5, <1>6

LEMMA TypeStep ==
    ASSUME TypeOK, Resumable, [Next]_vars
    PROVE  TypeOK' /\ Resumable'
<1>1. CASE Next
  BY <1>1, EditsType, LateType, CommandType, ExchangeType, PushType DEF Next, SyncStep, CommandStep
<1>2. CASE UNCHANGED vars
  BY <1>2 DEF vars, stored, history, requests, TypeOK, Resumable, IsWiping
<1> QED
  BY <1>1, <1>2

(***************************************************************************)
(* Few steps touch what is exchanged: the others leave the upload as it is *)
(* or drop it, and leave the cloud's records alone.                        *)
(***************************************************************************)
SameUpload ==
    /\ upload' # None
    /\ upload # None /\ upload'.chunks = upload.chunks /\ upload'.next = upload.next
    /\ upload'.exportedAt = upload.exportedAt /\ upload'.acknowledged = upload.acknowledged

Quiet ==
    /\ upload' = None \/ SameUpload
    /\ cloud'.records = cloud.records /\ cloud'.taken = cloud.taken
    /\ lastSyncedAt' \in {lastSyncedAt, Cursor, 0}
    /\ \/ UNCHANGED records /\ edits' \in {edits, edits + 1}
       \/ \E r \in Records : ChangeRecord(r)
       \/ WipeAttendance

LEMMA QuietSteps ==
    ASSUME TypeOK, Resumable, [Next]_vars
    PROVE  Quiet \/ ReadRows \/ PushChunk \/ PushAnswered
<1> USE DEF stored, history, requests, SameUpload
<1>0. upload' = upload => upload' = None \/ SameUpload
  OBVIOUS
<1>1. CASE \/ Tick \/ EditReads \/ EditCommits \/ LateImport \/ (\E r \in Records : ChangeRecord(r))
           \/ TakeBoundary \/ ExportFails \/ PushUnconfirmed \/ PullPage \/ ImportReads
  BY <1>0, <1>1 DEF Quiet, Tick, EditReads, EditCommits, LateImport, LateImportReads, LateImportCommits,
                    ChangeRecord, TakeBoundary, ExportFails, PushUnconfirmed, PullPage, ImportReads
<1>10. CASE CommandKnown \/ WipeAttendance \/ WipeFails \/ WipeFailed \/ Crash
  BY <1>0, <1>10 DEF Quiet, CommandKnown, WipeAttendance, WipeFails, WipeFailed, Crash
<1>2. CASE TimerFires \/ SyncRequired
  BY <1>0, <1>2 DEF Quiet, TimerFires, SyncRequired, PerformSync
<1>3. CASE CloudEdit
  <2>1. PICK val \in {edits + 1, Gone} : cloud' = [cloud EXCEPT !.revision = @ + 1, !.val = val]
    BY <1>3 DEF CloudEdit
  <2>2. cloud'.records = cloud.records /\ cloud'.taken = cloud.taken
    BY <2>1 DEF TypeOK, Clouds
  <2> QED
    BY <1>0, <1>3, <2>2 DEF Quiet, CloudEdit
<1>4. CASE Acknowledge \/ OrderWipe
  <2>1. cloud'.records = cloud.records /\ cloud'.taken = cloud.taken
    BY <1>4 DEF Acknowledge, OrderWipe, TypeOK, Clouds
  <2> QED
    BY <1>0, <1>4, <2>1 DEF Quiet, Acknowledge, OrderWipe
<1>5. CASE PushFails
  <2>1. PICK rejected \in BOOLEAN : upload' = [upload EXCEPT !.rejected = @ \/ rejected]
    BY <1>5 DEF PushFails
  <2>2. upload \in Uploads /\ upload # None
    BY <1>5 DEF PushFails, TypeOK, Resumable
  <2>3. upload' \in Uploads /\ SameUpload
    <3>1. SUFFICES upload' \in Uploads /\ upload'.chunks = upload.chunks /\ upload'.next = upload.next
                   /\ upload'.exportedAt = upload.exportedAt /\ upload'.acknowledged = upload.acknowledged
      BY <2>2, NoneAssumption
    <3> QED
      BY <2>1, <2>2 DEF Uploads
  <2> QED
    BY <1>5, <2>3 DEF Quiet, PushFails
<1>6. CASE ImportCommits \/ PullFails \/ ImportTimesOut
  <2>1. /\ \E pulled \in BOOLEAN : Finish(pulled)
        /\ UNCHANGED <<records, edits, cloud, history>>
    BY <1>6 DEF ImportCommits, PullFails, ImportTimesOut, ImportAbandoned
  <2>2. upload' = None \/ upload' = upload
    BY <2>1 DEF Finish
  <2>3. lastSyncedAt' = Cursor
    BY <2>1 DEF Finish
  <2> QED
    BY <1>0, <2>1, <2>2, <2>3 DEF Quiet
<1>7. CASE ExecuteCommand
  <2>1. /\ upload' \in {upload, None} /\ lastSyncedAt' \in {lastSyncedAt, Cursor}
        /\ UNCHANGED <<records, edits, cloud, history>>
    BY <1>7 DEF ExecuteCommand, Aborted, ImportAbandoned
  <2> QED
    BY <1>0, <2>1 DEF Quiet
<1>8. CASE WipeDone
  BY <1>8 DEF Quiet, WipeDone, UploadAfterWipe
<1>9. CASE UNCHANGED vars
  BY <1>0, <1>9 DEF Quiet, vars
<1> QED
  BY <1>1, <1>2, <1>3, <1>4, <1>5, <1>6, <1>7, <1>8, <1>9, <1>10 DEF Next, SyncStep, CommandStep

\* What a push makes of the records in the cloud.
LEMMA Pushed ==
    ASSUME TypeOK, Resumable, PushChunk
    PROVE  /\ upload \in Uploads /\ upload # None /\ UNCHANGED <<upload, records, edits, lastSyncedAt, now, row, acks>>
           /\ upload.next + 1 \in 1..Len(upload.chunks) /\ Current = upload.chunks[upload.next + 1]
           /\ Current \in Chunks /\ cloud'.taken = upload.next + 1
           /\ \A r \in Records :
                  cloud'.records[r] = IF cloud.taken # upload.next + 1 /\ Current.records[r] > 0
                                      THEN Current.records[r] ELSE cloud.records[r]
<1> USE DEF stored
<1>1. upload \in Uploads /\ upload # None /\ upload.next < Len(upload.chunks)
  BY DEF PushChunk, Resumable, TypeOK
<1>2. Current \in Chunks /\ upload.next + 1 \in 1..Len(upload.chunks) /\ Current = upload.chunks[upload.next + 1]
  BY <1>1, CurrentType
<1>3. CASE cloud.taken = upload.next + 1
  BY <1>1, <1>2, <1>3 DEF PushChunk
<1>4. CASE cloud.taken # upload.next + 1
  <2>1. cloud' = Taken(Current)
    BY <1>4 DEF PushChunk
  <2>2. /\ cloud'.taken = upload.next + 1
        /\ cloud'.records = [r \in Records |-> IF Current.records[r] > 0 THEN Current.records[r] ELSE cloud.records[r]]
    BY <1>1, <1>2, <2>1, TakenType
  <2> QED
    BY <1>1, <1>2, <1>4, <2>2 DEF PushChunk
<1> QED
  BY <1>3, <1>4

\* What the answer to a push makes of the upload.
LEMMA Answered ==
    ASSUME TypeOK, Resumable, PushAnswered
    PROVE  /\ upload \in Uploads /\ upload # None /\ upload' # None
           /\ upload.next + 1 \in 1..Len(upload.chunks) /\ Current = upload.chunks[upload.next + 1]
           /\ upload'.chunks = upload.chunks /\ upload'.next = upload.next + 1
           /\ upload'.exportedAt = upload.exportedAt /\ upload'.acknowledged = Acknowledged
           /\ sync'.acks = Acknowledged
           /\ cloud.taken = upload.next + 1 /\ cloud'.taken = 0 /\ cloud'.records = cloud.records
           /\ UNCHANGED <<records, edits, lastSyncedAt, now, row, acks, delivered>>
<1> USE DEF stored, history, requests
<1>1. upload \in Uploads /\ upload # None /\ upload.next < Len(upload.chunks) /\ cloud.taken = upload.next + 1
  BY DEF PushAnswered, Resumable, TypeOK
<1>2. upload.next + 1 \in 1..Len(upload.chunks) /\ Current = upload.chunks[upload.next + 1] /\ Acknowledged \in Acks
  BY <1>1, CurrentType
<1>3. /\ upload' \in Uploads
      /\ upload'.chunks = upload.chunks /\ upload'.next = upload.next + 1
      /\ upload'.exportedAt = upload.exportedAt /\ upload'.acknowledged = Acknowledged
  <2>1. \A n \in Nat : LET new == [upload EXCEPT !.next = n, !.acknowledged = Acknowledged] IN
            /\ new \in Uploads /\ new.chunks = upload.chunks /\ new.next = n
            /\ new.exportedAt = upload.exportedAt /\ new.acknowledged = Acknowledged
    BY <1>1, <1>2 DEF Uploads
  <2>2. upload.next + 1 \in Nat /\ upload' = [upload EXCEPT !.next = upload.next + 1, !.acknowledged = Acknowledged]
    BY <1>2 DEF PushAnswered
  <2> QED
    BY <2>1, <2>2
<1>4. cloud'.taken = 0 /\ cloud'.records = cloud.records
  BY DEF PushAnswered, TypeOK, Clouds
<1>5. sync'.acks = Acknowledged
  BY DEF PushAnswered, TypeOK, Syncs
<1> QED
  BY <1>1, <1>2, <1>3, <1>4, <1>5, NoneAssumption DEF PushAnswered

(***************************************************************************)
(* The order of the changes.                                               *)
(***************************************************************************)
LEMMA Numbers ==
    ASSUME TypeOK, NEW r \in Records
    PROVE  /\ records[r].change \in Nat /\ records[r].at \in Nat /\ cloud.records[r] \in Nat
           /\ edits \in Nat /\ now \in Nat /\ lastSyncedAt \in Nat /\ wiped \in Nat
           /\ cloud.taken \in Nat /\ sync.boundary \in Nat
           /\ upload # None =>
                  /\ Len(upload.chunks) \in Nat /\ upload.next \in Nat /\ upload.exportedAt \in Nat
                  /\ \A i \in 1..Len(upload.chunks) : upload.chunks[i].records[r] \in Nat
<1>1. /\ records[r].change \in Nat /\ records[r].at \in Nat /\ cloud.records[r] \in Nat
      /\ cloud.taken \in Nat /\ sync.boundary \in Nat
  BY DEF TypeOK, Clouds, Syncs
<1>2. ASSUME upload # None
      PROVE  /\ Len(upload.chunks) \in Nat /\ upload.next \in Nat /\ upload.exportedAt \in Nat
             /\ \A i \in 1..Len(upload.chunks) : upload.chunks[i].records[r] \in Nat
  <2>1. upload.chunks \in Seq(Chunks) /\ upload.next \in Nat /\ upload.exportedAt \in Nat
    BY <1>2 DEF TypeOK, Uploads
  <2>2. \A i \in 1..Len(upload.chunks) : upload.chunks[i] \in Chunks
    BY <2>1
  <2> QED
    BY <2>1, <2>2 DEF Chunks
<1> QED
  BY <1>1, <1>2 DEF TypeOK

\* A step that leaves the exchange alone changes a record to the next number, or
\* wipes it, or leaves it.
LEMMA QuietRecord ==
    ASSUME TypeOK, Quiet, NEW r \in Records
    PROVE  /\ edits' \in {edits, edits + 1} /\ cloud'.records[r] = cloud.records[r]
           /\ \/ records'[r] = records[r]
              \/ records'[r].change = edits + 1 /\ records'[r].at = now /\ edits' = edits + 1
              \/ records'[r].change = 0 /\ records'[r].at = 0
<1>1. CASE UNCHANGED records /\ edits' \in {edits, edits + 1}
  BY <1>1 DEF Quiet
<1>2. CASE \E q \in Records : ChangeRecord(q)
  <2>1. PICK q \in Records : ChangeRecord(q)
    BY <1>2
  <2>2. CASE q = r
    BY <2>1, <2>2 DEF Quiet, ChangeRecord, TypeOK
  <2>3. CASE q # r
    BY <2>1, <2>3 DEF Quiet, ChangeRecord, TypeOK
  <2> QED
    BY <2>2, <2>3
<1>3. CASE WipeAttendance
  BY <1>3 DEF Quiet, WipeAttendance
<1> QED
  BY <1>1, <1>2, <1>3 DEF Quiet

LEMMA OrderStep ==
    ASSUME TypeOK, TypeOK', Resumable, Resumable', Ordered, [Next]_vars
    PROVE  Ordered'
<1> SUFFICES ASSUME NEW r \in Records
             PROVE  /\ (records[r].change <= edits /\ cloud.records[r] <= edits)'
                    /\ (records[r].change > 0 => cloud.records[r] <= records[r].change)'
                    /\ (upload # None => OrderedChunks(r))'
  BY DEF Ordered
<1>0. /\ records[r].change <= edits /\ cloud.records[r] <= edits
      /\ records[r].change > 0 => cloud.records[r] <= records[r].change
      /\ upload # None => OrderedChunks(r)
  BY DEF Ordered
<1>1. CASE Quiet
  <2>1. /\ (records[r].change <= edits /\ cloud.records[r] <= edits)'
        /\ (records[r].change > 0 => cloud.records[r] <= records[r].change)'
    BY <1>0, <1>1, QuietRecord, Numbers
  <2>2. CASE SameUpload
    <3> SUFFICES ASSUME NEW i \in 1..Len(upload.chunks)
                 PROVE  /\ (upload.chunks[i].records[r] <= edits)'
                        /\ (records[r].change > 0 => upload.chunks[i].records[r] <= records[r].change)'
                        /\ \A j \in i + 1..Len(upload.chunks) :
                               (upload.chunks[j].records[r] > 0
                                    => upload.chunks[i].records[r] <= upload.chunks[j].records[r])'
                        /\ (Reached(i) => upload.chunks[i].records[r] <= cloud.records[r])'
                        /\ (~Reached(i) /\ upload.chunks[i].records[r] > 0
                                => cloud.records[r] <= upload.chunks[i].records[r])'
      BY <2>1, <2>2 DEF OrderedChunks, SameUpload
    <3> DEFINE x(j) == upload.chunks[j].records[r]
    <3>1. /\ x(i) <= edits /\ (records[r].change > 0 => x(i) <= records[r].change)
          /\ \A j \in i + 1..Len(upload.chunks) : x(j) > 0 => x(i) <= x(j)
          /\ Reached(i) => x(i) <= cloud.records[r]
          /\ ~Reached(i) /\ x(i) > 0 => cloud.records[r] <= x(i)
          /\ x(i) \in Nat
      BY <1>0, <2>2, Numbers DEF OrderedChunks, SameUpload
    <3>2. upload'.chunks = upload.chunks /\ cloud'.records[r] = cloud.records[r]
      BY <1>1, <2>2, QuietRecord DEF SameUpload
    <3>3. Reached(i)' <=> Reached(i)
      BY <1>1, <2>2 DEF Reached, Quiet, SameUpload
    <3>4. /\ x(i) <= edits'
          /\ records'[r].change > 0 => x(i) <= records'[r].change
      <4>1. /\ edits \in Nat /\ edits' \in {edits, edits + 1}
            /\ \/ records'[r].change = records[r].change
               \/ records'[r].change = edits + 1 /\ edits' = edits + 1
               \/ records'[r].change = 0
        BY <1>1, QuietRecord, Numbers
      <4> HIDE DEF x
      <4> QED
        BY <3>1, <4>1
    <3> QED
      BY <3>1, <3>2, <3>3, <3>4
  <2>3. upload' = None => ~(upload # None)'
    OBVIOUS
  <2> QED
    BY <1>1, <2>1, <2>2, <2>3 DEF Quiet
<1>3. CASE ReadRows
  <2> DEFINE n == upload'.next
             new == upload'.chunks
  <2>1. /\ UNCHANGED <<records, edits>> /\ cloud'.records = cloud.records /\ cloud'.taken = 0
    BY <1>3 DEF ReadRows, TypeOK, Clouds
  <2>2. /\ n < Len(new) /\ n = IF upload = None THEN 0 ELSE upload.next
        /\ \A i \in 1..n : new[i] = upload.chunks[i]
        /\ \A i \in n + 1..Len(new) :
               /\ new[i].records \in {ExportedRecords, NoChanges}
               /\ \A j \in i + 1..Len(new) : new[i].records = NoChanges
        /\ n \in Nat /\ Len(new) \in Nat
    <3>1. n \in Nat /\ Len(new) \in Nat
      BY <1>3, ReadUpload DEF Uploads
    <3> QED
      BY <1>3, <3>1, ReadUpload
  <2>3. ExportedRecords[r] \in {0, records[r].change} /\ NoChanges[r] = 0
    BY DEF ExportedRecords, NoChanges
  <2>4. upload # None => upload.next <= Len(upload.chunks) /\ upload.next \in Nat /\ Len(upload.chunks) \in Nat
    BY Numbers DEF Resumable
  <2> HIDE DEF n, new
  <2>5. ASSUME NEW i \in 1..n
        PROVE  /\ upload # None /\ i \in 1..Len(upload.chunks) /\ i <= upload.next
               /\ new[i] = upload.chunks[i]
    BY <2>2, <2>4
  <2>6. ASSUME NEW i \in n + 1..Len(new)
        PROVE  /\ new[i].records[r] \in {0, records[r].change}
               /\ \A j \in i + 1..Len(new) : new[i].records[r] = 0
    BY <2>2, <2>3
  <2>7. ASSUME NEW i \in 1..Len(new)
        PROVE  i \in 1..n \/ i \in n + 1..Len(new)
    BY <2>2
  <2>8. ASSUME NEW i \in 1..n
        PROVE  /\ new[i].records[r] \in Nat /\ new[i].records[r] <= edits
               /\ records[r].change > 0 => new[i].records[r] <= records[r].change
               /\ new[i].records[r] <= cloud.records[r]
               /\ \A j \in i + 1..n : new[j].records[r] > 0 => new[i].records[r] <= new[j].records[r]
    <3>1. /\ upload # None /\ i \in 1..Len(upload.chunks) /\ i <= upload.next
          /\ new[i] = upload.chunks[i]
      BY <2>5
    <3>2. /\ upload.chunks[i].records[r] \in Nat /\ upload.chunks[i].records[r] <= edits
          /\ records[r].change > 0 => upload.chunks[i].records[r] <= records[r].change
          /\ upload.chunks[i].records[r] <= cloud.records[r]
          /\ \A j \in i + 1..Len(upload.chunks) :
                 upload.chunks[j].records[r] > 0
                     => upload.chunks[i].records[r] <= upload.chunks[j].records[r]
      BY <1>0, <3>1, Numbers DEF OrderedChunks, Reached
    <3>3. ASSUME NEW j \in i + 1..n
          PROVE  new[j] = upload.chunks[j] /\ j \in i + 1..Len(upload.chunks)
      BY <2>2, <2>4, <2>5, <3>1
    <3> QED
      BY <3>1, <3>2, <3>3
  <2>9. ASSUME NEW i \in 1..Len(new), NEW j \in i + 1..Len(new), new[j].records[r] > 0
        PROVE  new[i].records[r] <= new[j].records[r]
    <3>1. CASE i \in 1..n /\ j \in n + 1..Len(new)
      <4>1. new[j].records[r] = records[r].change
        BY <2>6, <2>9, <3>1
      <4>2. records[r].change > 0
        BY <2>9, <4>1
      <4>3. new[i].records[r] <= records[r].change
        BY <2>8, <3>1, <4>2
      <4> QED
        BY <4>1, <4>3
    <3>2. CASE i \in 1..n /\ j \in 1..n
      <4>1. j \in i + 1..n
        BY <2>2, <3>2
      <4> QED
        BY <2>8, <2>9, <3>2, <4>1
    <3>3. CASE i \in n + 1..Len(new)
      <4>1. new[i].records[r] = 0
        BY <2>6, <3>3
      <4>2. new[j].records[r] = records[r].change
        BY <2>2, <2>6, <2>9, <3>3
      <4> QED
        BY <4>1, <4>2, Numbers
    <3>4. i \in 1..n => j \in 1..n \/ j \in n + 1..Len(new)
      BY <2>2
    <3> QED
      BY <2>7, <3>1, <3>2, <3>3, <3>4
  <2>10. ASSUME NEW i \in n + 1..Len(new)
         PROVE  /\ ~(i <= n \/ i = 0)
                /\ new[i].records[r] <= edits
                /\ records[r].change > 0 => new[i].records[r] <= records[r].change
                /\ new[i].records[r] > 0 => cloud.records[r] <= new[i].records[r]
    <3>1. new[i].records[r] = 0 \/ new[i].records[r] = records[r].change
      BY <2>6, <2>10
    <3>2. records[r].change \in Nat /\ edits \in Nat /\ n \in Nat /\ i > n
      BY <2>2, <2>10, Numbers
    <3> QED
      BY <1>0, <3>1, <3>2
  <2>11. \A i : Reached(i)' <=> i <= n \/ i = 0
    BY <2>1 DEF Reached, n
  <2>12. OrderedChunks(r)'
    <3> SUFFICES ASSUME NEW i \in 1..Len(new)
                 PROVE  /\ new[i].records[r] <= edits
                        /\ records[r].change > 0 => new[i].records[r] <= records[r].change
                        /\ \A j \in i + 1..Len(new) :
                               new[j].records[r] > 0 => new[i].records[r] <= new[j].records[r]
                        /\ Reached(i)' => new[i].records[r] <= cloud.records[r]
                        /\ ~Reached(i)' /\ new[i].records[r] > 0
                                => cloud.records[r] <= new[i].records[r]
      BY <2>1 DEF OrderedChunks, new
    <3>1. CASE i \in 1..n
      BY <2>2, <2>8, <2>9, <2>11, <3>1
    <3>2. CASE i \in n + 1..Len(new)
      BY <2>9, <2>10, <2>11, <3>2
    <3> QED
      BY <2>7, <3>1, <3>2
  <2> QED
    BY <1>0, <2>1, <2>12
<1>4. CASE PushChunk
  <2> DEFINE x(i) == upload.chunks[i].records[r]
             n == upload.next
  <2>1. /\ UNCHANGED <<upload, records, edits>> /\ upload # None
        /\ n + 1 \in 1..Len(upload.chunks) /\ cloud'.taken = n + 1
        /\ cloud'.records[r] = IF cloud.taken # n + 1 /\ x(n + 1) > 0 THEN x(n + 1)
                               ELSE cloud.records[r]
    BY <1>4, Pushed
  <2>2. /\ n \in Nat /\ Len(upload.chunks) \in Nat /\ cloud.taken \in {0, n + 1}
        /\ \A i \in 1..Len(upload.chunks) : x(i) \in Nat
    BY <2>1, Numbers DEF Resumable
  <2>3. \A i \in 1..Len(upload.chunks) :
            /\ x(i) <= edits /\ (records[r].change > 0 => x(i) <= records[r].change)
            /\ \A j \in i + 1..Len(upload.chunks) : x(j) > 0 => x(i) <= x(j)
            /\ i <= n \/ i = cloud.taken => x(i) <= cloud.records[r]
            /\ ~(i <= n \/ i = cloud.taken) /\ x(i) > 0 => cloud.records[r] <= x(i)
    BY <1>0, <2>1 DEF OrderedChunks, Reached
  <2>4. \A i : Reached(i)' <=> i <= n \/ i = n + 1
    BY <2>1 DEF Reached
  <2> HIDE DEF x, n
  <2>5. /\ (records[r].change <= edits /\ cloud.records[r] <= edits)'
        /\ (records[r].change > 0 => cloud.records[r] <= records[r].change)'
    BY <1>0, <2>1, <2>2, <2>3
  <2>6. ASSUME NEW i \in 1..Len(upload.chunks)
        PROVE  /\ i <= n \/ i = n + 1 => x(i) <= cloud'.records[r]
               /\ ~(i <= n \/ i = n + 1) /\ x(i) > 0 => cloud'.records[r] <= x(i)
    <3>1. CASE cloud.taken # n + 1 /\ x(n + 1) > 0
      <4>1. cloud'.records[r] = x(n + 1) /\ cloud.records[r] <= x(n + 1) /\ cloud.records[r] \in Nat
        BY <2>1, <2>2, <2>3, <3>1, Numbers
      <4>2. x(i) \in Nat /\ x(n + 1) \in Nat /\ i \in Int
        BY <2>1, <2>2
      <4>3. CASE i <= n
        <5>1. x(i) <= cloud.records[r]
          BY <2>3, <4>3
        <5> QED
          BY <2>2, <4>1, <4>2, <4>3, <5>1
      <4>4. CASE i = n + 1
        BY <4>1, <4>2, <4>4
      <4>5. CASE i > n + 1
        <5>1. i \in n + 1 + 1..Len(upload.chunks)
          BY <2>1, <2>2, <4>5
        <5>2. x(i) > 0 => x(n + 1) <= x(i)
          BY <2>1, <2>3, <5>1
        <5> QED
          BY <2>2, <4>1, <4>5, <5>2
      <4> QED
        BY <2>2, <4>2, <4>3, <4>4, <4>5
    <3>2. CASE cloud.taken = n + 1 \/ x(n + 1) = 0
      <4>1. cloud'.records[r] = cloud.records[r] /\ cloud.records[r] \in Nat
        BY <2>1, <2>2, <3>2, Numbers
      <4> QED
        BY <2>1, <2>2, <2>3, <3>2, <4>1
    <3> QED
      BY <2>1, <2>2, <3>1, <3>2
  <2>7. OrderedChunks(r)'
    <3> SUFFICES ASSUME NEW i \in 1..Len(upload.chunks)
                 PROVE  /\ x(i) <= edits
                        /\ records[r].change > 0 => x(i) <= records[r].change
                        /\ \A j \in i + 1..Len(upload.chunks) : x(j) > 0 => x(i) <= x(j)
                        /\ Reached(i)' => x(i) <= cloud'.records[r]
                        /\ ~Reached(i)' /\ x(i) > 0 => cloud'.records[r] <= x(i)
      BY <2>1 DEF OrderedChunks, x
    <3> QED
      BY <2>3, <2>4, <2>6
  <2> QED
    BY <2>1, <2>5, <2>7
<1>5. CASE PushAnswered
  <2>1. \A i \in 1..Len(upload.chunks) : Reached(i)' <=> Reached(i)
    BY <1>5, Answered, Numbers DEF Reached
  <2>2. OrderedChunks(r)'
    BY <1>0, <1>5, <2>1, Answered DEF OrderedChunks
  <2> QED
    BY <1>0, <1>5, <2>2, Answered
<1> QED
  BY <1>1, <1>3, <1>4, <1>5, QuietSteps

(***************************************************************************)
(* Time.                                                                   *)
(***************************************************************************)
\* The clock does not go back, and an exchange takes its boundary from it.
LEMMA ClockStep ==
    ASSUME TypeOK, Resumable, [Next]_vars
    PROVE  now' \in {now, now + 1} /\ sync'.boundary \in {sync.boundary, 0, now}
<1> USE DEF stored, history, requests
<1>0. sync \in Syncs /\ sync.acks \in Acks /\ upload \in Uploads \cup {None} /\ acks \in Acks \cup {None}
  BY DEF TypeOK, Syncs
<1>1. CASE \/ Tick \/ EditReads \/ EditCommits \/ LateImport \/ (\E r \in Records : ChangeRecord(r))
           \/ CloudEdit \/ OrderWipe
  BY <1>1 DEF Tick, EditReads, EditCommits, LateImport, LateImportReads, LateImportCommits, ChangeRecord,
              CloudEdit, OrderWipe
<1>9. CASE CommandKnown \/ WipeAttendance \/ WipeFails \/ WipeDone \/ WipeFailed \/ Acknowledge
  BY <1>9 DEF CommandKnown, WipeAttendance, WipeFails, WipeDone, WipeFailed, Acknowledge
<1>2. CASE TimerFires \/ SyncRequired
  <2>1. now' = now /\ (sync' = sync \/ \E pullOnly \in BOOLEAN : sync' = Started(pullOnly, upload, acks))
    BY <1>2 DEF TimerFires, SyncRequired, PerformSync
  <2> QED
    BY <1>0, <2>1, StartedRun
<1>3. CASE TakeBoundary \/ ReadRows \/ ExportFails
  BY <1>0, <1>3 DEF TakeBoundary, ReadRows, ExportFails, Syncs
<1>4. CASE PushChunk \/ PushUnconfirmed \/ PushFails \/ PullPage \/ ImportReads
  BY <1>0, <1>4 DEF PushChunk, PushUnconfirmed, PushFails, PullPage, ImportReads, Syncs
<1>5. CASE PushAnswered
  BY <1>0, <1>5 DEF PushAnswered, Syncs
<1>6. CASE ImportCommits \/ PullFails \/ ImportTimesOut
  <2>1. now' = now /\ \E pulled \in BOOLEAN : Finish(pulled)
    BY <1>6 DEF ImportCommits, PullFails, ImportTimesOut, ImportAbandoned
  <2> QED
    BY <2>1, Finished
<1>7. CASE ExecuteCommand \/ Crash
  BY <1>7, IdleRun DEF ExecuteCommand, Aborted, ImportAbandoned, Crash
<1>8. CASE UNCHANGED vars
  BY <1>8 DEF vars
<1> QED
  BY <1>1, <1>2, <1>3, <1>4, <1>5, <1>6, <1>7, <1>8, <1>9 DEF Next, SyncStep, CommandStep

LEMMA PastStep ==
    ASSUME TypeOK, TypeOK', Resumable, InThePast, [Next]_vars
    PROVE  InThePast'
<1>0. now \in Nat /\ now' \in Nat /\ now <= now' /\ sync.boundary \in Nat /\ lastSyncedAt \in Nat
  BY ClockStep DEF TypeOK, Syncs
<1>1. sync'.boundary <= now'
  BY <1>0, ClockStep DEF InThePast
<1>2. Cursor <= now
  BY DEF InThePast, Cursor, Resumable
<1>3. ASSUME Quiet
      PROVE  /\ \A r \in Records : records'[r].at <= now'
             /\ lastSyncedAt' <= now' /\ (upload' # None => upload'.exportedAt <= now')
  <2>1. ASSUME NEW r \in Records
        PROVE  records'[r].at <= now'
    <3>1. records[r].at \in Nat /\ records[r].at <= now
      BY Numbers DEF InThePast
    <3>2. records'[r].at \in {records[r].at, now, 0}
      BY <1>3, QuietRecord
    <3> QED
      BY <1>0, <3>1, <3>2
  <2>2. lastSyncedAt' <= now'
    <3>1. lastSyncedAt' \in {lastSyncedAt, Cursor, 0} /\ lastSyncedAt' \in Nat
      BY <1>3 DEF Quiet, TypeOK
    <3> QED
      BY <1>0, <1>2, <3>1 DEF InThePast
  <2>3. ASSUME upload' # None
        PROVE  upload'.exportedAt <= now'
    <3>1. upload # None /\ upload'.exportedAt = upload.exportedAt /\ upload.exportedAt \in Nat
      BY <1>3, <2>3 DEF Quiet, SameUpload, TypeOK, Uploads
    <3> QED
      BY <1>0, <3>1 DEF InThePast
  <2> QED
    BY <2>1, <2>2, <2>3
<1>4. ASSUME ReadRows \/ PushChunk \/ PushAnswered
      PROVE  /\ UNCHANGED <<records, lastSyncedAt>>
             /\ upload' # None => upload'.exportedAt \in {upload.exportedAt, sync.boundary}
             /\ upload = None => upload' = None \/ upload'.exportedAt = sync.boundary
  BY <1>4, ReadUpload, Pushed, Answered DEF ReadRows
<1>5. ASSUME ReadRows \/ PushChunk \/ PushAnswered
      PROVE  /\ \A r \in Records : records'[r].at <= now'
             /\ lastSyncedAt' <= now' /\ (upload' # None => upload'.exportedAt <= now')
  <2>1. \A r \in Records : records[r].at \in Nat
    BY Numbers
  <2>2. upload # None => upload.exportedAt \in Nat
    BY DEF TypeOK, Uploads
  <2> QED
    BY <1>0, <1>4, <1>5, <2>1, <2>2 DEF InThePast
<1> QED
  BY <1>1, <1>3, <1>5, QuietSteps DEF InThePast

(***************************************************************************)
(* No change is forgotten.                                                 *)
(***************************************************************************)
\* A push takes nothing back: what the cloud has of the latest change it keeps.
LEMMA PushKeeps ==
    ASSUME TypeOK, Resumable, Ordered, PushChunk, NEW r \in Records,
           records[r].change > 0, cloud.records[r] = records[r].change
    PROVE  cloud'.records[r] = records[r].change
<1> DEFINE n == upload.next + 1
           x == upload.chunks[n].records[r]
<1>1. /\ upload # None /\ n \in 1..Len(upload.chunks)
      /\ cloud'.records[r] = IF cloud.taken # n /\ x > 0 THEN x ELSE cloud.records[r]
  BY Pushed
<1>2. CASE cloud.taken # n /\ x > 0
  <2>1. ~Reached(n)
    BY <1>1, <1>2, Numbers DEF Reached
  <2>2. x <= records[r].change /\ cloud.records[r] <= x
    BY <1>1, <1>2, <2>1 DEF Ordered, OrderedChunks
  <2>3. x \in Nat /\ records[r].change \in Nat
    BY <1>1, Numbers
  <2> QED
    BY <1>1, <1>2, <2>2, <2>3
<1> QED
  BY <1>1, <1>2

\* What reached the cloud of the latest change is in it.
LEMMA ReachedLatest ==
    ASSUME TypeOK, Ordered, NEW r \in Records, records[r].change > 0, upload # None,
           NEW i \in 1..Len(upload.chunks), Reached(i),
           upload.chunks[i].records[r] = records[r].change
    PROVE  cloud.records[r] = records[r].change
<1>1. records[r].change <= cloud.records[r] /\ cloud.records[r] <= records[r].change
  BY DEF Ordered, OrderedChunks
<1> QED
  BY <1>1, Numbers

LEMMA CoveredStep ==
    ASSUME TypeOK, TypeOK', Resumable, InThePast, Ordered, Covered, NothingForgotten, [Next]_vars
    PROVE  Covered'
<1> SUFFICES ASSUME NEW r \in Records, (upload # None)', (records[r].change > 0)',
                    (records[r].at < upload.exportedAt)'
             PROVE  \/ (cloud.records[r] = records[r].change)'
                    \/ \E i \in upload'.next + 1..Len(upload'.chunks) :
                           (upload.chunks[i].records[r] = records[r].change)'
  BY DEF Covered
<1>1. CASE Quiet
  <2>1. /\ SameUpload /\ cloud'.records[r] = cloud.records[r] /\ upload.exportedAt <= now
        /\ upload.exportedAt \in Nat /\ now \in Nat
    BY <1>1, QuietRecord, Numbers DEF Quiet, InThePast, SameUpload
  <2>2. records'[r] = records[r]
    BY <1>1, <2>1, QuietRecord DEF SameUpload
  <2> QED
    BY <2>1, <2>2 DEF Covered, SameUpload
<1>2. CASE ReadRows
  <2>1. /\ UNCHANGED records /\ cloud'.records = cloud.records
    BY <1>2 DEF ReadRows, TypeOK, Clouds
  <2>2. CASE ExportedRecords[r] = records[r].change
    <3>1. /\ Len(upload'.chunks) \in upload'.next + 1..Len(upload'.chunks)
          /\ upload'.chunks[Len(upload'.chunks)].records[r] = records[r].change
      <4>1. upload'.next \in Nat /\ Len(upload'.chunks) \in Nat
        BY <1>2, ReadUpload DEF Uploads
      <4> QED
        BY <1>2, <2>2, <4>1, ReadUpload
    <3> QED
      BY <2>1, <3>1
  <2>3. CASE AlreadyAccepted(r, records[r].change)
    <3>1. PICK i \in DOMAIN AcceptedChunks : AcceptedChunks[i].records[r] = records[r].change
      BY <2>3 DEF AlreadyAccepted
    <3>2. upload # None
      BY <3>1 DEF AcceptedChunks
    <3>3. /\ upload.chunks \in Seq(Chunks) /\ upload.next \in Nat /\ upload.next <= Len(upload.chunks)
      BY <3>2 DEF TypeOK, Uploads, Resumable
    <3>4. /\ \A j \in 1..upload.next : upload.chunks[j] \in Chunks
          /\ AcceptedChunks = SubSeq(upload.chunks, 1, upload.next)
      BY <3>2, <3>3 DEF AcceptedChunks
    <3>5. i \in 1..upload.next /\ AcceptedChunks[i] = upload.chunks[i]
      BY <3>1, <3>3, <3>4, SubSeqProperties
    <3>6. i \in 1..Len(upload.chunks) /\ Reached(i)
      BY <3>3, <3>5 DEF Reached
    <3> QED
      BY <2>1, <3>1, <3>2, <3>5, <3>6, ReachedLatest
  <2>4. CASE ~(records[r].at >= lastSyncedAt)
    BY <2>1, <2>4 DEF NothingForgotten
  <2> QED
    BY <2>2, <2>3, <2>4 DEF ExportedRecords
<1>3. CASE PushChunk
  <2>1. UNCHANGED <<upload, records>>
    BY <1>3, Pushed
  <2> QED
    BY <1>3, <2>1, PushKeeps DEF Covered
<1>4. CASE PushAnswered
  <2>1. /\ UNCHANGED records /\ cloud'.records = cloud.records /\ upload # None
        /\ upload'.chunks = upload.chunks /\ upload'.next = upload.next + 1
        /\ upload'.exportedAt = upload.exportedAt
        /\ upload.next + 1 \in 1..Len(upload.chunks) /\ cloud.taken = upload.next + 1
    BY <1>4, Answered
  <2>2. ASSUME NEW i \in upload.next + 1..Len(upload.chunks),
               upload.chunks[i].records[r] = records[r].change
        PROVE  cloud.records[r] = records[r].change \/ i \in upload.next + 1 + 1..Len(upload.chunks)
    <3>1. CASE i = upload.next + 1
      BY <2>1, <2>2, <3>1, ReachedLatest DEF Reached
    <3> QED
      BY <2>1, <2>2, <3>1, Numbers
  <2>3. \/ cloud.records[r] = records[r].change
        \/ \E i \in upload.next + 1..Len(upload.chunks) :
               upload.chunks[i].records[r] = records[r].change
    BY <2>1 DEF Covered
  <2> QED
    BY <2>1, <2>2, <2>3
<1> QED
  BY <1>1, <1>2, <1>3, <1>4, QuietSteps

LEMMA ForgottenStep ==
    ASSUME TypeOK, TypeOK', Resumable, InThePast, Ordered, Covered, NothingForgotten, [Next]_vars
    PROVE  NothingForgotten'
<1> SUFFICES ASSUME NEW r \in Records, (records[r].change > 0)',
                    (cloud.records[r] # records[r].change)'
             PROVE  (records[r].at >= lastSyncedAt)'
  BY DEF NothingForgotten
<1>1. CASE Quiet
  <2>1. /\ lastSyncedAt' \in {lastSyncedAt, Cursor, 0} /\ lastSyncedAt' \in Nat
        /\ cloud'.records[r] = cloud.records[r]
        /\ records'[r] = records[r] \/ records'[r].at = now
    BY <1>1, QuietRecord DEF Quiet, TypeOK
  <2>2. Cursor <= now /\ lastSyncedAt <= now /\ now \in Nat
    BY Numbers DEF InThePast, Cursor, Resumable
  <2>3. ASSUME records'[r] = records[r]
        PROVE  records[r].at >= lastSyncedAt'
    <3>1. records[r].at >= lastSyncedAt /\ records[r].at \in Nat
      BY <2>1, <2>3, Numbers DEF NothingForgotten
    <3>2. CASE sync.pushed
      <4>1. /\ Cursor = upload.exportedAt /\ upload # None /\ upload.exportedAt \in Nat
            /\ upload.next = Len(upload.chunks) /\ upload.next \in Nat
        BY <3>2, Numbers DEF Cursor, Resumable
      <4>2. ~ \E i \in upload.next + 1..Len(upload.chunks) : TRUE
        BY <4>1
      <4>3. ~(records[r].at < upload.exportedAt)
        BY <2>1, <2>3, <4>1, <4>2 DEF Covered
      <4> QED
        BY <2>1, <3>1, <4>1, <4>3
    <3>3. CASE ~sync.pushed
      BY <2>1, <3>1, <3>3 DEF Cursor
    <3> QED
      BY <3>2, <3>3
  <2> QED
    BY <2>1, <2>2, <2>3
<1>2. CASE PushChunk
  <2>1. UNCHANGED <<records, lastSyncedAt>>
    BY <1>2, Pushed
  <2> QED
    BY <1>2, <2>1, PushKeeps DEF NothingForgotten
<1>3. CASE ReadRows \/ PushAnswered
  <2>1. UNCHANGED <<records, lastSyncedAt>> /\ cloud'.records = cloud.records
    BY <1>3, Answered DEF ReadRows, TypeOK, Clouds
  <2> QED
    BY <2>1 DEF NothingForgotten
<1> QED
  BY <1>1, <1>2, <1>3, QuietSteps

(***************************************************************************)
(* The wipe.                                                               *)
(***************************************************************************)
\* Few steps are of the command.
LEMMA CommandSteps ==
    ASSUME [Next]_vars
    PROVE  \/ UNCHANGED <<receipt, command, wipes, wiped>>
           \/ ExecuteCommand \/ CommandKnown \/ WipeAttendance \/ WipeFails \/ WipeDone \/ WipeFailed
           \/ Acknowledge \/ Crash
<1> USE DEF stored, history, requests
<1>1. CASE \/ Tick \/ EditReads \/ EditCommits \/ LateImport \/ (\E r \in Records : ChangeRecord(r))
           \/ CloudEdit \/ OrderWipe \/ TakeBoundary \/ TimerFires \/ SyncRequired
  BY <1>1 DEF Tick, EditReads, EditCommits, LateImport, LateImportReads, LateImportCommits, ChangeRecord,
              CloudEdit, OrderWipe, TakeBoundary, TimerFires, SyncRequired, PerformSync
<1>2. CASE ReadRows \/ ExportFails \/ PushChunk \/ PushAnswered \/ PushUnconfirmed \/ PushFails \/ PullPage
           \/ ImportReads
  BY <1>2 DEF ReadRows, ExportFails, PushChunk, PushAnswered, PushUnconfirmed, PushFails, PullPage, ImportReads
<1>3. CASE ImportCommits \/ PullFails \/ ImportTimesOut
  BY <1>3 DEF ImportCommits, PullFails, ImportTimesOut, ImportAbandoned, Finish
<1>4. CASE UNCHANGED vars
  BY <1>4 DEF vars
<1> QED
  BY <1>1, <1>2, <1>3, <1>4 DEF Next, SyncStep, CommandStep

LEMMA WipeControl ==
    ASSUME TypeOK, Wiping, [Next]_vars
    PROVE  /\ wipes' <= 1
           /\ (receipt = "none" \/ command = "waiting" => wipes = 0)'
           /\ (IsWiping => receipt = "interrupted")'
           /\ WipeAttendance \/ wiped' = wiped
           /\ receipt' = "completed" => upload' = None \/ receipt = "completed"
<1> USE DEF stored, history, requests, IsWiping
<1>1. CASE UNCHANGED <<receipt, command, wipes, wiped>>
  BY <1>1 DEF Wiping
<1>2. CASE ExecuteCommand
  BY <1>2 DEF ExecuteCommand, Aborted, ImportAbandoned, Asked, Wiping, Intent
<1>3. CASE WipeAttendance
  BY <1>3 DEF WipeAttendance, Wiping
<1>4. CASE CommandKnown \/ WipeFails \/ WipeFailed \/ Acknowledge \/ Crash
  BY <1>4 DEF CommandKnown, WipeFails, WipeFailed, Acknowledge, Crash, Wiping
<1>5. CASE WipeDone
  BY <1>5 DEF WipeDone, UploadAfterWipe, Wiping
<1> QED
  BY <1>1, <1>2, <1>3, <1>4, <1>5, CommandSteps

\* What the export finds, and what is pushed, is newer than the wipe.
LEMMA WipeStep ==
    ASSUME TypeOK, TypeOK', Resumable, Ordered, Wiping, [Next]_vars
    PROVE  Wiping'
<1>0. edits \in Nat /\ edits' \in Nat /\ wiped \in Nat /\ wiped <= edits
  BY DEF TypeOK, Wiping
<1>1. CASE WipeAttendance
  <2>1. /\ wiped' = edits /\ edits' = edits /\ receipt' = receipt /\ receipt = "interrupted"
        /\ \A r \in Records : records'[r].change = 0
    BY <1>1 DEF WipeAttendance, stored, Wiping, IsWiping
  <2>2. /\ wiped' <= edits' /\ receipt' # "completed"
        /\ \A r \in Records : ~(records'[r].change > 0)
    BY <1>0, <2>1
  <2> QED
    BY <2>2, WipeControl DEF Wiping
<1>2. CASE wiped' = wiped /\ ~WipeAttendance
  <2>1. /\ wiped' <= edits'
        /\ \A r \in Records : (records[r].change > 0 => records[r].change > wiped)'
    <3>1. CASE Quiet
      <4>1. wiped' <= edits'
        BY <1>0, <1>2, <3>1 DEF Quiet, ChangeRecord
      <4>2. ASSUME NEW r \in Records, records'[r].change > 0
            PROVE  records'[r].change > wiped
        <5>1. records'[r].change = records[r].change \/ records'[r].change = edits + 1
          BY <3>1, <4>2, QuietRecord
        <5> QED
          BY <1>0, <4>2, <5>1 DEF Wiping
      <4> QED
        BY <1>2, <4>1, <4>2
    <3>2. CASE ReadRows \/ PushChunk \/ PushAnswered
      BY <1>0, <1>2, <3>2, Pushed, Answered DEF ReadRows, Wiping
    <3> QED
      BY <3>1, <3>2, QuietSteps
  <2>2. ASSUME receipt' = "completed", upload' # None, NEW r \in Records,
               NEW i \in 1..Len(upload'.chunks), ~Reached(i)', (upload.chunks[i].records[r] > 0)'
        PROVE  (upload.chunks[i].records[r] > wiped)'
    <3>0. receipt = "completed"
      BY <2>2, WipeControl
    <3>1. CASE Quiet
      <4>1. /\ upload # None /\ upload'.chunks = upload.chunks /\ ~Reached(i)
        BY <2>2, <3>1 DEF Quiet, SameUpload, Reached
      <4> QED
        BY <1>2, <2>2, <3>0, <4>1 DEF Wiping
    <3>2. CASE ReadRows
      <4>1. /\ upload'.next \in Nat /\ Len(upload'.chunks) \in Nat
            /\ records[r].change \in Nat
        BY <3>2, ReadUpload, Numbers DEF Uploads
      <4>2. i \in upload'.next + 1..Len(upload'.chunks)
        BY <2>2, <4>1 DEF Reached
      <4>3. upload'.chunks[i].records \in {ExportedRecords, NoChanges}
        BY <3>2, <4>2, ReadUpload
      <4>4. upload'.chunks[i].records[r] \in {records[r].change, 0}
        BY <4>3 DEF ExportedRecords, NoChanges
      <4>5. upload'.chunks[i].records[r] = records[r].change /\ records[r].change > 0
        BY <2>2, <4>4
      <4> QED
        BY <1>2, <4>5 DEF Wiping
    <3>3. CASE PushChunk
      <4>1. upload' = upload /\ upload # None /\ cloud'.taken = upload.next + 1
            /\ cloud.taken \in {0, upload.next + 1} /\ upload.next \in Nat /\ i \in Nat \ {0}
        BY <2>2, <3>3, Pushed, Numbers DEF Resumable
      <4>2. ~Reached(i)
        BY <2>2, <4>1 DEF Reached
      <4> QED
        BY <1>2, <2>2, <3>0, <4>1, <4>2 DEF Wiping
    <3>4. CASE PushAnswered
      <4>1. upload # None /\ upload'.chunks = upload.chunks /\ upload'.next = upload.next + 1
            /\ cloud.taken = upload.next + 1 /\ upload.next \in Nat /\ i \in Nat \ {0}
        BY <2>2, <3>4, Answered, Numbers
      <4>2. ~Reached(i)
        BY <2>2, <4>1 DEF Reached
      <4> QED
        BY <1>2, <2>2, <3>0, <4>1, <4>2 DEF Wiping
    <3> QED
      BY <3>1, <3>2, <3>3, <3>4, QuietSteps
  <2> QED
    BY <2>1, <2>2, WipeControl DEF Wiping
<1> QED
  BY <1>1, <1>2, WipeControl

(***************************************************************************)
(* Acknowledgements.                                                       *)
(***************************************************************************)
\* Few steps are of the row.
LEMMA RowSteps ==
    ASSUME [Next]_vars
    PROVE  \/ UNCHANGED <<row, mine>> /\ (delivered => delivered')
           \/ EditCommits \/ ImportCommits \/ LateImportCommits \/ WipeAttendance
<1> USE DEF stored, history, requests
<1>1. CASE \/ Tick \/ EditReads \/ LateImportReads \/ (\E r \in Records : ChangeRecord(r)) \/ CloudEdit
           \/ OrderWipe \/ TakeBoundary \/ TimerFires \/ SyncRequired
  BY <1>1 DEF Tick, EditReads, LateImportReads, ChangeRecord, CloudEdit, OrderWipe, TakeBoundary,
              TimerFires, SyncRequired, PerformSync
<1>2. CASE ReadRows \/ ExportFails \/ PushChunk \/ PushAnswered \/ PushUnconfirmed \/ PushFails \/ PullPage
           \/ ImportReads \/ PullFails \/ ImportTimesOut
  BY <1>2 DEF ReadRows, ExportFails, PushChunk, PushAnswered, PushUnconfirmed, PushFails, PullPage,
              ImportReads, PullFails, ImportTimesOut, ImportAbandoned
<1>3. CASE ExecuteCommand \/ CommandKnown \/ WipeFails \/ WipeDone \/ WipeFailed \/ Acknowledge \/ Crash
  BY <1>3 DEF ExecuteCommand, ImportAbandoned, CommandKnown, WipeFails, WipeDone, WipeFailed, Acknowledge, Crash
<1>4. CASE UNCHANGED vars
  BY <1>4 DEF vars
<1> QED
  BY <1>1, <1>2, <1>3, <1>4 DEF Next, LateImport, SyncStep, CommandStep

\* An import that writes the row: its own run's, or a late one.
LEMMA ImportSteps ==
    ASSUME TypeOK, Resumable, ImportCommits \/ LateImportCommits
    PROVE  /\ UNCHANGED <<mine, delivered, edits>>
           /\ \E import \in late \cup {OwnImport} :
                  /\ import \in Imports /\ import.read \in Rows /\ import.read # None
                  /\ row' = Written(import.read, Imported(import))
                  /\ Remote(import.page.val) /\ Held(import.acks)
<1> USE DEF history
<1>1. CASE ImportCommits
  <2>1. sync.at = "import" /\ row' = Written(sync.read, Imported(OwnImport))
    BY <1>1 DEF ImportCommits
  <2>2. /\ OwnImport \in Imports /\ OwnImport.read = sync.read /\ sync.read \in Rows /\ sync.read # None
        /\ OwnImport.acks = sync.acks /\ OwnImport.page = sync.page
    BY <2>1, OwnImportType
  <2> QED
    BY <1>1, <2>1, <2>2 DEF ImportCommits, Remote, Held, HeldByRuns
<1>2. CASE LateImportCommits
  <2>1. PICK import \in late : import.read # None /\ row' = Written(import.read, Imported(import))
    BY <1>2 DEF LateImportCommits
  <2>2. import \in Imports /\ import.read \in Rows
    BY <2>1 DEF TypeOK, Imports
  <2> QED
    BY <1>2, <2>1, <2>2 DEF LateImportCommits, Remote, Held
<1> QED
  BY <1>1, <1>2

\* The row becomes a newer edit; or its version stays, and it holds the latest
\* edit only if it did or the cloud has it.
LEMMA RowStep ==
    ASSUME TypeOK, Resumable, Numbered, [Next]_vars
    PROVE  \/ /\ row'.version = row.version /\ mine' = mine /\ (delivered => delivered')
              /\ row'.val = mine => row.val = mine \/ delivered
              /\ row'.val <= edits
           \/ EditCommits /\ row'.version = row.version + 1
<1>0. row \in Rows /\ mine \in Nat /\ row.val <= edits /\ edits \in Nat /\ Gone \notin Nat /\ Gone <= edits
  BY DEF TypeOK, Numbered, Gone
<1>1. CASE UNCHANGED <<row, mine>> /\ (delivered => delivered')
  BY <1>0, <1>1
<1>2. CASE EditCommits
  BY <1>0, <1>2, RowEdited DEF Numbered, TypeOK
<1>3. CASE ImportCommits \/ LateImportCommits
  <2>1. PICK import \in late \cup {OwnImport} :
            /\ import \in Imports /\ import.read \in Rows /\ import.read # None
            /\ row' = Written(import.read, Imported(import))
            /\ Remote(import.page.val) /\ Held(import.acks)
    BY <1>3, ImportSteps
  <2>2. /\ Imported(import) \in Rows /\ Imported(import).version = import.read.version
        /\ Imported(import).val \in {import.read.val, import.page.val}
    BY <2>1, ImportedRow
  <2>3. row'.version = row.version /\ row'.val \in {row.val, import.page.val}
    BY <1>0, <2>1, <2>2, WrittenRow
  <2>4. import.page.val \in Int
    BY <2>1 DEF Imports, Pages
  <2>5. import.page.val <= edits /\ (import.page.val = mine => delivered)
    BY <2>1, <2>4 DEF Numbered
  <2> QED
    BY <1>0, <1>3, <2>3, <2>5, ImportSteps
<1>4. CASE WipeAttendance
  <2>1. row'.version = row.version /\ row'.val = Gone /\ mine' = mine /\ delivered' = delivered
    BY <1>4 DEF WipeAttendance, TypeOK, Rows
  <2> QED
    BY <1>0, <2>1
<1> QED
  BY <1>1, <1>2, <1>3, <1>4, RowSteps

\* Acknowledgements come from an answer; everything else only hands them on.
LEMMA HeldByRunsStep ==
    ASSUME TypeOK, Resumable, [Next]_vars, NEW ack \in Acks, HeldByRuns(ack)'
    PROVE  HeldByRuns(ack) \/ ack = EmptyAcks \/ (ack = Acknowledged /\ sync.at = "sent")
<1> USE DEF stored, history, requests
<1>0. sync \in Syncs /\ sync.acks \in Acks /\ upload \in Uploads \cup {None} /\ acks \in Acks \cup {None}
  BY DEF TypeOK, Syncs
<1>1. CASE UNCHANGED <<upload, acks, sync>>
  BY <1>1 DEF HeldByRuns
<1>2. CASE TimerFires \/ SyncRequired
  <2>1. UNCHANGED <<upload, acks>> /\ (sync' = sync \/ \E pullOnly \in BOOLEAN : sync' = Started(pullOnly, upload, acks))
    BY <1>2 DEF TimerFires, SyncRequired, PerformSync
  <2> QED
    BY <1>0, <2>1, StartedRun DEF HeldByRuns
<1>3. CASE TakeBoundary \/ ExportFails \/ PullPage \/ ImportReads \/ PushChunk
  <2>1. UNCHANGED <<upload, acks>> /\ sync'.acks = sync.acks
    BY <1>0, <1>3 DEF TakeBoundary, ExportFails, PullPage, ImportReads, PushChunk, Syncs
  <2> QED
    BY <2>1 DEF HeldByRuns
<1>4. CASE ReadRows
  <2>1. UNCHANGED acks /\ sync'.acks = sync.acks /\ upload'.acknowledged = sync.acks
    BY <1>0, <1>4, ReadUpload DEF ReadRows, Syncs
  <2> QED
    BY <2>1 DEF HeldByRuns
<1>5. CASE PushAnswered
  <2>1. /\ UNCHANGED acks /\ sync'.acks = Acknowledged /\ upload'.acknowledged = Acknowledged
        /\ sync.at = "sent"
    BY <1>5, Answered DEF PushAnswered
  <2> QED
    BY <2>1 DEF HeldByRuns
<1>6. CASE PushUnconfirmed
  <2>1. UNCHANGED <<upload, acks>> /\ sync'.acks \in {sync.acks, Acknowledged} /\ sync.at = "sent"
    BY <1>0, <1>6 DEF PushUnconfirmed, Syncs
  <2> QED
    BY <2>1 DEF HeldByRuns
<1>7. CASE PushFails
  <2>1. UNCHANGED acks /\ sync'.acks = sync.acks
    BY <1>0, <1>7 DEF PushFails, Syncs
  <2>2. upload # None /\ upload'.acknowledged = upload.acknowledged
    <3>1. PICK rejected \in BOOLEAN : upload' = [upload EXCEPT !.rejected = @ \/ rejected]
      BY <1>7 DEF PushFails
    <3>2. upload # None /\ upload \in Uploads
      BY <1>0, <1>7 DEF PushFails, Resumable
    <3> QED
      BY <3>1, <3>2 DEF Uploads
  <2> QED
    BY <2>1, <2>2 DEF HeldByRuns
<1>8. CASE ImportCommits \/ PullFails \/ ImportTimesOut
  <2>1. \E pulled \in BOOLEAN : Finish(pulled)
    BY <1>8 DEF ImportCommits, PullFails, ImportTimesOut
  <2>2. /\ upload' = None \/ upload' = upload
        /\ acks' \in {None, sync.acks}
        /\ \/ sync'.acks = EmptyAcks
           \/ upload' # None /\ sync'.acks = upload'.acknowledged
           \/ acks' # None /\ sync'.acks = acks'
    BY <2>1, Finished
  <2> QED
    BY <2>2 DEF HeldByRuns
<1>9. CASE ExecuteCommand \/ Crash
  <2>1. CASE sync' = sync /\ UNCHANGED <<upload, acks>>
    BY <2>1 DEF HeldByRuns
  <2>2. CASE sync' = Idle /\ upload' \in {None, upload} /\ acks' \in {acks, sync.acks}
    BY <2>2, IdleRun DEF HeldByRuns
  <2> QED
    BY <1>9, <2>1, <2>2 DEF ExecuteCommand, Aborted, Crash
<1>10. CASE WipeDone
  BY <1>10 DEF WipeDone, UploadAfterWipe, HeldByRuns
<1>11. CASE \/ Tick \/ EditReads \/ EditCommits \/ LateImport \/ (\E r \in Records : ChangeRecord(r))
            \/ CloudEdit \/ OrderWipe \/ CommandKnown \/ WipeAttendance \/ WipeFails \/ WipeFailed
            \/ Acknowledge \/ UNCHANGED vars
  <2>1. UNCHANGED <<upload, acks, sync>>
    BY <1>11 DEF Tick, EditReads, EditCommits, LateImport, LateImportReads, LateImportCommits, ChangeRecord,
                 CloudEdit, OrderWipe, CommandKnown, WipeAttendance, WipeFails, WipeFailed, Acknowledge, vars
  <2> QED
    BY <1>1, <2>1
<1> QED
  BY <1>1, <1>2, <1>3, <1>4, <1>5, <1>6, <1>7, <1>8, <1>9, <1>10, <1>11 DEF Next, SyncStep, CommandStep

\* Imports that nobody waits for were of a run, or are older.
LEMMA LateStep ==
    ASSUME TypeOK, Resumable, [Next]_vars, NEW import \in late'
    PROVE  \/ \E earlier \in late : import.acks = earlier.acks /\ import.page = earlier.page
           \/ sync.at \in {"page", "import"} /\ import.acks = sync.acks /\ import.page = sync.page
<1> USE DEF stored, history, requests
<1>1. CASE late' \subseteq late
  BY <1>1
<1>2. CASE LateImportReads
  <2>1. PICK earlier \in late : late' = (late \ {earlier}) \cup {[earlier EXCEPT !.read = row]}
    BY <1>2 DEF LateImportReads
  <2>2. /\ [earlier EXCEPT !.read = row].acks = earlier.acks
        /\ [earlier EXCEPT !.read = row].page = earlier.page
    BY <2>1 DEF TypeOK, Imports
  <2> QED
    BY <2>1, <2>2
<1>3. CASE ImportAbandoned
  <2>1. sync.at \in {"page", "import"} /\ late' = late \cup {OwnImport}
    BY <1>3 DEF ImportAbandoned
  <2> QED
    BY <2>1, OwnImportType
<1>4. CASE ImportTimesOut \/ ExecuteCommand
  BY <1>1, <1>3, <1>4 DEF ImportTimesOut, ExecuteCommand
<1>5. CASE \/ Tick \/ EditReads \/ EditCommits \/ LateImportCommits \/ (\E r \in Records : ChangeRecord(r))
           \/ CloudEdit \/ OrderWipe \/ TimerFires \/ SyncRequired \/ UNCHANGED vars
  <2>1. late' \subseteq late
    BY <1>5 DEF Tick, EditReads, EditCommits, LateImportCommits, ChangeRecord, CloudEdit, OrderWipe,
                TimerFires, SyncRequired, PerformSync, vars
  <2> QED
    BY <1>1, <2>1
<1>6. CASE \/ TakeBoundary \/ ReadRows \/ ExportFails \/ PushChunk \/ PushAnswered \/ PushUnconfirmed
           \/ PushFails \/ PullPage \/ ImportReads \/ ImportCommits \/ PullFails
  <2>1. late' = late
    BY <1>6 DEF TakeBoundary, ReadRows, ExportFails, PushChunk, PushAnswered, PushUnconfirmed, PushFails,
                PullPage, ImportReads, ImportCommits, PullFails
  <2> QED
    BY <1>1, <2>1
<1>7. CASE CommandKnown \/ WipeAttendance \/ WipeFails \/ WipeDone \/ WipeFailed \/ Acknowledge \/ Crash
  <2>1. late' \subseteq late
    BY <1>7 DEF CommandKnown, WipeAttendance, WipeFails, WipeDone, WipeFailed, Acknowledge, Crash
  <2> QED
    BY <1>1, <2>1
<1> QED
  BY <1>2, <1>4, <1>5, <1>6, <1>7 DEF Next, LateImport, SyncStep, CommandStep

LEMMA HeldStep ==
    ASSUME TypeOK, Resumable, [Next]_vars, NEW ack \in Acks, Held(ack)'
    PROVE  Held(ack) \/ ack = EmptyAcks \/ (ack = Acknowledged /\ sync.at = "sent")
<1>1. CASE HeldByRuns(ack)'
  BY <1>1, HeldByRunsStep DEF Held
<1>2. CASE \E import \in late' : ack = import.acks
  BY <1>2, LateStep DEF Held, HeldByRuns
<1> QED
  BY <1>1, <1>2 DEF Held

\* While an answer is awaited, the upload stays.
LEMMA SentStep ==
    ASSUME TypeOK, Resumable, [Next]_vars, sync'.at = "sent"
    PROVE  PushChunk \/ (sync.at = "sent" /\ UNCHANGED upload)
<1> USE DEF stored, history, requests
<1>0. sync \in Syncs /\ upload \in Uploads \cup {None} /\ acks \in Acks \cup {None}
  BY DEF TypeOK
<1>1. CASE \/ Tick \/ EditReads \/ EditCommits \/ LateImport \/ (\E r \in Records : ChangeRecord(r))
           \/ CloudEdit \/ OrderWipe
  BY <1>1 DEF Tick, EditReads, EditCommits, LateImport, LateImportReads, LateImportCommits, ChangeRecord,
              CloudEdit, OrderWipe
<1>8. CASE \/ CommandKnown \/ WipeAttendance \/ WipeFails \/ WipeFailed \/ Acknowledge \/ UNCHANGED vars
  BY <1>8 DEF CommandKnown, WipeAttendance, WipeFails, WipeFailed, Acknowledge, vars
<1>2. CASE TimerFires \/ SyncRequired
  <2>1. \/ UNCHANGED <<sync, upload>>
        \/ \E pullOnly \in BOOLEAN : sync' = Started(pullOnly, upload, acks)
    BY <1>2 DEF TimerFires, SyncRequired, PerformSync
  <2> QED
    BY <1>0, <2>1, StartedRun
<1>3. CASE \/ TakeBoundary \/ ReadRows \/ ExportFails \/ PushUnconfirmed \/ PushFails \/ PullPage
           \/ ImportReads
  <2>1. sync'.at \in {"rows", "push", "pull", "page", "import"}
    BY <1>0, <1>3 DEF TakeBoundary, ReadRows, ExportFails, PushUnconfirmed, PushFails, PullPage, ImportReads, Syncs
  <2> QED
    BY <2>1
<1>4. CASE PushAnswered
  <2>1. sync'.at \in {"pull", "push"}
    BY <1>0, <1>4 DEF PushAnswered, Syncs
  <2> QED
    BY <2>1
<1>5. CASE ImportCommits \/ PullFails \/ ImportTimesOut
  <2>1. \E pulled \in BOOLEAN : Finish(pulled)
    BY <1>5 DEF ImportCommits, PullFails, ImportTimesOut
  <2> QED
    BY <2>1, Finished
<1>6. CASE ExecuteCommand \/ Crash
  BY <1>6, IdleRun DEF ExecuteCommand, Aborted, Crash
<1>7. CASE WipeDone
  BY <1>7 DEF WipeDone, Resumable, IsWiping
<1> QED
  BY <1>1, <1>2, <1>3, <1>4, <1>5, <1>6, <1>7, <1>8 DEF Next, SyncStep, CommandStep

\* What comes from the cloud is what it had, or what it is given.
LEMMA CloudValue ==
    ASSUME TypeOK, Resumable, [Next]_vars
    PROVE  \/ cloud'.val = cloud.val
           \/ PushChunk /\ Current.row # None /\ cloud'.val = Current.row.val
           \/ CloudEdit /\ cloud'.val \in {edits + 1, Gone}
<1> USE DEF stored, history, requests
<1>0. cloud \in Clouds
  BY DEF TypeOK
<1>1. CASE CloudEdit
  BY <1>0, <1>1 DEF CloudEdit, Clouds
<1>2. CASE PushChunk
  <2>1. CASE cloud' = cloud
    BY <2>1
  <2>2. CASE cloud' = Taken(Current)
    <3> DEFINE kept == Current.row = None \/ Current.row.base # cloud.revision
    <3>1. Taken(Current).val = IF kept THEN cloud.val ELSE Current.row.val
      BY <1>0 DEF Taken, Clouds
    <3> QED
      BY <1>2, <2>2, <3>1
  <2> QED
    BY <1>2, <2>1, <2>2 DEF PushChunk
<1>3. CASE OrderWipe \/ ReadRows \/ PushAnswered \/ Acknowledge
  BY <1>0, <1>3 DEF OrderWipe, ReadRows, PushAnswered, Acknowledge, Clouds
<1>4. CASE \/ Tick \/ EditReads \/ EditCommits \/ LateImport \/ (\E r \in Records : ChangeRecord(r))
           \/ TimerFires \/ SyncRequired \/ UNCHANGED vars
  BY <1>4 DEF Tick, EditReads, EditCommits, LateImport, LateImportReads, LateImportCommits, ChangeRecord,
              TimerFires, SyncRequired, PerformSync, vars
<1>5. CASE \/ TakeBoundary \/ ExportFails \/ PushUnconfirmed \/ PushFails \/ PullPage \/ ImportReads
           \/ ImportCommits \/ PullFails \/ ImportTimesOut
  BY <1>5 DEF TakeBoundary, ExportFails, PushUnconfirmed, PushFails, PullPage, ImportReads, ImportCommits,
              PullFails, ImportTimesOut, ImportAbandoned
<1>6. CASE \/ ExecuteCommand \/ CommandKnown \/ WipeAttendance \/ WipeFails \/ WipeDone \/ WipeFailed \/ Crash
  BY <1>6 DEF ExecuteCommand, ImportAbandoned, CommandKnown, WipeAttendance, WipeFails, WipeDone, WipeFailed, Crash
<1> QED
  BY <1>1, <1>2, <1>3, <1>4, <1>5, <1>6 DEF Next, SyncStep, CommandStep

\* A page is of the cloud, and stays the page of its run.
LEMMA PageStep ==
    ASSUME TypeOK, Resumable, [Next]_vars, sync'.at \in {"page", "import"}
    PROVE  sync'.page.val = cloud.val \/ (sync.at \in {"page", "import"} /\ sync'.page = sync.page)
<1> USE DEF stored, history, requests
<1>0. sync \in Syncs /\ upload \in Uploads \cup {None} /\ acks \in Acks \cup {None}
  BY DEF TypeOK
<1>1. CASE UNCHANGED sync
  BY <1>1
<1>2. CASE PullPage
  BY <1>2, PullTypes DEF TypeOK
<1>3. CASE ImportReads
  <2>1. sync.at = "page" /\ sync'.page = sync.page
    BY <1>0, <1>3, ReadTypes DEF ImportReads, TypeOK
  <2> QED
    BY <2>1
<1>4. CASE TimerFires \/ SyncRequired
  <2>1. sync' = sync \/ \E pullOnly \in BOOLEAN : sync' = Started(pullOnly, upload, acks)
    BY <1>4 DEF TimerFires, SyncRequired, PerformSync
  <2> QED
    BY <1>0, <1>1, <2>1, StartedRun
<1>5. CASE \/ TakeBoundary \/ ReadRows \/ ExportFails \/ PushChunk \/ PushAnswered \/ PushUnconfirmed
           \/ PushFails
  <2>1. sync'.at \in {"rows", "push", "sent", "pull"}
    BY <1>0, <1>5 DEF TakeBoundary, ReadRows, ExportFails, PushChunk, PushAnswered, PushUnconfirmed, PushFails,
                      Syncs
  <2> QED
    BY <2>1
<1>6. CASE ImportCommits \/ PullFails \/ ImportTimesOut
  <2>1. \E pulled \in BOOLEAN : Finish(pulled)
    BY <1>6 DEF ImportCommits, PullFails, ImportTimesOut
  <2> QED
    BY <2>1, Finished
<1>7. CASE ExecuteCommand \/ Crash
  BY <1>7, IdleRun DEF ExecuteCommand, Aborted, Crash
<1>8. CASE \/ Tick \/ EditReads \/ EditCommits \/ LateImport \/ (\E r \in Records : ChangeRecord(r))
           \/ CloudEdit \/ OrderWipe \/ CommandKnown \/ WipeAttendance \/ WipeFails \/ WipeDone \/ WipeFailed
           \/ Acknowledge \/ UNCHANGED vars
  <2>1. sync' = sync
    BY <1>8 DEF Tick, EditReads, EditCommits, LateImport, LateImportReads, LateImportCommits, ChangeRecord,
                CloudEdit, OrderWipe, CommandKnown, WipeAttendance, WipeFails, WipeDone, WipeFailed, Acknowledge,
                vars
  <2> QED
    BY <1>1, <2>1
<1> QED
  BY <1>2, <1>3, <1>4, <1>5, <1>6, <1>7, <1>8 DEF Next, SyncStep, CommandStep

LEMMA RemoteStep ==
    ASSUME TypeOK, Resumable, [Next]_vars, NEW val \in Int, Remote(val)'
    PROVE  \/ Remote(val)
           \/ PushChunk /\ Current.row # None /\ val = Current.row.val
           \/ CloudEdit /\ val \in {edits + 1, Gone}
<1>1. CASE val = cloud'.val
  BY <1>1, CloudValue DEF Remote
<1>2. CASE sync'.at \in {"page", "import"} /\ val = sync'.page.val
  BY <1>2, PageStep DEF Remote
<1>3. CASE \E import \in late' : val = import.page.val
  BY <1>3, LateStep DEF Remote
<1> QED
  BY <1>1, <1>2, <1>3 DEF Remote

\* Versions and values are numbers.
LEMMA Versions ==
    ASSUME TypeOK
    PROVE  /\ row.version \in Nat /\ row.val \in Int /\ mine \in Nat /\ edits \in Nat
           /\ upload # None =>
                  /\ upload.next \in Nat /\ Len(upload.chunks) \in Nat
                  /\ \A i \in 1..Len(upload.chunks) :
                         upload.chunks[i].row # None =>
                             upload.chunks[i].row.version \in Nat /\ upload.chunks[i].row.val \in Int
<1>1. row.version \in Nat /\ row.val \in Int /\ mine \in Nat /\ edits \in Nat
  BY DEF TypeOK, Rows
<1>2. ASSUME upload # None
      PROVE  /\ upload.next \in Nat /\ Len(upload.chunks) \in Nat
             /\ \A i \in 1..Len(upload.chunks) : upload.chunks[i] \in Chunks
  <2>1. upload.next \in Nat /\ upload.chunks \in Seq(Chunks)
    BY <1>2 DEF TypeOK, Uploads
  <2> QED
    BY <2>1
<1>3. \A chunk \in Chunks : chunk.row # None => chunk.row \in EditedRows
  BY DEF Chunks
<1>4. \A edited \in EditedRows : edited.version \in Nat /\ edited.val \in Int
  BY DEF EditedRows
<1> QED
  BY <1>1, <1>2, <1>3, <1>4

\* The numbers of the edits grow.
LEMMA EditsStep ==
    ASSUME TypeOK, Resumable, [Next]_vars
    PROVE  edits' \in {edits, edits + 1}
<1>1. CASE Quiet
  BY <1>1 DEF Quiet, ChangeRecord, WipeAttendance
<1>2. CASE ReadRows \/ PushChunk \/ PushAnswered
  BY <1>2, Pushed, Answered DEF ReadRows
<1> QED
  BY <1>1, <1>2, QuietSteps

\* The request of an edit reads the row, and writes it or is lost.
LEMMA EditingStep ==
    ASSUME [Next]_vars
    PROVE  editing' \in {editing, None} \/ EditReads
<1> USE DEF stored, history, requests
<1>1. CASE \/ Tick \/ EditCommits \/ LateImport \/ (\E r \in Records : ChangeRecord(r)) \/ CloudEdit
           \/ OrderWipe \/ TakeBoundary \/ TimerFires \/ SyncRequired
  BY <1>1 DEF Tick, EditCommits, LateImport, LateImportReads, LateImportCommits, ChangeRecord, CloudEdit,
              OrderWipe, TakeBoundary, TimerFires, SyncRequired, PerformSync
<1>2. CASE ReadRows \/ ExportFails \/ PushChunk \/ PushAnswered \/ PushUnconfirmed \/ PushFails \/ PullPage
           \/ ImportReads \/ ImportCommits \/ PullFails \/ ImportTimesOut
  BY <1>2 DEF ReadRows, ExportFails, PushChunk, PushAnswered, PushUnconfirmed, PushFails, PullPage,
              ImportReads, ImportCommits, PullFails, ImportTimesOut, ImportAbandoned
<1>3. CASE ExecuteCommand \/ CommandKnown \/ WipeAttendance \/ WipeFails \/ WipeDone \/ WipeFailed
           \/ Acknowledge \/ Crash
  BY <1>3 DEF ExecuteCommand, ImportAbandoned, CommandKnown, WipeAttendance, WipeFails, WipeDone, WipeFailed,
              Acknowledge, Crash
<1>4. CASE UNCHANGED vars
  BY <1>4 DEF vars
<1> QED
  BY <1>1, <1>2, <1>3, <1>4 DEF Next, LateImport, SyncStep, CommandStep

\* An edit gets the next number; everything else is not newer.
LEMMA NumberedStep ==
    ASSUME TypeOK, TypeOK', Resumable, Numbered, [Next]_vars
    PROVE  Numbered'
<1>0. /\ edits \in Nat /\ edits' \in {edits, edits + 1} /\ edits <= edits'
      /\ mine \in Nat /\ mine <= edits /\ row.val \in Int /\ row.val <= edits
      /\ Gone \notin Nat /\ Gone <= edits
  BY Versions, EditsStep DEF Numbered, Gone
<1>1. CASE EditCommits
  <2>1. /\ row'.version = row.version + 1 /\ row'.val \in {row.val, edits + 1}
        /\ mine' = edits + 1 /\ edits' = edits + 1 /\ editing' = None /\ UNCHANGED <<upload, cloud, sync, late>>
    BY <1>1, RowEdited DEF Numbered, EditCommits, TypeOK, stored
  <2>2. ASSUME NEW val \in Int, Remote(val)'
        PROVE  val <= edits
    <3>1. Remote(val)
      BY <2>1, <2>2 DEF Remote
    <3> QED
      BY <3>1 DEF Numbered
  <2>3. \A val \in Int : Remote(val)' => val <= edits' /\ (val = mine' => delivered')
    BY <1>0, <2>1, <2>2
  <2>4. upload' # None => \A i \in 1..Len(upload'.chunks) :
            upload'.chunks[i].row # None => upload'.chunks[i].row.val <= edits'
    BY <1>0, <2>1, Versions DEF Numbered
  <2> QED
    BY <1>0, <2>1, <2>3, <2>4 DEF Numbered
<1>2. CASE /\ row'.version = row.version /\ mine' = mine /\ (delivered => delivered')
           /\ row'.val <= edits
  <2>1. row'.val \in Int /\ row'.val <= edits'
    BY <1>0, <1>2, Versions DEF TypeOK, Rows
  <2>2. ASSUME NEW val \in Int, Remote(val)'
        PROVE  val <= edits' /\ (val = mine => delivered')
    <3>1. CASE Remote(val)
      BY <1>0, <1>2, <3>1 DEF Numbered
    <3>2. CASE PushChunk /\ Current.row # None /\ val = Current.row.val
      <4>1. Current.row.val <= edits
        BY <3>2, Pushed DEF Numbered
      <4> QED
        BY <1>0, <3>2, <4>1 DEF PushChunk
    <3>3. CASE CloudEdit /\ val \in {edits + 1, Gone}
      <4>1. edits' = edits + 1
        BY <3>3 DEF CloudEdit
      <4> QED
        BY <1>0, <3>3, <4>1
    <3> QED
      BY <2>2, <3>1, <3>2, <3>3, RemoteStep
  <2>3. ASSUME upload' # None, NEW i \in 1..Len(upload'.chunks), upload'.chunks[i].row # None
        PROVE  upload'.chunks[i].row.val <= edits'
    <3>1. CASE ReadRows
      <4>1. /\ upload'.next = IF upload = None THEN 0 ELSE upload.next
            /\ \A j \in 1..upload'.next : upload'.chunks[j] = upload.chunks[j]
            /\ \A j \in upload'.next + 1..Len(upload'.chunks) : upload'.chunks[j].row \in {ExportedRow, None}
            /\ upload'.next \in Nat
        BY <3>1, ReadUpload DEF Uploads
      <4>2. CASE i \in 1..upload'.next
        <5>1. upload # None /\ i \in 1..Len(upload.chunks) /\ upload'.chunks[i] = upload.chunks[i]
          BY <4>1, <4>2, Versions DEF Resumable
        <5>2. upload.chunks[i].row.val <= edits /\ upload.chunks[i].row.val \in Int
          BY <2>3, <5>1, Versions DEF Numbered
        <5> QED
          BY <1>0, <5>1, <5>2
      <4>3. CASE i \in upload'.next + 1..Len(upload'.chunks)
        <5>1. upload'.chunks[i].row = ExportedRow /\ ExportedRow # None
          BY <2>3, <4>1, <4>3
        <5>2. ExportedRow.val = row.val
          BY <5>1 DEF ExportedRow
        <5> QED
          BY <1>0, <5>1, <5>2
      <4> QED
        BY <4>1, <4>2, <4>3
    <3>2. CASE Quiet \/ PushChunk \/ PushAnswered
      <4>1. upload # None /\ upload'.chunks = upload.chunks
        BY <2>3, <3>2, Pushed, Answered DEF Quiet, SameUpload
      <4>2. upload.chunks[i].row.val <= edits /\ upload.chunks[i].row.val \in Int
        BY <2>3, <4>1, Versions DEF Numbered
      <4> QED
        BY <1>0, <4>1, <4>2
    <3> QED
      BY <3>1, <3>2, QuietSteps
  <2>4. ASSUME editing' # None
        PROVE  editing'.version = row'.version /\ editing'.val # Gone /\ editing'.val <= edits'
    <3>1. CASE EditReads
      BY <1>0, <1>2, <3>1 DEF EditReads
    <3>2. CASE editing' = editing
      <4>1. editing.version = row.version /\ editing.val # Gone /\ editing.val <= edits
        BY <2>4, <3>2 DEF Numbered
      <4>2. editing.val \in Int
        BY <2>4, <3>2 DEF TypeOK, Rows
      <4> QED
        BY <1>0, <1>2, <3>2, <4>1, <4>2
    <3> QED
      BY <2>4, <3>1, <3>2, EditingStep
  <2>5. mine' <= edits'
    BY <1>0, <1>2
  <2>6. \A val \in Int : Remote(val)' => val <= edits' /\ (val = mine' => delivered')
    BY <1>2, <2>2
  <2> QED
    BY <2>1, <2>3, <2>4, <2>5, <2>6 DEF Numbered
<1> QED
  BY <1>1, <1>2, RowStep

LEMMA VersionsStep ==
    ASSUME TypeOK, TypeOK', Resumable, Numbered, VersionsOrdered, [Next]_vars
    PROVE  VersionsOrdered'
<1>1. ASSUME upload # None, upload'.chunks = upload.chunks, NEW i \in 1..Len(upload.chunks),
             upload.chunks[i].row # None
      PROVE  /\ upload.chunks[i].row.version <= row'.version
             /\ upload.chunks[i].row.version = row'.version /\ row'.val = mine' =>
                    upload.chunks[i].row.val = mine' \/ delivered'
  <2>1. /\ upload.chunks[i].row.version <= row.version
        /\ upload.chunks[i].row.version = row.version /\ row.val = mine =>
               upload.chunks[i].row.val = mine \/ delivered
        /\ upload.chunks[i].row.version \in Nat /\ row.version \in Nat
    BY <1>1, Versions DEF VersionsOrdered
  <2> QED
    BY <2>1, RowStep
<1>2. ASSUME upload # None, upload'.chunks = upload.chunks
      PROVE  VersionsOrdered'
  <2> SUFFICES ASSUME NEW i \in 1..Len(upload.chunks), upload.chunks[i].row # None
               PROVE  /\ upload.chunks[i].row.version <= row'.version
                      /\ upload.chunks[i].row.version = row'.version /\ row'.val = mine' =>
                             upload.chunks[i].row.val = mine' \/ delivered'
                      /\ \A j \in i + 1..Len(upload.chunks) :
                             upload.chunks[j].row # None =>
                                 upload.chunks[i].row.version <= upload.chunks[j].row.version
    BY <1>2 DEF VersionsOrdered
  <2> QED
    BY <1>1, <1>2 DEF VersionsOrdered
<1>3. CASE ReadRows
  <2> DEFINE n == upload'.next
             new == upload'.chunks
  <2>1. /\ n \in Nat /\ Len(new) \in Nat /\ UNCHANGED <<row, mine, delivered>>
        /\ n = IF upload = None THEN 0 ELSE upload.next
        /\ \A i \in 1..n : new[i] = upload.chunks[i]
        /\ \A i \in n + 1..Len(new) :
               new[i].row \in {ExportedRow, None} /\ \A j \in i + 1..Len(new) : new[j].row = None
    <3>1. n \in Nat /\ Len(new) \in Nat /\ UNCHANGED <<row, mine, delivered>>
      BY <1>3, ReadUpload DEF Uploads, ReadRows, history
    <3> QED
      BY <1>3, <3>1, ReadUpload
  <2>2. /\ upload # None => upload.next <= Len(upload.chunks) /\ Len(upload.chunks) \in Nat
        /\ row.version \in Nat
    BY Versions DEF Resumable
  <2> HIDE DEF n, new
  <2>3. ASSUME NEW i \in n + 1..Len(new), new[i].row # None
        PROVE  new[i].row.version = row.version /\ new[i].row.val = row.val
    <3>1. new[i].row = ExportedRow /\ ExportedRow # None
      BY <2>1, <2>3
    <3> QED
      BY <3>1 DEF ExportedRow
  <2>4. ASSUME NEW i \in 1..n, new[i].row # None
        PROVE  /\ new[i].row.version <= row.version /\ new[i].row.version \in Nat
               /\ new[i].row.version = row.version /\ row.val = mine => new[i].row.val = mine \/ delivered
               /\ \A j \in i + 1..n : new[j].row # None => new[i].row.version <= new[j].row.version
    <3>1. /\ upload # None /\ i \in 1..Len(upload.chunks) /\ new[i] = upload.chunks[i]
          /\ \A j \in i + 1..n : j \in i + 1..Len(upload.chunks) /\ new[j] = upload.chunks[j]
      BY <2>1, <2>2
    <3>2. /\ upload.chunks[i].row.version <= row.version
          /\ upload.chunks[i].row.version = row.version /\ row.val = mine =>
                 upload.chunks[i].row.val = mine \/ delivered
          /\ \A j \in i + 1..Len(upload.chunks) :
                 upload.chunks[j].row # None => upload.chunks[i].row.version <= upload.chunks[j].row.version
      BY <2>4, <3>1 DEF VersionsOrdered
    <3>3. new[i].row.version \in Nat
      BY <2>4, <3>1, Versions
    <3> QED
      BY <3>1, <3>2, <3>3
  <2>5. ASSUME NEW i \in 1..Len(new), new[i].row # None, NEW j \in i + 1..Len(new), new[j].row # None
        PROVE  new[i].row.version <= new[j].row.version
    <3>1. CASE i \in 1..n /\ j \in 1..n
      <4>1. j \in i + 1..n
        BY <2>1, <3>1
      <4> QED
        BY <2>4, <2>5, <3>1, <4>1
    <3>2. CASE i \in 1..n /\ j \in n + 1..Len(new)
      <4>1. new[j].row.version = row.version
        BY <2>3, <2>5, <3>2
      <4>2. new[i].row.version <= row.version
        BY <2>4, <2>5, <3>2
      <4> QED
        BY <4>1, <4>2
    <3>3. CASE i \in n + 1..Len(new)
      BY <2>1, <2>5, <3>3
    <3>4. i \in n + 1..Len(new) \/ (i \in 1..n /\ (j \in 1..n \/ j \in n + 1..Len(new)))
      BY <2>1
    <3> QED
      BY <3>1, <3>2, <3>3, <3>4
  <2>6. ASSUME NEW i \in 1..Len(new), new[i].row # None
        PROVE  /\ new[i].row.version <= row.version
               /\ new[i].row.version = row.version /\ row.val = mine => new[i].row.val = mine \/ delivered
    <3>1. CASE i \in 1..n
      BY <2>4, <2>6, <3>1
    <3>2. CASE i \in n + 1..Len(new)
      <4>1. new[i].row.version = row.version /\ new[i].row.val = row.val
        BY <2>3, <2>6, <3>2
      <4> QED
        BY <2>2, <4>1
    <3> QED
      BY <2>1, <3>1, <3>2
  <2> QED
    BY <2>1, <2>2, <2>5, <2>6 DEF VersionsOrdered, new
<1>4. CASE Quiet \/ PushChunk \/ PushAnswered
  <2>1. upload' = None \/ (upload # None /\ upload'.chunks = upload.chunks)
    BY <1>4, Pushed, Answered DEF Quiet, SameUpload
  <2> QED
    BY <1>2, <2>1 DEF VersionsOrdered
<1> QED
  BY <1>3, <1>4, QuietSteps

\* The row of the chunk that is being sent is as new as what is acknowledged.
LEMMA CurrentRow ==
    ASSUME TypeOK, Resumable, VersionsOrdered, sync.at \in {"push", "sent"}, Current.row # None
    PROVE  /\ upload # None /\ upload.next + 1 \in upload.next + 1..Len(upload.chunks)
           /\ Current = upload.chunks[upload.next + 1]
           /\ Current.row.version \in Nat /\ Current.row.version <= row.version
           /\ Current.row.version = row.version /\ row.val = mine => Current.row.val = mine \/ delivered
           /\ \A i \in upload.next + 1..Len(upload.chunks) :
                  upload.chunks[i].row # None => Current.row.version <= upload.chunks[i].row.version
<1>1. /\ upload # None /\ upload.next + 1 \in 1..Len(upload.chunks) /\ upload.next \in Nat
      /\ Current = upload.chunks[upload.next + 1] /\ Len(upload.chunks) \in Nat
  BY CurrentType, Versions DEF Resumable
<1>2. /\ Current.row.version \in Nat /\ Current.row.version <= row.version
      /\ Current.row.version = row.version /\ row.val = mine => Current.row.val = mine \/ delivered
      /\ \A i \in upload.next + 1 + 1..Len(upload.chunks) :
             upload.chunks[i].row # None => Current.row.version <= upload.chunks[i].row.version
  BY <1>1, Versions DEF VersionsOrdered
<1>3. ASSUME NEW i \in upload.next + 1..Len(upload.chunks), upload.chunks[i].row # None
      PROVE  Current.row.version <= upload.chunks[i].row.version
  <2>1. CASE i = upload.next + 1
    BY <1>1, <1>2, <2>1
  <2>2. CASE i # upload.next + 1
    <3>1. i \in upload.next + 1 + 1..Len(upload.chunks)
      BY <1>1, <2>2
    <3> QED
      BY <1>2, <1>3, <3>1
  <2> QED
    BY <2>1, <2>2
<1> QED
  BY <1>1, <1>2, <1>3

LEMMA AnswersStep ==
    ASSUME TypeOK, TypeOK', Resumable, Numbered, VersionsOrdered, [Next]_vars,
           NEW ack \in Acks, AnswersFor(ack)
    PROVE  AnswersFor(ack)'
<1>0. ack.version \in Nat /\ row.version \in Nat
  BY Versions DEF Acks
<1>1. ack.version <= row'.version
  BY <1>0, RowStep DEF AnswersFor
<1>2. ack.version = row'.version /\ row'.val = mine' => delivered'
  BY <1>0, RowStep DEF AnswersFor
<1>3. ASSUME upload' # None, NEW i \in upload'.next + 1..Len(upload'.chunks), upload'.chunks[i].row # None
      PROVE  ack.version <= upload'.chunks[i].row.version
  <2>1. CASE ReadRows
    <3>1. upload'.chunks[i].row = ExportedRow /\ ExportedRow # None
      BY <1>3, <2>1, ReadUpload
    <3>2. ExportedRow.version = row.version
      BY <3>1 DEF ExportedRow
    <3> QED
      BY <3>1, <3>2 DEF AnswersFor
  <2>2. CASE Quiet \/ PushChunk \/ PushAnswered
    <3>1. /\ upload # None /\ upload'.chunks = upload.chunks
          /\ upload'.next = upload.next \/ upload'.next = upload.next + 1
      BY <1>3, <2>2, Pushed, Answered DEF Quiet, SameUpload
    <3>2. i \in upload.next + 1..Len(upload.chunks)
      BY <1>3, <3>1, Versions
    <3> QED
      BY <1>3, <3>1, <3>2 DEF AnswersFor
  <2> QED
    BY <2>1, <2>2, QuietSteps
<1> QED
  BY <1>1, <1>2, <1>3 DEF AnswersFor

LEMMA AcknowledgementsStep ==
    ASSUME TypeOK, TypeOK', Resumable, Numbered, Acknowledgements, [Next]_vars
    PROVE  Acknowledgements'
<1>1. row'.version > 0
  BY RowStep, Versions DEF Acknowledgements
<1>2. VersionsOrdered'
  BY VersionsStep DEF Acknowledgements
<1>3. ASSUME NEW ack \in Acks, Held(ack)'
      PROVE  AnswersFor(ack)'
  <2>1. CASE Held(ack)
    BY <2>1, AnswersStep DEF Acknowledgements
  <2>2. CASE ack = EmptyAcks
    <3>1. ack.version = 0
      BY <2>2 DEF EmptyAcks
    <3>2. AnswersFor(ack)
      BY <3>1, Versions DEF AnswersFor, Acknowledgements
    <3> QED
      BY <3>2, AnswersStep DEF Acknowledgements
  <2>3. CASE ack = Acknowledged /\ sync.at = "sent"
    <3>1. CASE Current.row = None
      <4>1. Held(ack)
        BY <2>3, <3>1 DEF Acknowledged, Held, HeldByRuns
      <4> QED
        BY <4>1, <2>1
    <3>2. CASE Current.row # None
      <4>1. ack.version = Current.row.version /\ (Current.row.val = mine => delivered)
        BY <2>3, <3>2 DEF Acknowledged, Acknowledgements
      <4>2. /\ Current.row.version <= row.version
            /\ Current.row.version = row.version /\ row.val = mine => Current.row.val = mine \/ delivered
            /\ \A i \in upload.next + 1..Len(upload.chunks) :
                   upload.chunks[i].row # None => Current.row.version <= upload.chunks[i].row.version
        BY <2>3, <3>2, CurrentRow DEF Acknowledgements
      <4>3. AnswersFor(ack)
        BY <4>1, <4>2, Versions DEF AnswersFor
      <4> QED
        BY <4>3, AnswersStep DEF Acknowledgements
    <3> QED
      BY <3>1, <3>2
  <2> QED
    BY <1>3, <2>1, <2>2, <2>3, HeldStep
<1>4. ASSUME (sync.at = "sent" /\ Current.row # None /\ Current.row.val = mine)'
      PROVE  delivered'
  <2>1. CASE PushChunk
    <3>1. upload' = upload
      BY <2>1, Pushed
    <3>2. Current' = Current
      BY <3>1 DEF Current
    <3>3. mine' = mine
      BY <2>1 DEF PushChunk
    <3> QED
      BY <1>4, <2>1, <3>2, <3>3 DEF PushChunk
  <2>2. CASE sync.at = "sent" /\ UNCHANGED upload
    <3>1. Current' = Current /\ Current.row # None /\ Current.row.val = mine'
      BY <1>4, <2>2 DEF Current
    <3>2. Current.row.val = mine => delivered
      BY <2>2, <3>1 DEF Acknowledgements
    <3>3. CASE EditCommits
      <4>1. Current = upload.chunks[upload.next + 1] /\ upload # None /\ upload.next + 1 \in 1..Len(upload.chunks)
        BY <2>2, CurrentType DEF Resumable
      <4>2. Current.row.val <= edits
        BY <3>1, <4>1 DEF Numbered
      <4>3. mine' = edits + 1 /\ edits \in Nat
        BY <3>3 DEF EditCommits, TypeOK
      <4> QED
        BY <3>1, <4>2, <4>3
    <3> QED
      BY <3>1, <3>2, <3>3, RowStep
  <2> QED
    BY <1>4, <2>1, <2>2, SentStep
<1> QED
  BY <1>1, <1>2, <1>3, <1>4 DEF Acknowledgements

(***************************************************************************)
(* The invariant, and the theorems.                                        *)
(***************************************************************************)
LEMMA CloudInit ==
    ASSUME Init
    PROVE  CloudInv
<1>1. TypeOK /\ Resumable
  BY InitType
<1>2. upload = None /\ edits = 0 /\ mine = 0 /\ delivered /\ late = {} /\ editing = None /\ wipes = 0 /\ wiped = 0 /\ receipt = "none" /\ command = "idle"
  BY DEF Init
<1>3. /\ sync.at = "idle" /\ sync.boundary = 0 /\ sync.acks = EmptyAcks /\ acks = None
      /\ row.version = 1 /\ row.val = 0 /\ cloud.val = 0 /\ now = 1 /\ lastSyncedAt = 0
  BY IdleRun DEF Init
<1>4. \A r \in Records : records[r].change = 0 /\ records[r].at = 0 /\ cloud.records[r] = 0
  BY DEF Init, NoChanges
<1>5. InThePast /\ Ordered /\ Covered /\ NothingForgotten
  BY <1>2, <1>3, <1>4 DEF InThePast, Ordered, Covered, NothingForgotten
<1>6. Acknowledgements
  BY <1>2, <1>3 DEF Acknowledgements, Held, HeldByRuns, AnswersFor, VersionsOrdered, EmptyAcks
<1>8. Numbered
  BY <1>2, <1>3 DEF Numbered, Remote
<1>7. Wiping
  BY <1>2, <1>4 DEF Wiping, IsWiping
<1> QED
  BY <1>1, <1>5, <1>6, <1>7, <1>8 DEF CloudInv

LEMMA CloudStep ==
    ASSUME CloudInv, [Next]_vars
    PROVE  CloudInv'
BY TypeStep, PastStep, OrderStep, CoveredStep, ForgottenStep, NumberedStep, AcknowledgementsStep, WipeStep
   DEF CloudInv

LEMMA CloudAlways == Spec => []CloudInv
<1>1. Init => CloudInv
  BY CloudInit
<1>2. CloudInv /\ [Next]_vars => CloudInv'
  BY CloudStep
<1> QED
  BY <1>1, <1>2, PTL DEF Spec

\* The state of an exchange has its types, whatever is interrupted.
THEOREM TypeCorrect == Spec => []TypeOK
<1>1. CloudInv => TypeOK
  BY DEF CloudInv
<1> QED
  BY <1>1, CloudAlways, PTL

\* The cursor never passes a change that the cloud does not have: for any
\* records, however many edits, failures, lost answers and restarts.
THEOREM CursorPassesNothing == Spec => []NothingForgotten
<1>1. CloudInv => NothingForgotten
  BY DEF CloudInv
<1> QED
  BY <1>1, CloudAlways, PTL

\* The wipe is executed at most once, however often it is offered.
THEOREM WipeHappensOnce == Spec => []WipedOnce
<1>1. CloudInv => WipedOnce
  BY DEF CloudInv, Wiping, WipedOnce
<1> QED
  BY <1>1, CloudAlways, PTL

\* An import that read the row as it still is overwrites an edit only when what
\* it acknowledges is that edit.
LEMMA EditsKeptStep ==
    ASSUME CloudInv, [Next]_vars
    PROVE  /\ Unsent /\ mine' = mine /\ ~delivered' => Unsent' \/ row'.val = Gone \/ Overtaken
           /\ mine' # mine => Unsent' \/ editing # row
<1> USE DEF Unsent
<1>0. /\ TypeOK /\ Resumable /\ Numbered /\ Acknowledgements
      /\ row \in Rows /\ edits \in Nat /\ mine <= edits /\ mine \in Nat
  BY DEF CloudInv, Numbered, TypeOK
<1>1. CASE UNCHANGED <<row, mine>> /\ (delivered => delivered')
  BY <1>1
<1>2. CASE EditCommits
  <2>1. mine' = edits + 1 /\ ~delivered' /\ editing \in Rows \cup {None} /\ editing # None
    BY <1>0, <1>2 DEF EditCommits, TypeOK
  <2>2. ASSUME editing = row
        PROVE  row'.val = edits + 1 /\ row'.dirty
    <3>1. row.val # Gone /\ editing.version = row.version /\ editing.val <= edits
      BY <1>0, <2>1, <2>2 DEF Numbered
    <3> QED
      BY <1>0, <1>2, <2>1, <2>2, <3>1, RowEdited
  <2> QED
    BY <1>0, <2>1, <2>2
<1>3. CASE ImportCommits \/ LateImportCommits
  <2>1. PICK import \in late \cup {OwnImport} :
            /\ import \in Imports /\ import.read \in Rows /\ import.read # None
            /\ row' = Written(import.read, Imported(import))
            /\ Remote(import.page.val) /\ Held(import.acks)
    BY <1>0, <1>3, ImportSteps
  <2>2. UNCHANGED <<mine, delivered>>
    BY <1>0, <1>3, ImportSteps
  <2>3. CASE import.read # row
    BY <2>1, <2>2, <2>3 DEF Overtaken
  <2>4. ASSUME import.read = row, Unsent
        PROVE  Unsent' \/ row'.val = Gone
    <3> DEFINE new == Imported(import)
    <3>1. /\ new \in Rows
          /\ \/ new.val = row.val /\ new.dirty = row.dirty
             \/ new.val = import.page.val /\ ~KeepsEdit(import)
      BY <2>1, <2>4, ImportedRow
    <3>2. /\ row' = Written(row, new)
          /\ row'.val \in {row.val, new.val}
          /\ new.val = row.val => row'.val = row.val
          /\ new.val # row.val /\ row.val # Gone => row'.val = new.val
          /\ new.dirty = row.dirty => row'.dirty = row.dirty
      <4>1. row' = Written(row, new)
        BY <2>1, <2>4
      <4> HIDE DEF new
      <4> QED
        BY <1>0, <3>1, <4>1, WrittenRow
    <3>3. import.acks \in Acks /\ AnswersFor(import.acks)
      BY <1>0, <2>1 DEF Acknowledgements, Imports
    <3>4. KeepsEdit(import) \/ import.page.val = Gone
      BY <2>4, <3>3 DEF KeepsEdit, AnswersFor
    <3> HIDE DEF new
    <3> QED
      BY <2>2, <2>4, <3>1, <3>2, <3>4
  <2> QED
    BY <2>2, <2>3, <2>4
<1>4. CASE WipeAttendance
  <2>1. row'.val = Gone /\ mine' = mine
    BY <1>0, <1>4 DEF WipeAttendance, Rows
  <2> QED
    BY <2>1
<1> QED
  BY <1>1, <1>2, <1>3, <1>4, RowSteps

\* A download never overwrites an edit of the directory that the cloud has not
\* been sent, nor takes its mark, and an edit that is saved is to be sent, unless
\* the row was removed or changed between a request's read and its write.
THEOREM EditsSurviveDownloads == Spec => UnsentEditsKept
<1>1. CloudInv /\ [Next]_vars =>
          [/\ Unsent /\ mine' = mine /\ ~delivered' => Unsent' \/ row'.val = Gone \/ Overtaken
           /\ mine' # mine => Unsent' \/ editing # row]_vars
  BY EditsKeptStep
<1> QED
  BY <1>1, CloudAlways, PTL DEF Spec, UnsentEditsKept

\* Only a push changes what the cloud has, and after the wipe it pushes what was
\* made after it.
LEMMA LocalStep ==
    ASSUME CloudInv, [Next]_vars, receipt = "completed", NEW r \in Records,
           cloud'.records[r] # cloud.records[r]
    PROVE  cloud'.records[r] > wiped
<1>0. TypeOK /\ Resumable /\ Wiping
  BY DEF CloudInv
<1>1. PushChunk
  BY <1>0, QuietSteps, Answered DEF Quiet, ReadRows, TypeOK, Clouds
<1> DEFINE n == upload.next + 1
<1>2. /\ upload # None /\ n \in 1..Len(upload.chunks) /\ cloud.taken # n
      /\ upload.chunks[n].records[r] > 0 /\ cloud'.records[r] = upload.chunks[n].records[r]
  BY <1>0, <1>1, Pushed
<1>3. ~Reached(n)
  BY <1>0, <1>2, Numbers DEF Reached
<1> QED
  BY <1>0, <1>2, <1>3 DEF Wiping

\* Once the wipe is reported as completed, nothing from before it reaches the
\* cloud.
THEOREM WipeIsFinal == Spec => WipedStaysLocal
<1>1. CloudInv /\ [Next]_vars =>
          [\A r \in Records : receipt = "completed" /\ cloud'.records[r] # cloud.records[r] =>
               cloud'.records[r] > wiped]_vars
  BY LocalStep
<1> QED
  BY <1>1, CloudAlways, PTL DEF Spec, WipedStaysLocal
================================================================================
