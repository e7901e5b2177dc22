------------------------------ MODULE Enrollment ------------------------------
(***************************************************************************)
(* The form that adds members to the selected group (AddMember), alone or  *)
(* with a photo of the face, or many at once from a list of rows           *)
(* (bulkMemberImport), and what the local service does with its requests.  *)
(*                                                                         *)
(* A form that is closed, or whose group changes, leaves its requests      *)
(* behind; their answers must not touch the form that is opened next.      *)
(* A creation carries a token that the service makes the member's key, so  *)
(* that a retry of a request whose answer was lost does not add another    *)
(* member.  Not modelled: the warning about a name that already exists,    *)
(* rows without a name, and the answer of a file that is being read.       *)
(***************************************************************************)
EXTENDS GroupPanel

CONSTANTS
    MaxRows,        \* bound on the rows of a list
    ChunkSize       \* rows of one request (500 in the code)

\* None is neither a key nor a request, and members there are from the start have no tokens for keys.
ASSUME EnrollmentAssumption ==
    /\ MaxRows \in Nat /\ ChunkSize \in Nat \ {0}
    /\ None \notin Nat \cup Members \cup [id : Nat, name : Nat] /\ Members \cap Nat = {}

VARIABLES
    form,           \* AddMember: its inputs, photo, request and flags
    bulk,           \* its list: rows of the text and of the file, and the checkpoint
    checks,         \* detections of a face, waiting
    adds,           \* handleAddMember and handleBulkAddMembers, waiting
    faces,          \* service: whose face each member has
    fresh           \* the last token or entry that was used

enrollVars == <<form, bulk, checks, adds, faces, fresh>>

\* What the form never changes.
elsewhere == <<groups, gone, rules, choice, loads, deleting, ruling>>

\* What is typed into the form is meant for one person, the entry.
NoForm == [open |-> FALSE, many |-> FALSE, entry |-> 0, name |-> 0, saved |-> None, request |-> None,
           busy |-> FALSE, section |-> FALSE, checking |-> FALSE, photo |-> None]

\* A list is the set of its rows, whose order is that of their entries.
NoBulk == [file |-> {}, text |-> {}, pending |-> {}, completed |-> {}, includes |-> FALSE]

Listed(first, rows) == {[entry |-> first + i, name |-> 0] : i \in 1 .. rows}

EnrollInit ==
    /\ form \in {NoForm} \cup
          (IF selected = None \/ loads # {} \/ ~settings \/ page.group # None THEN {}
           ELSE {[NoForm EXCEPT !.open = TRUE, !.many = m, !.section = ~m, !.entry = MaxRows + 1] : m \in BOOLEAN})
    /\ bulk = IF form.many
              THEN [NoBulk EXCEPT !.file = Listed(0, MaxRows), !.text = Listed(0, MaxRows)]
              ELSE NoBulk
    /\ checks = {}
    /\ adds = {}
    /\ faces = {}
    /\ fresh = MaxRows + 1

FormShown == form.open /\ settings /\ selected # None

Superseded(requests) == {[q EXCEPT !.latest = FALSE] : q \in requests}

(***************************************************************************)
(* Opening and closing.                                                    *)
(***************************************************************************)
\* resetForm of a form that is closed.
ResetForm ==
    /\ form' = NoForm
    /\ bulk' = NoBulk
    /\ checks' = Superseded(checks)

OpenForm(rows) ==
    /\ Act
    /\ ~form.open /\ settings /\ selected # None
    /\ form' = [NoForm EXCEPT !.open = TRUE, !.many = rows > 0, !.entry = fresh + rows + 1]
    /\ bulk' = [NoBulk EXCEPT !.file = Listed(fresh, rows), !.text = Listed(fresh, rows)]
    /\ fresh' = fresh + rows + 1
    /\ UNCHANGED <<elsewhere, people, panel, refreshes, checks, adds, faces, doubts, troubles>>

CloseForm ==
    /\ Move
    /\ FormShown
    /\ ResetForm
    /\ adds' = Superseded(adds)
    /\ UNCHANGED <<elsewhere, people, panel, refreshes, faces, fresh, doubts, troubles>>

\* The form of another group, or of none, starts anew.
FormFollows ==
    IF selected' = selected \/ ~form.open THEN UNCHANGED enrollVars
    ELSE /\ form' = [NoForm EXCEPT !.open = TRUE, !.entry = fresh + 1]
         /\ fresh' = fresh + 1
         /\ bulk' = NoBulk
         /\ checks' = Superseded(checks)
         /\ adds' = Superseded(adds)
         /\ UNCHANGED faces

SwitchMode ==
    /\ Move
    /\ FormShown /\ ~form.busy /\ form.saved = None
    /\ form' = [form EXCEPT !.many = ~@]
    /\ UNCHANGED <<elsewhere, people, panel, refreshes, bulk, checks, adds, faces, fresh, doubts, troubles>>

(***************************************************************************)
(* One member and a photo.                                                 *)
(***************************************************************************)
Single == FormShown /\ ~form.many

Untouched == UNCHANGED <<elsewhere, people, panel, refreshes, bulk, adds, faces, fresh, troubles>>

\* A name that is corrected after a request was made for it gets another token.
CorrectName ==
    /\ Move
    /\ Single /\ ~form.busy /\ form.saved = None
    /\ form' = [form EXCEPT !.name = 1 - @]
    /\ doubts' = IF form.request # None THEN doubts \cup {"renamed"} ELSE doubts
    /\ UNCHANGED checks
    /\ Untouched

\* "Enroll now": the button has no guard but the section being closed.
OpenSection ==
    /\ Move
    /\ Single /\ ~form.section /\ form.photo = None
    /\ form' = [form EXCEPT !.section = TRUE]
    /\ UNCHANGED <<checks, doubts>>
    /\ Untouched

\* skipFaceEnrollment, and the removal of a photo.
SkipFace ==
    /\ Move
    /\ Single /\ ~form.busy /\ (form.section \/ form.photo # None)
    /\ form' = [form EXCEPT !.section = FALSE, !.checking = FALSE, !.photo = None]
    /\ checks' = Superseded(checks)
    /\ UNCHANGED doubts
    /\ Untouched

RetakePhoto ==
    /\ Move
    /\ Single /\ ~form.busy /\ form.photo # None
    /\ form' = [form EXCEPT !.section = TRUE, !.photo = None]
    /\ UNCHANGED <<checks, doubts>>
    /\ Untouched

Camera == ~form.busy /\ ~form.checking

\* handleSnapPhoto, and handleProcessUploadedFile, which waits for nothing.
Photograph(uploaded) ==
    /\ Move
    /\ Single /\ form.section /\ form.photo = None
    /\ uploaded \/ Camera
    /\ form' = [form EXCEPT !.checking = TRUE]
    /\ checks' = Superseded(checks) \cup {[of |-> form.entry, latest |-> TRUE]}
    /\ UNCHANGED doubts
    /\ Untouched

\* The check is of a photo that was taken, retaken or skipped since.
CheckIsCurrent(c) == c.latest

AnswerCheck(c) ==
    /\ checks' = checks \ {c}
    /\ IF CheckIsCurrent(c)
       THEN \E photo \in {None, [of |-> c.of]} :
                form' = [form EXCEPT !.checking = FALSE, !.photo = photo]
       ELSE UNCHANGED form
    /\ UNCHANGED <<acts, doubts>>
    /\ Untouched

(***************************************************************************)
(* Saving one member.                                                      *)
(***************************************************************************)
\* A retry of the same name is the same request.
RequestAnew == [id |-> fresh + 1, name |-> form.name]
RequestOf == IF form.request # None /\ form.request.name = form.name THEN form.request
             ELSE [id |-> fresh + 1, name |-> form.name]

\* handleAddMember closes the form, and the panel refreshes when something was saved.
CloseSaved(saved) ==
    /\ ResetForm
    /\ IF saved THEN /\ refreshes' = Refresh(current, selected)
                     /\ panel' = [panel EXCEPT !.refreshing = TRUE]
       ELSE UNCHANGED <<refreshes, panel>>

MaySubmit == FormShown /\ ~form.busy /\ ~form.checking

\* What the service has said of an addition: nothing yet, that it saved some, or that it failed.
Unanswered == [at |-> "waiting", ids |-> {}]
Awaited(a) == a.got.at = "waiting"
Succeeded(a) == a.got.at = "saved"

Submit ==
    /\ Move
    /\ MaySubmit /\ ~form.many /\ ~(form.section /\ form.photo = None)
    /\ LET request == RequestOf
           ready == form.saved # None
       IN  IF ready /\ form.photo = None
           THEN CloseSaved(FALSE) /\ UNCHANGED <<adds, fresh>>
           ELSE /\ form' = [form EXCEPT !.busy = TRUE, !.request = IF ready THEN @ ELSE request]
                /\ adds' = adds \cup
                     {[kind |-> IF ready THEN "face" ELSE "member", latest |-> TRUE, created |-> ~ready,
                       group |-> selected, photo |-> form.photo, got |-> Unanswered,
                       rows |-> {[id |-> IF ready THEN form.saved ELSE request.id,
                                  entry |-> form.entry, name |-> form.name]}]}
                /\ fresh' = IF ~ready /\ request.id = fresh + 1 THEN fresh + 1 ELSE fresh
                /\ UNCHANGED <<bulk, checks, refreshes, panel>>
    /\ UNCHANGED <<elsewhere, people, faces, doubts, troubles>>

\* Whose rows these are, and the place of one of them in the list.
Entries(rows) == {r.entry : r \in rows}
Place(entry, rows) == Cardinality({e \in Entries(rows) : e <= entry})

\* The rows a request asks for, and those the service accepts: a token it has
\* seen is answered with its member, and refused for another content.
Chunk(a) == {r \in a.rows : a.kind = "rows" => Place(r.entry, a.rows) <= ChunkSize}

Accepted(a) == {r \in Chunk(a) : \A p \in people : p.id = r.id => p.name = r.name /\ p.group = a.group}

Saved(a) == people \cup
    {[id |-> r.id, group |-> a.group, intent |-> r.entry, name |-> r.name] :
        r \in {s \in Accepted(a) : \A p \in people : p.id # s.id}}

\* The only row of a request for one member.
Row(a) == CHOOSE r \in a.rows : TRUE

Answer(a, at, ids) == adds' = (adds \ {a}) \cup {[a EXCEPT !.got = [at |-> at, ids |-> ids]]}
Fail(a) == Answer(a, "failed", {})

\* The service adds members; an answer may be lost.
ServeAdd(a) ==
    /\ a.kind # "face" /\ Awaited(a)
    /\ \/ /\ a.group \in groups
          /\ people' = Saved(a)
          /\ \/ Answer(a, "saved", {r.id : r \in Accepted(a)}) /\ UNCHANGED <<doubts, troubles>>
             \/ Trouble /\ Fail(a) /\ doubts' = doubts \cup {"unseen"}
       \/ /\ (a.group \notin groups /\ UNCHANGED troubles) \/ Trouble
          /\ Fail(a)
          /\ UNCHANGED <<people, doubts>>
    /\ UNCHANGED <<elsewhere, panel, refreshes, form, bulk, checks, faces, fresh, acts>>

\* The service stores a face; an answer may be lost.
ServeFace(a) ==
    /\ a.kind = "face" /\ Awaited(a)
    /\ LET id == Row(a).id
           stored == {f \in faces : f.member # id} \cup {[member |-> id, of |-> a.photo.of]}
       IN  \/ faces' = stored /\ Answer(a, "saved", {id}) /\ UNCHANGED troubles
           \/ Trouble /\ faces' \in {faces, stored} /\ Fail(a)
    /\ UNCHANGED <<elsewhere, people, panel, refreshes, form, bulk, checks, fresh, doubts, acts>>

\* isCurrentForm.
IsCurrentForm(a) == a.latest

\* The member joins the members on display, whatever group they are of; its
\* photo is stored next, or the form closes.
MemberAdded(a) ==
    LET id == Row(a).id
        shown == [panel EXCEPT !.shown = @ \cup {id}]
    IN  IF a.photo = None
        THEN /\ ResetForm
             /\ adds' = adds \ {a}
             /\ refreshes' = Refresh(current, selected)
             /\ panel' = [shown EXCEPT !.refreshing = TRUE]
        ELSE /\ form' = [form EXCEPT !.saved = id]
             /\ adds' = (adds \ {a}) \cup {[a EXCEPT !.kind = "face", !.got = Unanswered]}
             /\ panel' = shown
             /\ UNCHANGED <<bulk, checks, refreshes>>

AnswerAdd(a) ==
    /\ a.kind = "member" /\ ~Awaited(a)
    /\ \/ /\ IsCurrentForm(a) /\ Succeeded(a)
          /\ MemberAdded(a)
          /\ UNCHANGED doubts
       \/ /\ ~(IsCurrentForm(a) /\ Succeeded(a))
          /\ adds' = adds \ {a}
          /\ form' = IF IsCurrentForm(a) THEN [form EXCEPT !.busy = FALSE] ELSE form
          /\ doubts' = IF Succeeded(a) THEN doubts \cup {"unseen"} ELSE doubts
          /\ UNCHANGED <<bulk, checks, refreshes, panel>>
    /\ UNCHANGED <<elsewhere, people, faces, fresh, acts, troubles>>

AnswerFace(a) ==
    /\ a.kind = "face" /\ ~Awaited(a)
    /\ adds' = adds \ {a}
    /\ doubts' = IF ~IsCurrentForm(a) /\ a.created THEN doubts \cup {"unseen"} ELSE doubts
    /\ \/ IsCurrentForm(a) /\ Succeeded(a) /\ CloseSaved(TRUE)
       \/ /\ IsCurrentForm(a) /\ ~Succeeded(a)
          /\ form' = [form EXCEPT !.busy = FALSE]
          /\ IF a.created THEN /\ refreshes' = Refresh(current, selected)
                               /\ panel' = [panel EXCEPT !.refreshing = TRUE]
             ELSE UNCHANGED <<refreshes, panel>>
          /\ UNCHANGED <<bulk, checks>>
       \/ ~IsCurrentForm(a) /\ UNCHANGED <<form, bulk, checks, refreshes, panel>>
    /\ UNCHANGED <<elsewhere, people, faces, fresh, acts, troubles>>

(***************************************************************************)
(* Saving many members.                                                    *)
(***************************************************************************)
Key(row) == [entry |-> row.entry, name |-> row.name]

\* reconcileBulkMemberRows: a row keeps its token, also when it is corrected,
\* and a row that is already saved is not sent again.
TokenOf(key, known) == LET same == {k \in known : Key(k) = key} IN
    IF same = {} THEN None ELSE (CHOOSE k \in same : TRUE).id

Known == bulk.pending \cup (IF bulk.includes THEN bulk.completed ELSE {})

Unmatched == {row \in bulk.text : TokenOf(row, Known) = None}

Remaining == {k \in bulk.pending : \A row \in bulk.text : TokenOf(row, Known) # k.id}

CannotResume ==
    /\ bulk.includes /\ bulk.completed # {}
    /\ Cardinality(Entries(Unmatched)) > Cardinality(Entries(Remaining))

\* A row that is not known takes the token at its place among those that remain, or a new one.
TokenAt(row) ==
    LET nth == Place(row.entry, Unmatched)
        same == {k \in Remaining : Place(k.entry, Remaining) = nth}
    IN  IF same = {} THEN fresh + nth ELSE (CHOOSE k \in same : TRUE).id

Token(row) == IF row \in Unmatched THEN TokenAt(row) ELSE TokenOf(row, Known)

Reconciled == {k \in {[id |-> Token(row), entry |-> row.entry, name |-> row.name] : row \in bulk.text} :
                  \A c \in bulk.completed : c.id # k.id}

\* remainingBulkMemberText.
WithRemainingText(b) == [b EXCEPT !.includes = FALSE, !.text = {Key(k) : k \in b.pending}]

SubmitRows ==
    /\ Move
    /\ MaySubmit /\ form.many /\ bulk.text # {}
    /\ IF CannotResume
       THEN bulk' = WithRemainingText(bulk) /\ UNCHANGED <<form, checks, adds, fresh, refreshes, panel>>
       ELSE IF Reconciled = {}
       THEN CloseSaved(FALSE) /\ UNCHANGED <<adds, fresh>>
       ELSE /\ bulk' = [bulk EXCEPT !.pending = Reconciled]
            /\ form' = [form EXCEPT !.busy = TRUE]
            /\ adds' = adds \cup {[kind |-> "rows", latest |-> TRUE, created |-> FALSE, group |-> selected,
                                   photo |-> None, got |-> Unanswered, rows |-> Reconciled]}
            /\ fresh' = fresh + Cardinality(Entries(Unmatched))
            /\ UNCHANGED <<checks, refreshes, panel>>
    /\ UNCHANGED <<elsewhere, people, faces, doubts, troubles>>

\* checkpointBulkMemberResponse.
Checkpointed(a) ==
    [bulk EXCEPT !.completed = @ \cup {k \in Chunk(a) : k.id \in a.got.ids},
                 !.pending = {k \in @ : k.id \notin a.got.ids}]

RefreshWhen(grew, p) ==
    IF grew THEN refreshes' = Refresh(current, selected) /\ panel' = [p EXCEPT !.refreshing = TRUE]
    ELSE panel' = p /\ UNCHANGED refreshes

AnswerRows(a) ==
    /\ a.kind = "rows" /\ ~Awaited(a)
    /\ LET after == Checkpointed(a)
           rest == a.rows \ Chunk(a)
           shown == [panel EXCEPT !.shown = @ \cup a.got.ids]
           grew == a.created \/ a.got.ids # {}
       IN  \/ /\ ~IsCurrentForm(a)
              /\ adds' = adds \ {a}
              /\ doubts' = IF grew THEN doubts \cup {"unseen"} ELSE doubts
              /\ UNCHANGED <<form, bulk, checks, refreshes, panel>>
           \/ /\ IsCurrentForm(a) /\ Succeeded(a) /\ rest # {}
              /\ adds' = (adds \ {a}) \cup {[a EXCEPT !.rows = rest, !.created = grew, !.got = Unanswered]}
              /\ bulk' = after
              /\ panel' = shown
              /\ UNCHANGED <<form, checks, refreshes, doubts>>
           \/ /\ IsCurrentForm(a) /\ Succeeded(a) /\ rest = {} /\ after.pending = {}
              /\ adds' = adds \ {a}
              /\ ResetForm
              /\ RefreshWhen(grew, shown)
              /\ UNCHANGED doubts
           \/ /\ IsCurrentForm(a) /\ (~Succeeded(a) \/ (rest = {} /\ after.pending # {}))
              /\ adds' = adds \ {a}
              /\ bulk' = WithRemainingText(after)
              /\ form' = [form EXCEPT !.busy = FALSE]
              /\ RefreshWhen(grew, shown)
              /\ UNCHANGED <<checks, doubts>>
    /\ UNCHANGED <<elsewhere, people, faces, fresh, acts, troubles>>

\* A row of the text is corrected or removed.  A row that takes the place of
\* a removed one takes its token, too.
EditRow(row) ==
    /\ Move
    /\ FormShown /\ form.many /\ ~form.busy
    /\ \/ bulk' = [bulk EXCEPT !.text = (@ \ {row}) \cup {[row EXCEPT !.name = 1 - @]}] /\ UNCHANGED doubts
       \/ bulk' = [bulk EXCEPT !.text = @ \ {row}] /\ doubts' = doubts \cup {"removed"}
    /\ UNCHANGED <<elsewhere, people, panel, refreshes, form, checks, adds, faces, fresh, troubles>>

\* handleFileUpload: the file, which has every row as it was, is read again.
ReimportFile ==
    /\ Move
    /\ FormShown /\ form.many /\ ~form.busy
    /\ bulk' = [bulk EXCEPT !.text = bulk.file, !.includes = bulk.completed # {}]
    /\ UNCHANGED <<elsewhere, people, panel, refreshes, form, checks, adds, faces, fresh, doubts, troubles>>

EnrollNext ==
    \/ \E rows \in 0 .. MaxRows : OpenForm(rows)
    \/ CloseForm \/ SwitchMode
    \/ CorrectName \/ OpenSection \/ SkipFace \/ RetakePhoto
    \/ \E uploaded \in BOOLEAN : Photograph(uploaded)
    \/ \E c \in checks : AnswerCheck(c)
    \/ Submit \/ SubmitRows \/ ReimportFile
    \/ \E row \in bulk.text : EditRow(row)
    \/ \E a \in adds : ServeAdd(a) \/ ServeFace(a) \/ AnswerAdd(a) \/ AnswerFace(a) \/ AnswerRows(a)

(***************************************************************************)
(* What must hold.                                                         *)
(***************************************************************************)
\* A person is added once, however often a request whose answer was lost or
\* refused is repeated, alone or in a list that is corrected, resumed or read
\* from its file again.  One entry whose name is corrected after a request
\* was made for it ("renamed"), one that is created for a photo ("tokenless") and
\* a list from which rows are removed ("removed") are the exceptions the code has.
AddedOnce ==
    doubts \cap {"renamed", "tokenless", "removed"} = {} => \A p, q \in people : p.intent = q.intent => p = q

\* A face is stored for the person it was taken of, however late the check of
\* a photo is answered and whatever form or place in the queue is open by then.
\* A list from which rows are removed may add another person under the token of
\* a member that was removed meanwhile ("removed").
FaceOfMember ==
    "removed" \notin doubts => \A f \in faces, p \in people : p.id = f.member => f.of = p.intent

================================================================================
