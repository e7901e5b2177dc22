--------------------------- MODULE FaceEnrollment ---------------------------
(***************************************************************************)
(* What covers the list of members while faces are enrolled: the queue of  *)
(* members before the camera (CameraQueue), one member (FaceCapture,       *)
(* useFaceCapture) and photos of many (BulkEnrollment, useBulkEnrollment); *)
(* and the removal of members and of faces from the list (Members).        *)
(*                                                                         *)
(* A check or an enrollment goes on when its cover is closed; what React   *)
(* no longer shows is left alone by its answer.  Of each photo it is kept  *)
(* whom it is of: the member the screen asks for, or the person whose      *)
(* photo the user picked.  Not modelled: several faces in one photo, the   *)
(* service's refusal of a face that another member has, the quality of a   *)
(* photo, and the edit of a name, which nothing here depends on.           *)
(***************************************************************************)
EXTENDS Enrollment, SequencesExt

VARIABLES
    queue,          \* CameraQueue
    capture,        \* FaceCapture
    photos,         \* BulkEnrollment
    shots,          \* their requests, waiting
    removals        \* requests of Members, waiting

coverVars == <<queue, capture, photos, shots, removals>>

NoQueue == [open |-> FALSE, members |-> <<>>, persons |-> <<>>, status |-> <<>>, index |-> 1,
            busy |-> FALSE, jumps |-> {}, done |-> FALSE]

NoCapture == [member |-> None, person |-> None, frame |-> None, busy |-> FALSE]

NoPhotos == [open |-> FALSE, among |-> {}, files |-> <<>>, found |-> {}, detecting |-> FALSE,
             enrolling |-> FALSE, results |-> FALSE]

\* Who a member on display is: the person who stands before the camera.
PersonOf(id) == (CHOOSE p \in people : p.id = id).intent

\* The members who are to be enrolled, in the order of the list.
Queue(members) == [NoQueue EXCEPT !.open = TRUE, !.members = members,
                                  !.persons = [i \in DOMAIN members |-> PersonOf(members[i])],
                                  !.status = [i \in DOMAIN members |-> "pending"]]

CoverInit ==
    /\ queue = NoQueue
    /\ capture \in {NoCapture} \cup
          (IF loads # {} \/ ~settings \/ form.open \/ page.group # None THEN {}
           ELSE {[NoCapture EXCEPT !.member = m, !.person = PersonOf(m)] : m \in panel.shown})
    /\ photos \in {NoPhotos} \cup
          (IF loads # {} \/ ~settings \/ form.open \/ page.group # None \/ capture # NoCapture
              \/ Cardinality(panel.shown) < 2 THEN {}
           ELSE {[NoPhotos EXCEPT !.open = TRUE, !.among = panel.shown]})
    /\ shots = {}
    /\ removals = {}

Uncovered == ~queue.open /\ capture.member = None /\ ~photos.open

\* The list of members of the selected group is on display.
ListShown == settings /\ selected # None /\ ~form.open /\ Uncovered /\ page.group = None

ShownMembers == panel.shown \cap MembersOf(selected)

Ask(q) == shots' = shots \cup {q}
Replied(q) == shots' = shots \ {q}
Got(q, answer) == shots' = (shots \ {q}) \cup {[q EXCEPT !.got = answer]}

\* What a cover changes besides itself.
Covering == UNCHANGED <<elsewhere, people, form, bulk, checks, adds, faces, doubts>>
Quietly == UNCHANGED <<panel, refreshes>>

RefreshMembers ==
    /\ refreshes' = Refresh(current, selected)
    /\ panel' = [panel EXCEPT !.refreshing = TRUE]

\* The list goes with the selected group, and its covers with it.
CoversFollow ==
    IF selected' = selected THEN UNCHANGED coverVars
    ELSE /\ queue' = NoQueue /\ capture' = NoCapture /\ photos' = NoPhotos
         /\ shots' = Superseded(shots)
         /\ UNCHANGED removals

(***************************************************************************)
(* The queue before the camera.                                            *)
(***************************************************************************)
Finished(q) == q.members # <<>> /\ \A i \in DOMAIN q.status : q.status[i] \in {"completed", "skipped"}

\* Completion is not shown any longer when a member becomes pending again.
WithStatus(q, status) == [q EXCEPT !.status = status, !.done = @ /\ Finished([q EXCEPT !.status = status])]

\* findNextPendingIndex: after the given place, then from the beginning.
NextPending(status, from) ==
    LET after == {i \in DOMAIN status : i > from /\ status[i] = "pending"}
        before == {i \in DOMAIN status : i < from /\ status[i] = "pending"}
    IN  IF after # {} THEN Min(after) ELSE IF before # {} THEN Min(before) ELSE 0

OpenQueue(members) ==
    /\ Act
    /\ ListShown
    /\ members \subseteq ShownMembers /\ Cardinality(members) > 1
    /\ \E order \in SetToSeqs(members) : queue' = Queue(order)
    /\ UNCHANGED <<capture, photos, shots, removals, fresh, troubles>>
    /\ Covering /\ Quietly

CloseQueue ==
    /\ Move
    /\ queue.open
    /\ queue' = NoQueue
    /\ shots' = Superseded(shots)
    /\ UNCHANGED <<capture, photos, removals, fresh, troubles>>
    /\ Covering /\ Quietly

\* capturePhoto, which remembers the queue as it was when it was called.
CaptureFromQueue ==
    /\ Move
    /\ queue.open /\ ~queue.busy /\ ~Finished(queue)
    /\ LET member == queue.members[queue.index]
       IN  Ask([kind |-> "queue", at |-> "check", latest |-> TRUE, group |-> selected, member |-> member,
                of |-> queue.persons[queue.index], index |-> queue.index, status |-> queue.status, got |-> None])
    /\ queue' = [WithStatus(queue, [queue.status EXCEPT ![queue.index] = "capturing"]) EXCEPT !.busy = TRUE]
    /\ UNCHANGED <<capture, photos, removals, fresh, troubles>>
    /\ Covering /\ Quietly

CaptureChecked(q, found) ==
    /\ q.kind = "queue" /\ q.at = "check"
    /\ IF found THEN shots' = (shots \ {q}) \cup {[q EXCEPT !.at = "enroll"]} ELSE Replied(q)
    /\ queue' = IF ~q.latest THEN queue
                ELSE IF found THEN WithStatus(queue, [queue.status EXCEPT ![q.index] = "processing"])
                ELSE WithStatus([queue EXCEPT !.busy = FALSE], [queue.status EXCEPT ![q.index] = "pending"])
    /\ UNCHANGED <<capture, photos, removals, fresh, acts, troubles>>
    /\ Covering /\ Quietly

\* The member an enrollment is for: the one that was before the camera.
MemberNow(q) == IF queue.open THEN queue.members[queue.index] ELSE q.member
MemberOf(q) == q.member

\* The service stores the face of a member of the group.
ServeShot(q) ==
    /\ q.kind \in {"queue", "single"} /\ q.at = "enroll" /\ q.got = None
    /\ LET id == MemberOf(q)
           stored == {f \in faces : f.member # id} \cup {[member |-> id, of |-> q.of]}
           known == \E p \in people : p.id = id /\ p.group = q.group
       IN  \/ known /\ faces' = stored /\ Got(q, "ok") /\ UNCHANGED troubles
           \/ ~known /\ Got(q, "failed") /\ UNCHANGED <<faces, troubles>>
           \/ Trouble /\ known /\ faces' \in {faces, stored} /\ Got(q, "failed")
    /\ UNCHANGED <<elsewhere, people, panel, refreshes, form, bulk, checks, adds, fresh, doubts, acts,
                   queue, capture, photos, removals>>

\* What the queue was when the photo was taken replaces what it is now.
QueueEnrolled(q) ==
    /\ q.kind = "queue" /\ q.at = "enroll" /\ q.got # None
    /\ Replied(q)
    /\ LET status == [q.status EXCEPT ![q.index] = "completed"]
           next == NextPending(status, q.index)
       IN  queue' = IF ~q.latest THEN queue
                    ELSE IF q.got = "ok"
                    THEN [WithStatus(queue, status) EXCEPT !.busy = FALSE,
                              !.jumps = IF next = 0 THEN @ ELSE @ \cup {next}]
                    ELSE WithStatus([queue EXCEPT !.busy = FALSE], [queue.status EXCEPT ![q.index] = "pending"])
    /\ UNCHANGED <<capture, photos, removals, fresh, acts, troubles>>
    /\ Covering /\ Quietly

\* A second later the queue goes on, wherever it is by then.
JumpToNext(i) ==
    /\ queue' = [queue EXCEPT !.index = i, !.jumps = @ \ {i}]
    /\ UNCHANGED <<capture, photos, shots, removals, fresh, acts, troubles>>
    /\ Covering /\ Quietly

\* The arrows, "r" and "s" work while a photo is processed, too.
MoveQueue ==
    /\ Move
    /\ queue.open /\ ~Finished(queue)
    /\ \E i \in DOMAIN queue.members :
          i \in {queue.index - 1, queue.index + 1} /\ queue' = [queue EXCEPT !.index = i]
    /\ UNCHANGED <<capture, photos, shots, removals, fresh, troubles>>
    /\ Covering /\ Quietly

RetryInQueue ==
    /\ Move
    /\ queue.open /\ ~Finished(queue)
    /\ queue.status[queue.index] # "pending"
    /\ queue' = WithStatus(queue, [queue.status EXCEPT ![queue.index] = "pending"])
    /\ UNCHANGED <<capture, photos, shots, removals, fresh, troubles>>
    /\ Covering /\ Quietly

SkipInQueue ==
    /\ Move
    /\ queue.open /\ ~Finished(queue)
    /\ LET status == [queue.status EXCEPT ![queue.index] = "skipped"]
           next == NextPending(status, queue.index)
       IN  queue' = [WithStatus(queue, status) EXCEPT !.index = IF next = 0 THEN @ ELSE next]
    /\ UNCHANGED <<capture, photos, shots, removals, fresh, troubles>>
    /\ Covering /\ Quietly

ShowCompletion ==
    /\ queue.open /\ Finished(queue) /\ ~queue.done
    /\ queue' = [queue EXCEPT !.done = TRUE]
    /\ RefreshMembers
    /\ UNCHANGED <<capture, photos, shots, removals, fresh, acts, troubles>>
    /\ Covering

(***************************************************************************)
(* One member before the camera.                                           *)
(***************************************************************************)
JumpToEnrollment(m) ==
    /\ Act
    /\ ListShown /\ m \in ShownMembers
    /\ capture' = [NoCapture EXCEPT !.member = m, !.person = PersonOf(m)]
    /\ UNCHANGED <<queue, photos, shots, removals, fresh, troubles>>
    /\ Covering /\ Quietly

\* Escape, the end of the countdown after success, or "Done".
CloseCapture ==
    /\ capture.member # None
    /\ Move \/ (capture.frame # None /\ capture.frame.at = "enrolled" /\ UNCHANGED acts)
    /\ capture' = NoCapture
    /\ shots' = Superseded(shots)
    /\ UNCHANGED <<queue, photos, removals, fresh, troubles>>
    /\ Covering /\ Quietly

\* captureProcessedFrame; a file may be dropped while a frame is processed.
CaptureFrame ==
    /\ Move
    /\ capture.member # None /\ (capture.frame # None => capture.frame.at = "processing")
    /\ capture' = [capture EXCEPT !.frame = [id |-> fresh + 1, of |-> capture.person, at |-> "processing"]]
    /\ fresh' = fresh + 1
    /\ Ask([kind |-> "frame", at |-> "check", latest |-> TRUE, id |-> fresh + 1, got |-> None])
    /\ UNCHANGED <<queue, photos, removals, troubles>>
    /\ Covering /\ Quietly

\* An answer is for the frame it was asked for, if that is still there.
FrameChecked(q, found) ==
    /\ q.kind = "frame"
    /\ Replied(q)
    /\ capture' = IF ~q.latest \/ capture.frame = None \/ capture.frame.id # q.id THEN capture
                  ELSE [capture EXCEPT !.frame = IF found THEN [@ EXCEPT !.at = "ready"] ELSE None]
    /\ UNCHANGED <<queue, photos, removals, fresh, acts, troubles>>
    /\ Covering /\ Quietly

Framed == capture.member # None /\ capture.frame # None /\ capture.frame.at = "ready"

RetakeFrame ==
    /\ Move
    /\ Framed
    /\ capture' = [capture EXCEPT !.frame = None]
    /\ UNCHANGED <<queue, photos, shots, removals, fresh, troubles>>
    /\ Covering /\ Quietly

HandleEnroll ==
    /\ Move
    /\ Framed /\ ~capture.busy
    /\ capture' = [capture EXCEPT !.busy = TRUE]
    /\ Ask([kind |-> "single", at |-> "enroll", latest |-> TRUE, group |-> selected, member |-> capture.member,
            of |-> capture.frame.of, id |-> capture.frame.id, got |-> None])
    /\ UNCHANGED <<queue, photos, removals, fresh, troubles>>
    /\ Covering /\ Quietly

FrameEnrolled(q) ==
    /\ q.kind = "single" /\ q.got # None
    /\ Replied(q)
    /\ LET shown == q.latest /\ capture.frame # None /\ capture.frame.id = q.id
       IN  capture' = IF ~q.latest THEN capture
                      ELSE IF q.got = "ok" /\ shown
                      THEN [capture EXCEPT !.busy = FALSE, !.frame.at = "enrolled"]
                      ELSE [capture EXCEPT !.busy = FALSE]
    /\ IF q.got = "ok" THEN RefreshMembers ELSE Quietly
    /\ UNCHANGED <<queue, photos, removals, fresh, acts, troubles>>
    /\ Covering

(***************************************************************************)
(* Photos of many members.                                                 *)
(***************************************************************************)
OpenPhotos(members) ==
    /\ Act
    /\ ListShown
    /\ members \subseteq ShownMembers /\ Cardinality(members) > 1
    /\ photos' = [NoPhotos EXCEPT !.open = TRUE, !.among = members]
    /\ UNCHANGED <<queue, capture, shots, removals, fresh, troubles>>
    /\ Covering /\ Quietly

ClosePhotos ==
    /\ Move
    /\ photos.open
    /\ photos' = NoPhotos
    /\ shots' = Superseded(shots)
    /\ UNCHANGED <<queue, capture, removals, fresh, troubles>>
    /\ Covering /\ Quietly

\* processFiles: the faces of the new file are told apart by its place among
\* all files.  The person is a member, or somebody new.
StartIndex == Len(photos.files)

PickFile(person) ==
    /\ Move
    /\ photos.open /\ ~photos.detecting /\ ~photos.results
    /\ photos' = [photos EXCEPT !.files = Append(@, person), !.detecting = TRUE]
    /\ fresh' = IF person \in {p.intent : p \in people} THEN fresh ELSE fresh + 1
    /\ Ask([kind |-> "detect", latest |-> TRUE, of |-> person, file |-> StartIndex + 1, got |-> None])
    /\ UNCHANGED <<queue, capture, removals, troubles>>
    /\ Covering /\ Quietly

\* A face goes to the member whose name the file has, or to a new one: among
\* the members that were selected, or all of them when Escape has unselected these.
FacesDetected(q, found) ==
    /\ q.kind = "detect"
    /\ Replied(q)
    /\ \E known \in {panel.shown \cap photos.among, panel.shown} :
       LET matched == {m \in known : \E p \in people : p.id = m /\ p.intent = q.of}
           face == [id |-> fresh + 1, of |-> q.of, file |-> q.file, new |-> matched = {},
                    member |-> IF matched = {} THEN None ELSE CHOOSE m \in matched : TRUE]
       IN  /\ photos' = IF ~q.latest THEN photos
                        ELSE [photos EXCEPT !.detecting = FALSE, !.found = IF found THEN @ \cup {face} ELSE @]
           /\ doubts' = IF \/ \E p \in people : p.intent = q.of /\ p.id \notin known
                           \/ \E a \in adds : a.kind # "face" /\ Awaited(a) /\ q.of \in Entries(a.rows)
                        THEN doubts \cup {"tokenless"} ELSE doubts
    /\ fresh' = fresh + 1
    /\ UNCHANGED <<elsewhere, people, form, bulk, checks, adds, faces, queue, capture, removals, acts, troubles>>
    /\ Quietly

\* A face is not to be enrolled, or its member is to be created.  React makes
\* another object of it.
EditFace(face) ==
    /\ Move
    /\ photos.open /\ ~photos.results /\ face.member = None
    /\ photos' = [photos EXCEPT !.found = (@ \ {face}) \cup {[face EXCEPT !.id = fresh + 1, !.new = ~@]}]
    /\ fresh' = fresh + 1
    /\ UNCHANGED <<queue, capture, shots, removals, troubles>>
    /\ Covering /\ Quietly

\* handleClearFiles.
ClearFiles ==
    /\ Move
    /\ photos.open /\ ~photos.detecting /\ ~photos.results /\ photos.files # <<>>
    /\ photos' = [photos EXCEPT !.files = <<>>, !.found = {}]
    /\ UNCHANGED <<queue, capture, shots, removals, fresh, troubles>>
    /\ Covering /\ Quietly

HandleBulkEnroll ==
    /\ Move
    /\ photos.open /\ ~photos.enrolling /\ ~photos.results
    /\ LET ready == {f \in photos.found : f.member # None \/ f.new}
       IN  /\ ready # {}
           /\ Ask([kind |-> "photos", at |-> "create", latest |-> TRUE, group |-> selected, faces |-> ready,
                   tried |-> {}, files |-> photos.files, created |-> {}, got |-> None])
    /\ photos' = [photos EXCEPT !.enrolling = TRUE]
    /\ UNCHANGED <<queue, capture, removals, fresh, troubles>>
    /\ Covering /\ Quietly

\* A member is created without a token that a retry would repeat; its face
\* keeps it, if the face has not become another object.
CreateForFace(q, face) ==
    /\ q.kind = "photos" /\ q.at = "create" /\ face \in q.faces
    /\ face.member = None /\ face.id \notin q.tried
    /\ LET id == fresh + 1
           given == [face EXCEPT !.member = id]
           saved == people \cup {[id |-> id, group |-> q.group, intent |-> face.of, name |-> 0]}
       IN  \/ /\ q.group \in groups
              /\ people' = saved
              /\ shots' = (shots \ {q}) \cup {[q EXCEPT !.faces = (@ \ {face}) \cup {given}, !.created = @ \cup {id}]}
              /\ photos' = IF face \in photos.found
                           THEN [photos EXCEPT !.found = (@ \ {face}) \cup {given}] ELSE photos
              /\ doubts' = IF q.latest /\ face \in photos.found THEN doubts ELSE doubts \cup {"tokenless"}
              /\ UNCHANGED troubles
           \/ /\ (q.group \notin groups /\ UNCHANGED <<people, troubles, doubts>>) \/
                 (Trouble /\ UNCHANGED <<people, doubts>>) \/
                 (q.group \in groups /\ Trouble /\ people' = saved /\ doubts' = doubts \cup {"tokenless", "unseen"})
              /\ shots' = (shots \ {q}) \cup {[q EXCEPT !.tried = @ \cup {face.id}]}
              /\ UNCHANGED photos
    /\ fresh' = fresh + 1
    /\ UNCHANGED <<elsewhere, panel, refreshes, form, bulk, checks, adds, faces, acts, queue, capture, removals>>

\* The members that were created are shown, and the faces are sent with the
\* files at their places.
PrepareFaces(q) ==
    /\ q.kind = "photos" /\ q.at = "create"
    /\ \A f \in q.faces : f.member # None \/ f.id \in q.tried
    /\ panel' = [panel EXCEPT !.shown = @ \cup q.created]
    /\ IF \E f \in q.faces : f.member # None
       THEN /\ shots' = (shots \ {q}) \cup {[q EXCEPT !.at = "enroll"]}
            /\ UNCHANGED photos
       ELSE /\ Replied(q)
            /\ photos' = IF q.latest THEN [photos EXCEPT !.enrolling = FALSE] ELSE photos
    /\ UNCHANGED <<queue, capture, removals, refreshes, fresh, acts, troubles>>
    /\ Covering

ServePhotos(q) ==
    /\ q.kind = "photos" /\ q.at = "enroll" /\ q.got = None
    /\ LET sent == {f \in q.faces : \E p \in people : p.id = f.member /\ p.group = q.group}
           stored == {f \in faces : \A g \in sent : g.member # f.member}
                        \cup {[member |-> g.member, of |-> q.files[g.file]] : g \in sent}
       IN  \/ faces' = stored /\ Got(q, IF sent = {} THEN "none" ELSE "ok") /\ UNCHANGED troubles
           \/ Trouble /\ faces' \in {faces, stored} /\ Got(q, "failed")
    /\ UNCHANGED <<elsewhere, people, panel, refreshes, form, bulk, checks, adds, fresh, doubts, acts,
                   queue, capture, photos, removals>>

\* A member that was created is only shown again by a refresh, which a failure
\* does not ask for.
PhotosEnrolled(q) ==
    /\ q.kind = "photos" /\ q.got # None
    /\ Replied(q)
    /\ photos' = IF ~q.latest THEN photos
                 ELSE [photos EXCEPT !.enrolling = FALSE, !.results = @ \/ q.got # "failed"]
    /\ IF q.got = "ok" THEN RefreshMembers /\ UNCHANGED doubts
       ELSE Quietly /\ doubts' = IF q.created = {} THEN doubts ELSE doubts \cup {"unseen"}
    /\ UNCHANGED <<elsewhere, people, form, bulk, checks, adds, faces, queue, capture, removals, fresh,
                   acts, troubles>>

(***************************************************************************)
(* Removing members and faces.                                             *)
(***************************************************************************)
\* Members disappear from the list at once.
RemoveMembers(ids) ==
    /\ Act
    /\ ListShown /\ ids # {} /\ ids \subseteq ShownMembers
    /\ removals' = removals \cup {[ids |-> ids, previous |-> panel.shown, got |-> None]}
    /\ panel' = [panel EXCEPT !.shown = @ \ ids]
    /\ UNCHANGED <<queue, capture, photos, shots, refreshes, fresh, troubles>>
    /\ Covering

ServeRemoval(d) ==
    /\ d.got = None
    /\ LET kept == {p \in people : p.id \notin d.ids}
           left == {f \in faces : f.member \notin d.ids}
           answer(a) == removals' = (removals \ {d}) \cup {[d EXCEPT !.got = a]}
       IN  \/ people' = kept /\ faces' = left /\ answer("ok") /\ UNCHANGED <<troubles, doubts>>
           \/ Trouble /\ UNCHANGED <<people, faces, doubts>> /\ answer("failed")
           \/ Trouble /\ people' = kept /\ faces' = left /\ answer("failed") /\ doubts' = doubts \cup {"unseen"}
    /\ UNCHANGED <<elsewhere, panel, refreshes, form, bulk, checks, adds, fresh, acts, queue, capture, photos, shots>>

\* removeMember reports a failure by its result, which nobody looks at: the
\* list is refreshed either way.  removeMembersBulk throws, and puts back the
\* members the panel had, whatever it is for by now.
RemovalAnswered(d) ==
    /\ d.got # None
    /\ removals' = removals \ {d}
    /\ IF d.got = "ok" \/ Cardinality(d.ids) = 1
       THEN RefreshMembers /\ UNCHANGED doubts
       ELSE /\ panel' = [panel EXCEPT !.shown = d.previous]
            /\ doubts' = doubts \cup {"undone"}
            /\ UNCHANGED refreshes
    /\ UNCHANGED <<elsewhere, people, form, bulk, checks, adds, faces, queue, capture, photos, shots, fresh,
                   acts, troubles>>

\* handleResetFace; its answer comes with the refresh.
ResetFace(f) ==
    /\ Act
    /\ ListShown /\ f \in faces /\ f.member \in ShownMembers
    /\ faces' = faces \ {f}
    /\ RefreshMembers
    /\ UNCHANGED <<elsewhere, people, form, bulk, checks, adds, queue, capture, photos, shots, removals,
                   fresh, doubts, troubles>>

CoverNext ==
    \/ \E s \in SUBSET ShownMembers : OpenQueue(s) \/ OpenPhotos(s) \/ RemoveMembers(s)
    \/ CloseQueue \/ CaptureFromQueue \/ MoveQueue \/ RetryInQueue \/ SkipInQueue \/ ShowCompletion
    \/ \E i \in queue.jumps : JumpToNext(i)
    \/ \E m \in ShownMembers : JumpToEnrollment(m)
    \/ CloseCapture \/ CaptureFrame \/ RetakeFrame \/ HandleEnroll
    \/ ClosePhotos \/ ClearFiles \/ HandleBulkEnroll
    \/ \E p \in people : PickFile(p.intent)
    \/ PickFile(fresh + 1)
    \/ \E f \in photos.found : EditFace(f)
    \/ \E q \in shots, found \in BOOLEAN :
          CaptureChecked(q, found) \/ FrameChecked(q, found) \/ FacesDetected(q, found)
    \/ \E q \in shots : \/ ServeShot(q) \/ QueueEnrolled(q) \/ FrameEnrolled(q)
                        \/ PrepareFaces(q) \/ ServePhotos(q) \/ PhotosEnrolled(q)
    \/ \E q \in shots : q.kind = "photos" /\ \E f \in q.faces : CreateForFace(q, f)
    \/ \E d \in removals : ServeRemoval(d) \/ RemovalAnswered(d)
    \/ \E f \in faces : ResetFace(f)

================================================================================
