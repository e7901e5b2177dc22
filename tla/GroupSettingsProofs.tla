-------------------------- MODULE GroupSettingsProofs --------------------------
(***************************************************************************)
(* Proofs about two pages of a group's settings.  The page that enrolls a  *)
(* face (EnrollmentCamera): for any cameras, and however often they are    *)
(* opened, chosen, pulled out or failing, no stream outlives what it is    *)
(* shown for, and a ready preview is the selected camera's.  The page of   *)
(* the rules (GroupPanel, within Desktop): for any groups and any answers, *)
(* a page whose saves are settled shows what the service has.  And of the  *)
(* panel itself: what each step leaves due to it (PanelInv), from which    *)
(* EnrollmentProofs concludes that it settles.                             *)
(***************************************************************************)
EXTENDS EnrollmentCamera, Desktop, TLAPS

NoneOr == Cameras \cup {NoCamera}
FacePages == [at : {"closed", "open", "leaving"}, live : BOOLEAN, info : BOOLEAN, framed : BOOLEAN]
Attempts == [at : {"none", "devices", "media", "play", "started"}, camera : NoneOr]
Feeds == [streaming : BOOLEAN, ready : BOOLEAN, recovering : BOOLEAN, error : BOOLEAN]

\* The variables have their types, whatever happens to the cameras.
CameraTypeOK ==
    /\ facePage \in FacePages
    /\ plugged \subseteq Cameras
    /\ attempt \in Attempts
    /\ streamRef \in NoneOr
    /\ late \in Nat /\ lit \in Int
    /\ feed \in Feeds
    /\ selectedCamera \in NoneOr /\ savedCamera \in NoneOr /\ reading \in NoneOr
    /\ restarts \in Seq(Cameras)
    /\ slips \subseteq {"readLate", "pickedTwice"}

(***************************************************************************)
(* Why no stream is left over: a start holds a stream from the answer to   *)
(* getUserMedia on, it gets that far only with a video element to play in, *)
(* and neither a start nor the timer of a choice outlives the page or      *)
(* begins under its explanation.                                           *)
(***************************************************************************)
HeldByAttempt ==
    /\ streamRef # NoCamera <=> attempt.at \in {"play", "started"}
    /\ lit = IF streamRef = NoCamera THEN 0 ELSE 1

StartedOnPage ==
    /\ attempt.at # "none" \/ restarts # <<>> =>
           facePage.at = "leaving" \/ (facePage.at = "open" /\ ~facePage.info)
    /\ attempt.at \in {"media", "play", "started"} => VideoMounted

\* And why the ready preview is the selected one: a preview is ready in a start
\* that has ended, and without a slip that start, or the timer that will make
\* the next one, is for the selected camera.
ReadyStarted ==
    /\ attempt.at # "none" => feed.streaming
    /\ feed.ready \/ feed.recovering => attempt.at = "started"
    /\ attempt.at \in {"play", "started"} => streamRef = attempt.camera

ForSelected ==
    slips = {} =>
        /\ attempt.at # "none" => attempt.camera = selectedCamera
        /\ restarts # <<>> => restarts = <<selectedCamera>> /\ selectedCamera \in plugged

CameraInv == CameraTypeOK /\ HeldByAttempt /\ StartedOnPage /\ ReadyStarted /\ ForSelected

\* Released, the page holds nothing.
LEMMA Released ==
    ASSUME CameraTypeOK, HeldByAttempt, ReleaseCamera
    PROVE  /\ attempt' = NoAttempt /\ streamRef' = NoCamera
           /\ late' \in Nat /\ lit' = 0
BY DEF CameraTypeOK, HeldByAttempt, ReleaseCamera, Attempts

LEMMA FeedTypes == NoFeed \in Feeds /\ [NoFeed EXCEPT !.error = TRUE] \in Feeds
BY DEF NoFeed, Feeds

LEMMA InitCamera == ASSUME EnrollmentCameraInit PROVE CameraInv
<1> USE DEF EnrollmentCameraInit, NoAttempt, NoFeed, ClosedPage
<1>1. CameraTypeOK
  BY DEF CameraTypeOK, NoneOr, FacePages, Attempts, Feeds
<1>2. HeldByAttempt /\ StartedOnPage /\ ReadyStarted /\ ForSelected
  BY DEF HeldByAttempt, StartedOnPage, ReadyStarted, ForSelected
<1> QED
  BY <1>1, <1>2 DEF CameraInv

\* What a start that is given up, for whatever reason, leaves behind.
LEMMA GivenUp ==
    ASSUME CameraInv, ReleaseCamera, feed' \in {NoFeed, [NoFeed EXCEPT !.error = TRUE]},
           facePage' \in FacePages, plugged' \subseteq Cameras,
           selectedCamera' \in NoneOr, savedCamera' \in NoneOr, reading' \in NoneOr,
           restarts' \in Seq(Cameras), slips' \subseteq {"readLate", "pickedTwice"},
           restarts' # <<>> => facePage'.at = "leaving" \/ (facePage'.at = "open" /\ ~facePage'.info),
           slips' = {} /\ restarts' # <<>> => restarts' = <<selectedCamera'>> /\ selectedCamera' \in plugged'
    PROVE  CameraInv'
<1>1. /\ attempt' = NoAttempt /\ streamRef' = NoCamera
      /\ late' \in Nat /\ lit' = 0
  BY Released DEF CameraInv
<1>2. feed' \in Feeds /\ ~feed'.ready /\ ~feed'.recovering
  <2>1. CASE feed' = NoFeed
    BY <2>1, FeedTypes DEF NoFeed
  <2>2. CASE feed' = [NoFeed EXCEPT !.error = TRUE]
    BY <2>2, FeedTypes DEF NoFeed
  <2> QED
    BY <2>1, <2>2
<1>3. CameraTypeOK'
  BY <1>1, <1>2 DEF CameraTypeOK, Attempts, NoneOr, NoAttempt
<1>4. HeldByAttempt' /\ StartedOnPage' /\ ReadyStarted' /\ ForSelected'
  BY <1>1, <1>2 DEF HeldByAttempt, StartedOnPage, ReadyStarted, ForSelected, NoAttempt
<1> QED
  BY <1>3, <1>4 DEF CameraInv

\* startCamera begins a start only if there is none and nothing streams.
LEMMA StartBegins ==
    ASSUME CameraInv, NEW camera \in NoneOr, StartCamera(camera)
    PROVE  /\ attempt' \in Attempts /\ feed' \in Feeds
           /\ UNCHANGED <<streamRef, late, lit>>
           /\ \/ attempt.at # "none" /\ UNCHANGED <<attempt, feed>>
              \/ /\ attempt.at = "none" /\ streamRef = NoCamera
                 /\ attempt'.at = "devices" /\ attempt'.camera = camera
                 /\ feed'.streaming /\ ~feed'.ready /\ ~feed'.recovering
<1> USE DEF CameraInv, CameraTypeOK
<1>1. CASE Starting \/ streamRef # NoCamera
  BY <1>1 DEF StartCamera, Starting, cameraRefs, HeldByAttempt
<1>2. CASE ~(Starting \/ streamRef # NoCamera)
  <2>1. attempt.at = "none"
    BY <1>2 DEF Starting, HeldByAttempt, Attempts
  <2>2. attempt' \in Attempts /\ attempt'.at = "devices" /\ attempt'.camera = camera
    BY <1>2 DEF StartCamera, Attempts
  <2>3. feed' = [NoFeed EXCEPT !.streaming = TRUE] /\ UNCHANGED <<streamRef, late, lit>>
    BY <1>2 DEF StartCamera
  <2>4. feed' \in Feeds /\ feed'.streaming /\ ~feed'.ready /\ ~feed'.recovering
    BY <2>3 DEF NoFeed, Feeds
  <2> QED
    BY <1>2, <2>1, <2>2, <2>3, <2>4
<1> QED
  BY <1>1, <1>2

\* The answers a start waits for, and what checkPreview sees.
LEMMA AnswerStep ==
    ASSUME CameraInv,
           \/ GetCameraDevices \/ GetUserMedia \/ GetUserMediaFails \/ LateAnswer
           \/ VideoReady \/ VideoFails \/ CheckPreview \/ PreviewResumes
    PROVE  CameraInv'
<1> USE DEF CameraInv, CameraTypeOK, cameraRefs, choiceVars, Malfunction
<1>1. CASE GetCameraDevices
  <2>1. ASSUME VideoMounted, NEW camera \in Usable(attempt.camera),
               attempt' = [at |-> "media", camera |-> camera],
               selectedCamera' = IF camera = attempt.camera THEN selectedCamera ELSE camera,
               savedCamera' = IF camera = attempt.camera THEN savedCamera ELSE camera,
               UNCHANGED <<streamRef, late, lit, feed>>
        PROVE  CameraInv'
    <3>1. camera \in Cameras /\ (attempt.camera \in plugged => camera = attempt.camera)
      BY <2>1 DEF Usable
    <3>2. CameraTypeOK'
      BY <1>1, <2>1, <3>1 DEF GetCameraDevices, Attempts, NoneOr
    <3>3. HeldByAttempt' /\ StartedOnPage' /\ ReadyStarted'
      BY <1>1, <2>1 DEF GetCameraDevices, HeldByAttempt, StartedOnPage, ReadyStarted, VideoMounted
    <3>4. ForSelected'
      BY <1>1, <2>1, <3>1 DEF GetCameraDevices, ForSelected
    <3> QED
      BY <3>2, <3>3, <3>4
  <2>2. CASE FailPreview /\ UNCHANGED <<selectedCamera, savedCamera>>
    BY <1>1, <2>2, GivenUp DEF GetCameraDevices, FailPreview, StartedOnPage, ForSelected
  <2> QED
    BY <1>1, <2>1, <2>2 DEF GetCameraDevices
<1>2. CASE GetUserMedia
  <2>1. CameraTypeOK' /\ HeldByAttempt' /\ StartedOnPage'
    BY <1>2, EnrollmentCameraAssumption
       DEF GetUserMedia, Attempts, NoneOr, HeldByAttempt, StartedOnPage, VideoMounted
  <2>2. ReadyStarted' /\ ForSelected'
    BY <1>2 DEF GetUserMedia, Attempts, ReadyStarted, ForSelected
  <2> QED
    BY <2>1, <2>2
<1>3. CASE GetUserMediaFails
  <2>1. attempt' = NoAttempt /\ feed' \in Feeds /\ ~feed'.ready /\ ~feed'.recovering
    BY <1>3, FeedTypes DEF GetUserMediaFails, NoFeed
  <2>2. CameraTypeOK' /\ HeldByAttempt' /\ StartedOnPage'
    BY <1>3, <2>1 DEF GetUserMediaFails, NoAttempt, Attempts, NoneOr, HeldByAttempt, StartedOnPage
  <2>3. ReadyStarted' /\ ForSelected'
    BY <1>3, <2>1 DEF GetUserMediaFails, NoAttempt, ReadyStarted, ForSelected
  <2> QED
    BY <2>2, <2>3
<1>4. CASE LateAnswer
  BY <1>4 DEF LateAnswer, ReleaseLate, HeldByAttempt, StartedOnPage, VideoMounted,
              ReadyStarted, ForSelected
<1>5. CASE VideoReady
  <2>1. CameraTypeOK' /\ HeldByAttempt' /\ StartedOnPage'
    BY <1>5 DEF VideoReady, Attempts, Feeds, HeldByAttempt, StartedOnPage, VideoMounted
  <2>2. ReadyStarted' /\ ForSelected'
    BY <1>5 DEF VideoReady, Attempts, Feeds, ReadyStarted, ForSelected
  <2> QED
    BY <2>1, <2>2
<1>6. CASE VideoFails
  BY <1>6, GivenUp DEF VideoFails, FailPreview, StartedOnPage, ForSelected
<1>7. CASE CheckPreview \/ PreviewResumes
  <2>1. attempt.at = "started" /\ attempt' = attempt /\ feed' \in Feeds /\ feed'.streaming = feed.streaming
    BY <1>7 DEF CheckPreview, PreviewResumes, ReadyStarted, Feeds
  <2> QED
    BY <1>7, <2>1 DEF CheckPreview, PreviewResumes, HeldByAttempt, StartedOnPage, VideoMounted,
                      ReadyStarted, ForSelected
<1> QED
  BY <1>1, <1>2, <1>3, <1>4, <1>5, <1>6, <1>7

\* Cameras that are plugged in and pulled out.
LEMMA PlugStep ==
    ASSUME CameraInv, NEW camera \in Cameras, Plug(camera) \/ TrackEnds(camera)
    PROVE  CameraInv'
<1> USE DEF CameraInv, CameraTypeOK, cameraRefs, choiceVars, Malfunction
<1>1. CASE TrackEnds(camera) /\ camera = streamRef
  BY <1>1, GivenUp DEF TrackEnds, FailPreview, StartedOnPage, ForSelected
<1>2. CASE Plug(camera) \/ (TrackEnds(camera) /\ camera # streamRef)
  <2>1. /\ restarts = <<>> /\ plugged' \subseteq Cameras
        /\ UNCHANGED <<facePage, cameraRefs, feed, choiceVars>>
    BY <1>2 DEF Plug, TrackEnds
  <2> QED
    BY <2>1 DEF HeldByAttempt, StartedOnPage, VideoMounted, ReadyStarted, ForSelected
<1> QED
  BY <1>1, <1>2

\* A page that changes lets go of a preview it no longer needs.
LEMMA PageStep ==
    ASSUME CameraInv, NEW p \in FacePages, PageChanges(p), UNCHANGED <<plugged, choiceVars>>,
           facePage.at = "open", p.at \in {"open", "leaving"}, p.info => facePage.info \/ p.at = "leaving"
    PROVE  CameraInv'
<1> USE DEF CameraInv, CameraTypeOK, choiceVars
<1>1. facePage' = p
  BY DEF PageChanges
<1>2. CASE Needs(p)
  <2>1. UNCHANGED <<cameraRefs, feed>> /\ p.at = "open" /\ p.live /\ ~p.info /\ ~p.framed
    BY <1>2 DEF PageChanges, Needs
  <2> QED
    BY <1>1, <2>1 DEF cameraRefs, HeldByAttempt, StartedOnPage, VideoMounted, ReadyStarted, ForSelected
<1>3. CASE ~Needs(p)
  <2>1. StopCamera
    BY <1>3 DEF PageChanges
  <2> QED
    BY <1>1, <2>1, GivenUp DEF StopCamera, StartedOnPage, ForSelected
<1> QED
  BY <1>2, <1>3

\* A start of the selected camera, by the effect, a button or a timer.
LEMMA StartStep ==
    ASSUME CameraInv, NEW camera \in NoneOr, StartCamera(camera),
           facePage' \in FacePages,
           \/ facePage'.at = "leaving" /\ facePage' = facePage
           \/ facePage.at = "open" /\ facePage'.at = "open" /\ ~facePage'.info
              /\ (VideoMounted => VideoMounted'),
           restarts' \in Seq(Cameras), restarts' # <<>> => restarts # <<>>,
           slips = {} /\ restarts' # <<>> => restarts' = restarts,
           slips = {} => camera = selectedCamera,
           UNCHANGED <<plugged, selectedCamera, savedCamera, reading, slips>>
    PROVE  CameraInv'
<1> USE DEF CameraInv
<1>1. /\ attempt' \in Attempts /\ feed' \in Feeds
      /\ UNCHANGED <<streamRef, late, lit>>
      /\ \/ attempt.at # "none" /\ UNCHANGED <<attempt, feed>>
         \/ /\ attempt.at = "none" /\ streamRef = NoCamera
            /\ attempt'.at = "devices" /\ attempt'.camera = camera
            /\ feed'.streaming /\ ~feed'.ready /\ ~feed'.recovering
  BY StartBegins
<1>2. CameraTypeOK'
  BY <1>1 DEF CameraTypeOK
<1>3. HeldByAttempt' /\ StartedOnPage'
  BY <1>1 DEF HeldByAttempt, StartedOnPage, VideoMounted
<1>4. ReadyStarted' /\ ForSelected'
  BY <1>1 DEF ReadyStarted, ForSelected
<1> QED
  BY <1>2, <1>3, <1>4

\* What starts the camera: the effect, two buttons, and the timer of a choice.
LEMMA StartsStep ==
    ASSUME CameraInv, AutoStart \/ ResetWorkflow \/ RetryCamera \/ RestartDue
    PROVE  CameraInv'
<1> USE DEF CameraInv, CameraTypeOK, choiceVars
<1>1. CASE AutoStart
  BY <1>1, StartStep DEF AutoStart, Needs, VideoMounted
<1>2. CASE RetryCamera
  BY <1>2, StartStep DEF RetryCamera, OnPage, VideoMounted
<1>3. CASE ResetWorkflow
  <2>1. /\ facePage' \in FacePages /\ facePage.at = "open" /\ facePage'.at = "open"
        /\ ~facePage'.info /\ (VideoMounted => VideoMounted')
        /\ facePage'.live = facePage.live /\ facePage.framed /\ ~facePage'.framed
    BY <1>3 DEF ResetWorkflow, OnPage, FacePages, VideoMounted
  <2>2. CASE facePage.live
    BY <1>3, <2>1, <2>2, StartStep DEF ResetWorkflow
  <2>3. CASE ~facePage.live
    BY <1>3, <2>1, <2>3 DEF ResetWorkflow, cameraRefs, HeldByAttempt, StartedOnPage, ReadyStarted, ForSelected
  <2> QED
    BY <2>2, <2>3
<1>4. CASE RestartDue
  <2>1. restarts # <<>> /\ Head(restarts) \in NoneOr /\ restarts' \in Seq(Cameras)
    BY <1>4 DEF RestartDue, NoneOr
  <2>2. slips = {} => restarts = <<selectedCamera>> /\ Head(restarts) = selectedCamera /\ restarts' = <<>>
    BY <1>4 DEF RestartDue, ForSelected
  <2>3. facePage.at = "leaving" \/ (facePage.at = "open" /\ ~facePage.info)
    BY <2>1 DEF StartedOnPage
  <2> QED
    BY <1>4, <2>1, <2>2, <2>3, StartStep DEF RestartDue, VideoMounted
<1> QED
  BY <1>1, <1>2, <1>3, <1>4

\* Opening the page, reading the saved choice, and choosing another camera.
LEMMA ChoiceStep ==
    ASSUME CameraInv, OpenFacePage \/ SavedCameraRead \/ \E camera \in Cameras : SetSelectedCamera(camera)
    PROVE  CameraInv'
<1> USE DEF CameraInv, CameraTypeOK
<1>1. CASE OpenFacePage
  <2>1. attempt.at = "none" /\ restarts = <<>> /\ ~feed.ready /\ ~feed.recovering
    BY <1>1 DEF OpenFacePage, StartedOnPage, ReadyStarted
  <2>2. facePage' \in FacePages
    BY <1>1 DEF OpenFacePage, ClosedPage, FacePages
  <2> QED
    BY <1>1, <2>1, <2>2 DEF OpenFacePage, cameraRefs, NoneOr, HeldByAttempt, StartedOnPage,
                            ReadyStarted, ForSelected
<1>2. CASE SavedCameraRead
  BY <1>2 DEF SavedCameraRead, cameraRefs, NoneOr, HeldByAttempt, StartedOnPage, VideoMounted,
              ReadyStarted, ForSelected
<1>3. ASSUME NEW camera \in Cameras, SetSelectedCamera(camera)
      PROVE  CameraInv'
  <2> USE <1>3
  <2>1. /\ camera \in plugged /\ plugged' = plugged /\ facePage' = facePage /\ reading' = reading
        /\ facePage.at = "open" /\ ~facePage.info
        /\ selectedCamera' = camera /\ savedCamera' = camera
    BY DEF SetSelectedCamera, OnPage
  <2>2. slips' \subseteq {"readLate", "pickedTwice"} /\ (slips' = {} => slips = {} /\ restarts = <<>>)
    BY DEF SetSelectedCamera
  <2>3. CASE feed.streaming
    <3>1. StopCamera /\ restarts' = Append(restarts, camera)
      BY <2>3 DEF SetSelectedCamera, Stops
    <3>2. restarts' \in Seq(Cameras)
      BY <3>1
    <3>3. restarts = <<>> => restarts' = <<camera>>
      BY <3>1
    <3> QED
      BY <2>1, <2>2, <3>1, <3>2, <3>3, GivenUp DEF StopCamera, NoneOr
  <2>4. CASE ~feed.streaming
    <3>1. UNCHANGED <<cameraRefs, feed, restarts>> /\ attempt.at = "none"
      BY <2>4 DEF SetSelectedCamera, Stops, ReadyStarted
    <3> QED
      BY <2>1, <2>2, <3>1 DEF cameraRefs, NoneOr, HeldByAttempt, StartedOnPage, ReadyStarted, ForSelected
  <2> QED
    BY <2>3, <2>4
<1> QED
  BY <1>1, <1>2, <1>3

\* What else the user does on the page.
LEMMA UserStep ==
    ASSUME CameraInv, HandleConfirmInfoModal \/ SwitchSource \/ FrameTaken \/ LeaveFacePage \/ Unmount
    PROVE  CameraInv'
<1> USE DEF CameraInv, CameraTypeOK
<1>1. CASE HandleConfirmInfoModal
  BY <1>1, PageStep, [facePage EXCEPT !.info = FALSE] \in FacePages DEF HandleConfirmInfoModal, FacePages
<1>2. CASE SwitchSource
  BY <1>2, PageStep DEF SwitchSource, OnPage, FacePages
<1>3. CASE FrameTaken
  BY <1>3, PageStep DEF FrameTaken, OnPage, FacePages
<1>4. CASE LeaveFacePage
  BY <1>4, PageStep DEF LeaveFacePage, FacePages
<1>5. CASE Unmount
  BY <1>5, GivenUp DEF Unmount, StopCamera, ClosedPage, FacePages, NoneOr
<1> QED
  BY <1>1, <1>2, <1>3, <1>4, <1>5

LEMMA CameraStep == ASSUME CameraInv, [EnrollmentCameraNext]_enrollmentCameraVars PROVE CameraInv'
<1>1. CASE EnrollmentCameraNext
  BY <1>1, AnswerStep, PlugStep, StartsStep, ChoiceStep, UserStep DEF EnrollmentCameraNext
<1>2. CASE UNCHANGED enrollmentCameraVars
  BY <1>2 DEF enrollmentCameraVars, cameraRefs, choiceVars, CameraInv, CameraTypeOK, HeldByAttempt,
              StartedOnPage, VideoMounted, ReadyStarted, ForSelected
<1> QED
  BY <1>1, <1>2

(***************************************************************************)
(* The rules of a group.  A page and its saves are told from every other   *)
(* by the visit they belong to.  The save of the page's last revision is   *)
(* the last of its saves to settle, and until then the page has what it    *)
(* knows to be saved apart from what it shows.                             *)
(***************************************************************************)
NoGroupOr == Groups \cup {None}

\* What is known of the groups names none that is not one.
ListAnswer(r) ==
    /\ r = [captured |-> r.captured, from |-> r.from, only |-> r.only, got |-> r.got]
    /\ r.got # None => r.got.groups \subseteq Groups

GroupsKnown ==
    /\ groups \subseteq Groups /\ listed \subseteq Groups
    /\ current \in NoGroupOr /\ selected \in NoGroupOr
    /\ \A r \in refreshes : ListAnswer(r)

RulesTypeOK ==
    /\ rules = [g \in Groups |-> rules[g]]
    /\ page = [group |-> page.group, visit |-> page.visit, rev |-> page.rev, shown |-> page.shown,
               confirmed |-> page.confirmed]
    /\ page.group \in NoGroupOr /\ page.visit \in Nat /\ page.rev \in Nat
    /\ saves \subseteq [group : Groups, visit : Nat, rev : Nat, value : Nat]
    /\ behind \in BOOLEAN /\ acts \in Nat

\* A page is shown in the settings; a save belongs to one visit, and is one of its revisions.
VisitsTold ==
    /\ page.group # None => settings
    /\ page.visit <= acts
    /\ \A s \in saves :
        /\ s.visit <= acts
        /\ s.visit = page.visit => s.rev <= page.rev
        /\ s.visit = page.visit /\ page.group # None => s.group = page.group
    /\ \A s, t \in saves : s.visit = t.visit /\ s.rev = t.rev => s = t

\* While the page on display saves, its last revision is among what is saved.
LastSettlesLast ==
    page.group # None =>
        \/ \E s \in saves : s.visit = page.visit /\ s.rev = page.rev
        \/ (\A s \in saves : s.visit # page.visit) /\ page.shown = page.confirmed

Sure == doubts \cap {"outdated", "crossed", "unsure"} = {}

ConfirmedIsSaved == page.group # None /\ Sure /\ ~behind => page.confirmed = rules[page.group]

PageInv == RulesTypeOK /\ VisitsTold /\ LastSettlesLast /\ ConfirmedIsSaved
RulesInv == GroupsKnown /\ PageInv

\* Any refresh asks anew, and keeps the requests of the list alone.
LEMMA Refreshed ==
    ASSUME NEW cur, NEW sel, GroupsKnown
    PROVE  \A r \in Refresh(cur, sel) : ListAnswer(r)
PROOF
<1>1. \A r \in Overtaken : ListAnswer(r)  BY DEF GroupsKnown, Overtaken
<1>2. ListAnswer([captured |-> IF cur # None THEN cur ELSE sel, from |-> cur, only |-> FALSE, got |-> None])
    BY Zenon DEF ListAnswer
<1> QED  BY <1>1, <1>2, Zenon DEF Refresh

\* The settings follow a group that is one.
LEMMA Followed ==
    ASSUME GroupsKnown, NEW cur \in NoGroupOr, NEW known \in SUBSET Groups
    PROVE  Follow(cur, known) \in NoGroupOr
PROOF BY DEF Follow, NoGroupOr

\* Where the rules, the page and its saves stay, and doubts are not forgotten, so does the rest.
LEMMA PageKept ==
    ASSUME PageInv, UNCHANGED <<rules, page, saves, behind>>, acts' \in Nat, acts' >= acts,
           doubts \subseteq doubts', page.group # None => settings'
    PROVE  PageInv'
PROOF
<1>1. RulesTypeOK'  BY DEF PageInv, RulesTypeOK
<1>2. VisitsTold'
  <2>1. \A s \in saves : s.visit \in Nat  BY DEF PageInv, RulesTypeOK
  <2> QED  BY <2>1 DEF PageInv, RulesTypeOK, VisitsTold
<1>3. LastSettlesLast'  BY DEF PageInv, LastSettlesLast
<1>4. Sure' => Sure  BY DEF Sure
<1>5. ConfirmedIsSaved'  BY <1>4 DEF PageInv, ConfirmedIsSaved
<1> QED  BY <1>1, <1>2, <1>3, <1>5 DEF PageInv

\* An import changes rules that the page does not show, or the page is behind.
LEMMA RulesImported ==
    ASSUME PageInv, UNCHANGED <<page, saves, doubts>>, acts' \in Nat, acts' >= acts, page.group # None => settings',
           NEW g \in Groups, rules' = [rules EXCEPT ![g] = acts + 1], behind' = (behind \/ page.group = g)
    PROVE  PageInv'
PROOF
<1>1. behind \in BOOLEAN /\ (page.group = g) \in BOOLEAN  BY DEF PageInv, RulesTypeOK
<1>2. behind' \in BOOLEAN /\ (~behind' => ~behind /\ page.group # g)  BY <1>1
<1>3. rules' = [h \in Groups |-> rules'[h]]  BY DEF PageInv, RulesTypeOK
<1>4. RulesTypeOK'  BY <1>2, <1>3 DEF PageInv, RulesTypeOK
<1>5. VisitsTold'
  <2>1. \A s \in saves : s.visit \in Nat  BY DEF PageInv, RulesTypeOK
  <2> QED  BY <2>1 DEF PageInv, RulesTypeOK, VisitsTold
<1>6. LastSettlesLast'  BY DEF PageInv, LastSettlesLast
<1>7. ConfirmedIsSaved'
  <2> SUFFICES ASSUME page.group # None, Sure, ~behind'
               PROVE  page.confirmed = rules'[page.group]
    BY DEF ConfirmedIsSaved, Sure
  <2>1. page.confirmed = rules[page.group]  BY <1>2 DEF PageInv, ConfirmedIsSaved
  <2>2. page.group \in Groups /\ page.group # g  BY <1>2 DEF PageInv, RulesTypeOK, NoGroupOr
  <2> QED  BY <2>1, <2>2 DEF PageInv, RulesTypeOK
<1> QED  BY <1>4, <1>5, <1>6, <1>7 DEF PageInv

\* The page of another group is closed.
LEMMA PageMoved ==
    ASSUME PageInv, UNCHANGED <<rules, saves, behind>>, acts' \in Nat, acts' >= acts, doubts \subseteq doubts',
           page' \in {page, [page EXCEPT !.group = None]}, page'.group # None => settings'
    PROVE  PageInv'
PROOF
<1>1. CASE page' = page  BY <1>1, PageKept
<1>2. CASE page' = [page EXCEPT !.group = None]
  <2>1. /\ page' = [group |-> None, visit |-> page.visit, rev |-> page.rev, shown |-> page.shown,
                    confirmed |-> page.confirmed]
    BY <1>2 DEF PageInv, RulesTypeOK
  <2>2. /\ page'.group = None /\ page'.visit = page.visit /\ page'.rev = page.rev
        /\ page'.shown = page.shown /\ page'.confirmed = page.confirmed
    BY <2>1
  <2>3. RulesTypeOK'  BY <2>1, <2>2 DEF PageInv, RulesTypeOK, NoGroupOr
  <2>4. VisitsTold'
    <3>1. \A s \in saves : s.visit \in Nat  BY DEF PageInv, RulesTypeOK
    <3> QED  BY <2>2, <3>1 DEF PageInv, RulesTypeOK, VisitsTold
  <2> QED  BY <2>2, <2>3, <2>4 DEF PageInv, LastSettlesLast, ConfirmedIsSaved
<1> QED  BY <1>1, <1>2

LEMMA PageOfMoves ==
    ASSUME NEW sel
    PROVE  PageOf(sel) \in {page, [page EXCEPT !.group = None]}
PROOF BY DEF PageOf

\* A group is chosen, and the page shows its rules anew, unless they are not the
\* service's, or the page is of another group or saves.
LEMMA PageSelected ==
    ASSUME PageInv, NEW g \in Groups, NEW value, Selects(g, value), UNCHANGED <<rules, saves, behind>>,
           acts' \in Nat, acts' >= acts, doubts \cup Aged(g, value) \subseteq doubts',
           page.group # None => settings'
    PROVE  PageInv'
PROOF
<1>1. CASE page' = PageOf(g)
  <2>1. page' \in {page, [page EXCEPT !.group = None]}  BY <1>1, PageOfMoves
  <2>2. page'.group # None => page.group # None  BY <2>1 DEF PageInv, RulesTypeOK
  <2> QED  BY <2>1, <2>2, PageMoved
<1>2. CASE /\ page.group = g /\ \A s \in saves : s.visit # page.visit
           /\ page' = [page EXCEPT !.confirmed = value, !.shown = value]
  <2>1. page' = [group |-> page.group, visit |-> page.visit, rev |-> page.rev, shown |-> value,
                 confirmed |-> value]
    BY <1>2 DEF PageInv, RulesTypeOK
  <2>2. /\ page'.group = page.group /\ page'.visit = page.visit /\ page'.rev = page.rev
        /\ page'.shown = value /\ page'.confirmed = value
    BY <2>1
  <2>3. RulesTypeOK'  BY <2>1, <2>2 DEF PageInv, RulesTypeOK
  <2>4. VisitsTold'
    <3>1. \A s \in saves : s.visit \in Nat  BY DEF PageInv, RulesTypeOK
    <3> QED  BY <2>2, <3>1 DEF PageInv, RulesTypeOK, VisitsTold
  <2>5. LastSettlesLast'  BY <1>2, <2>2 DEF LastSettlesLast
  <2>6. Sure' => value = rules[g]  BY DEF Sure, Aged
  <2> QED  BY <1>2, <2>2, <2>3, <2>4, <2>5, <2>6 DEF PageInv, ConfirmedIsSaved
<1> QED  BY <1>1, <1>2 DEF Selects

\* What neither the lists, the rules nor their page are concerned with.
LEMMA ElsewhereKept ==
    ASSUME RulesInv, UNCHANGED elsewhere, acts' \in Nat, acts' >= acts, doubts \subseteq doubts',
           refreshes' = refreshes \/ refreshes' = Refresh(current, selected)
    PROVE  RulesInv'
PROOF
<1> USE DEF elsewhere, choice, lists, ruling, following, saving
<1>1. \A r \in refreshes' : ListAnswer(r)  BY Refreshed DEF RulesInv, GroupsKnown
<1>2. GroupsKnown'
  <2>1. \A r \in refreshes' : ListAnswer(r)'  BY <1>1 DEF ListAnswer
  <2> QED  BY <2>1 DEF RulesInv, GroupsKnown
<1>3. page.group # None => settings'  BY DEF RulesInv, PageInv, VisitsTold
<1>4. PageInv'  BY <1>3, PageKept DEF RulesInv
<1> QED  BY <1>2, <1>4 DEF RulesInv

LEMMA KnownKept ==
    ASSUME groups' \subseteq Groups, listed' \subseteq Groups, current' \in NoGroupOr, selected' \in NoGroupOr,
           \A r \in refreshes' : ListAnswer(r)
    PROVE  GroupsKnown'
PROOF
<1>1. \A r \in refreshes' : ListAnswer(r)'  BY DEF ListAnswer
<1> QED  BY <1>1 DEF GroupsKnown

\* The selected group follows the panel's.
LEMMA FollowsKept ==
    ASSUME RulesInv, NEW cur \in NoGroupOr, NEW known \in SUBSET Groups, NEW values,
           Follows(cur, known, values), settings' = settings
    PROVE  /\ selected' \in NoGroupOr
           /\ page' \in {page, [page EXCEPT !.group = None]}
           /\ page'.group # None => settings'
PROOF
<1>1. selected' \in NoGroupOr
    BY Followed DEF RulesInv, GroupsKnown, Follows
<1>2. \E sel : page' = PageOf(sel)  BY DEF Follows
<1>3. page' \in {page, [page EXCEPT !.group = None]}  BY <1>2, PageOfMoves
<1>4. page'.group # None => page.group # None  BY <1>3 DEF RulesInv, PageInv, RulesTypeOK
<1> QED  BY <1>1, <1>3, <1>4 DEF RulesInv, PageInv, VisitsTold

LEMMA LoadsKeepRules ==
    ASSUME RulesInv, NEW l \in loads, ShowSkeleton(l) \/ ServeLoad(l) \/ AnswerLoad(l) \/ FailLoad(l)
    PROVE  RulesInv'
PROOF
<1>1. /\ UNCHANGED <<groups, listed, current, selected, refreshes, rules, page, saves, behind, acts, settings>>
      /\ doubts \subseteq doubts'
    BY DEF ShowSkeleton, ServeLoad, AnswerLoad, FailLoad, service, choice, lists, ruling, following, saving
<1>2. GroupsKnown'  BY <1>1, KnownKept DEF RulesInv, GroupsKnown
<1>3. acts' \in Nat /\ acts' >= acts  BY <1>1 DEF RulesInv, PageInv, RulesTypeOK
<1>4. page.group # None => settings'  BY <1>1 DEF RulesInv, PageInv, VisitsTold
<1>5. PageInv'  BY <1>1, <1>3, <1>4, PageKept DEF RulesInv
<1> QED  BY <1>2, <1>5 DEF RulesInv

LEMMA SelectKeepsRules ==
    ASSUME RulesInv, NEW g \in Groups, SelectGroup(g)
    PROVE  RulesInv'
PROOF
<1>1. /\ UNCHANGED <<groups, listed, selected, rules, page, saves, behind, settings, doubts>>
      /\ current' = g /\ refreshes' \subseteq refreshes /\ acts' = acts + 2
    BY DEF SelectGroup, HandleSelectGroup, Overtaken, Act, service, lists, ruling, following, saving
<1>2. GroupsKnown'  BY <1>1, KnownKept DEF RulesInv, GroupsKnown, NoGroupOr
<1>3. acts' \in Nat /\ acts' >= acts  BY <1>1 DEF RulesInv, PageInv, RulesTypeOK
<1>4. page.group # None => settings'  BY <1>1 DEF RulesInv, PageInv, VisitsTold
<1>5. PageInv'  BY <1>1, <1>3, <1>4, PageKept DEF RulesInv
<1> QED  BY <1>2, <1>5 DEF RulesInv

LEMMA AskedKeepsRules ==
    ASSUME RulesInv, NEW r \in refreshes, ServeList(r) \/ FailRefresh(r)
    PROVE  RulesInv'
PROOF
<1>1. /\ UNCHANGED <<groups, listed, current, selected, rules, page, saves, behind, acts, settings>>
      /\ doubts \subseteq doubts'
    BY DEF ServeList, FailRefresh, service, choice, lists, ruling, following, saving
<1>2. \A q \in refreshes' : ListAnswer(q)
  <2>1. CASE FailRefresh(r)  BY <2>1 DEF FailRefresh, RulesInv, GroupsKnown
  <2>2. CASE ServeList(r)
    <3>1. ListAnswer(r)  BY DEF RulesInv, GroupsKnown
    <3> DEFINE q == [r EXCEPT !.got = [groups |-> groups, rules |-> rules]]
    <3>2. q = [captured |-> r.captured, from |-> r.from, only |-> r.only,
               got |-> [groups |-> groups, rules |-> rules]]
      BY <3>1 DEF ListAnswer
    <3>3. ListAnswer(q)
      <4>1. q.got.groups = groups  BY <3>2
      <4>2. q = [captured |-> q.captured, from |-> q.from, only |-> q.only, got |-> q.got]  BY <3>2
      <4> QED  BY <4>1, <4>2 DEF ListAnswer, RulesInv, GroupsKnown
    <3> QED  BY <2>2, <3>3 DEF ServeList, RulesInv, GroupsKnown
  <2> QED  BY <2>1, <2>2
<1>3. GroupsKnown'  BY <1>1, <1>2, KnownKept DEF RulesInv, GroupsKnown
<1>4. acts' \in Nat /\ acts' >= acts  BY <1>1 DEF RulesInv, PageInv, RulesTypeOK
<1>5. page.group # None => settings'  BY <1>1 DEF RulesInv, PageInv, VisitsTold
<1>6. PageInv'  BY <1>1, <1>4, <1>5, PageKept DEF RulesInv
<1> QED  BY <1>3, <1>6 DEF RulesInv

LEMMA AnswerRefreshKeepsRules ==
    ASSUME RulesInv, NEW r \in refreshes, AnswerRefresh(r)
    PROVE  RulesInv'
PROOF
<1>1. ListAnswer(r)  BY DEF RulesInv, GroupsKnown
<1>2. r.got.groups \subseteq Groups /\ r.got # None  BY <1>1 DEF ListAnswer, AnswerRefresh, saving
<1>3. /\ UNCHANGED <<groups, rules, settings, saves, behind, acts>>
      /\ doubts \subseteq doubts' /\ refreshes' \subseteq refreshes
    BY DEF AnswerRefresh, service, saving
<1>4. acts' \in Nat /\ acts' >= acts  BY <1>3 DEF RulesInv, PageInv, RulesTypeOK
<1>5. CASE UNCHANGED <<lists, current, cache, following, panel, loads>>
  <2>1. UNCHANGED <<listed, current, selected, page>>  BY <1>5 DEF lists, following
  <2>2. GroupsKnown'  BY <1>3, <2>1, KnownKept DEF RulesInv, GroupsKnown
  <2>3. page.group # None => settings'  BY <1>3 DEF RulesInv, PageInv, VisitsTold
  <2>4. PageInv'  BY <1>3, <1>4, <2>1, <2>3, PageKept DEF RulesInv
  <2> QED  BY <2>2, <2>4 DEF RulesInv
<1>6. CASE /\ listed' = r.got.groups
           /\ IF r.got.groups = {} THEN NothingLeft ELSE Reload(r, Resolved(r))
           /\ Follows(current', listed', told')
  <2>1. r.got.groups # {} => Resolved(r) \in r.got.groups  BY DEF Resolved
  <2>2. current' \in NoGroupOr  BY <1>2, <1>6, <2>1 DEF NothingLeft, Reload, NoGroupOr
  <2>3. listed' \subseteq Groups  BY <1>2, <1>6
  <2>4. PICK c, k, v : c = current' /\ k = listed' /\ v = told'  OBVIOUS
  <2>5. Follows(c, k, v)  BY <1>6, <2>4 DEF Follows
  <2>6. /\ selected' \in NoGroupOr
        /\ page' \in {page, [page EXCEPT !.group = None]}
        /\ page'.group # None => settings'
    BY <1>3, <2>2, <2>3, <2>4, <2>5, FollowsKept
  <2>7. GroupsKnown'  BY <1>3, <2>2, <2>3, <2>6, KnownKept DEF RulesInv, GroupsKnown
  <2>8. PageInv'  BY <1>3, <1>4, <2>6, PageMoved DEF RulesInv
  <2> QED  BY <2>7, <2>8 DEF RulesInv
<1> QED  BY <1>5, <1>6 DEF AnswerRefresh, saving

LEMMA AnswerListKeepsRules ==
    ASSUME RulesInv, NEW r \in refreshes, AnswerList(r)
    PROVE  RulesInv'
PROOF
<1>1. ListAnswer(r)  BY DEF RulesInv, GroupsKnown
<1>2. /\ UNCHANGED <<groups, rules, settings, current, saves, behind, doubts, acts>>
      /\ listed' = IF r.got = None THEN listed ELSE r.got.groups
      /\ Follows(current, listed', told')
      /\ refreshes' \subseteq refreshes \cup Refresh(current, selected')
    BY DEF AnswerList, service, saving
<1>3. acts' \in Nat /\ acts' >= acts  BY <1>2 DEF RulesInv, PageInv, RulesTypeOK
<1>4. listed' \subseteq Groups  BY <1>1, <1>2 DEF ListAnswer, RulesInv, GroupsKnown
<1>5. PICK k, v, s : k = listed' /\ v = told' /\ s = selected'  OBVIOUS
<1>6. Follows(current, k, v)  BY <1>2, <1>5 DEF Follows
<1>7. /\ selected' \in NoGroupOr
      /\ page' \in {page, [page EXCEPT !.group = None]}
      /\ page'.group # None => settings'
    BY <1>2, <1>4, <1>5, <1>6, FollowsKept DEF RulesInv, GroupsKnown
<1>8. \A q \in refreshes' : ListAnswer(q)
  <2>1. \A q \in Refresh(current, s) : ListAnswer(q)  BY Refreshed DEF RulesInv
  <2>2. refreshes' \subseteq refreshes \cup Refresh(current, s)  BY <1>2, <1>5
  <2> QED  BY <2>1, <2>2 DEF RulesInv, GroupsKnown
<1>9. GroupsKnown'  BY <1>2, <1>4, <1>7, <1>8, KnownKept DEF RulesInv, GroupsKnown
<1>10. PageInv'  BY <1>2, <1>3, <1>7, PageMoved DEF RulesInv
<1> QED  BY <1>9, <1>10 DEF RulesInv

\* The timers and buttons that ask for the list of groups again, and changes of other computers.
LEMMA RefreshKeepsRules ==
    ASSUME RulesInv, DataChanged \/ Retry
    PROVE  RulesInv'
PROOF
<1>1. /\ UNCHANGED <<listed, current, selected, page, saves, settings, doubts>>
      /\ groups' \subseteq groups /\ acts' \in {acts + 1, acts + 2}
      /\ refreshes' = Refresh(current, selected)
    BY DEF DataChanged, Retry, Act, Move, service, choice, lists, ruling, following, saving
<1>2. \A q \in refreshes' : ListAnswer(q)  BY <1>1, Refreshed DEF RulesInv
<1>3. GroupsKnown'  BY <1>1, <1>2, KnownKept DEF RulesInv, GroupsKnown
<1>4. acts' \in Nat /\ acts' >= acts  BY <1>1 DEF RulesInv, PageInv, RulesTypeOK
<1>5. page.group # None => settings'  BY <1>1 DEF RulesInv, PageInv, VisitsTold
<1>6. CASE UNCHANGED <<rules, behind>>
  <2>1. PageInv'  BY <1>1, <1>4, <1>5, <1>6, PageKept DEF RulesInv
  <2> QED  BY <1>3, <2>1 DEF RulesInv
<1>7. ASSUME NEW g \in Groups, rules' = [rules EXCEPT ![g] = acts + 1], behind' = (behind \/ page.group = g)
      PROVE  RulesInv'
  <2>1. PageInv'  BY <1>1, <1>4, <1>5, <1>7, RulesImported DEF RulesInv
  <2> QED  BY <1>3, <2>1 DEF RulesInv
<1>8. \/ UNCHANGED <<rules, behind>>
      \/ \E g \in Groups : rules' = [rules EXCEPT ![g] = acts + 1] /\ behind' = (behind \/ page.group = g)
    BY DEF DataChanged, Retry, service, ruling, saving, RulesInv, GroupsKnown
<1> QED  BY <1>6, <1>7, <1>8

LEMMA SettingsKeepRules ==
    ASSUME RulesInv, OpenSettings \/ CloseSettings
    PROVE  RulesInv'
PROOF
<1>1. /\ UNCHANGED <<groups, listed, current, rules, saves, behind, doubts>>
      /\ acts' = acts + 1
    BY DEF OpenSettings, CloseSettings, Move, service, lists, saving
<1>2. selected' \in NoGroupOr
    BY Followed DEF OpenSettings, CloseSettings, RulesInv, GroupsKnown, saving
<1>3. refreshes' = refreshes \/ refreshes' = Refresh(current, selected)
    BY DEF OpenSettings, CloseSettings, asked, saving
<1>4. \A q \in refreshes' : ListAnswer(q)  BY <1>3, Refreshed DEF RulesInv, GroupsKnown
<1>5. GroupsKnown'  BY <1>1, <1>2, <1>4, KnownKept DEF RulesInv, GroupsKnown
<1>6. acts' \in Nat /\ acts' >= acts  BY <1>1 DEF RulesInv, PageInv, RulesTypeOK
<1>7. page' \in {page, [page EXCEPT !.group = None]}  BY DEF OpenSettings, CloseSettings, saving
<1>8. page'.group # None => settings'
  <2>1. CASE OpenSettings  BY <2>1 DEF OpenSettings, saving
  <2>2. CASE CloseSettings  BY <2>2 DEF CloseSettings, RulesInv, PageInv, RulesTypeOK
  <2> QED  BY <2>1, <2>2
<1>9. PageInv'  BY <1>1, <1>6, <1>7, <1>8, PageMoved DEF RulesInv
<1> QED  BY <1>5, <1>9 DEF RulesInv

LEMMA SelectInSettingsKeepsRules ==
    ASSUME RulesInv, NEW g \in Groups, SelectInSettings(g)
    PROVE  RulesInv'
PROOF
<1>1. /\ UNCHANGED <<groups, listed, rules, saves, behind, settings>>
      /\ acts' = acts + 2 /\ current' = g /\ refreshes' = Refresh(g, g)
      /\ Selects(g, told[g]) /\ doubts' = doubts \cup Aged(g, told[g])
    BY DEF SelectInSettings, SyncUpdatedGroup, Act, service, lists, saving
<1>2. selected' = g  BY <1>1 DEF Selects
<1>3. \A q \in refreshes' : ListAnswer(q)  BY <1>1, Refreshed DEF RulesInv
<1>4. GroupsKnown'  BY <1>1, <1>2, <1>3, KnownKept DEF RulesInv, GroupsKnown, NoGroupOr
<1>5. acts' \in Nat /\ acts' >= acts  BY <1>1 DEF RulesInv, PageInv, RulesTypeOK
<1>6. page.group # None => settings'  BY <1>1 DEF RulesInv, PageInv, VisitsTold
<1>7. PageInv'  BY <1>1, <1>5, <1>6, PageSelected DEF RulesInv
<1> QED  BY <1>4, <1>7 DEF RulesInv

\* Outside the settings no page is open that the new group could be shown on.
LEMMA CreateGroupKeepsRules ==
    ASSUME RulesInv, NEW g \in Groups, CreateGroup(g)
    PROVE  RulesInv'
PROOF
<1>1. /\ UNCHANGED <<rules, saves, behind, settings, doubts>>
      /\ acts' = acts + 2 /\ groups' = groups \cup {g}
    BY DEF CreateGroup, Act, saving
<1>2. acts' \in Nat /\ acts' >= acts  BY <1>1 DEF RulesInv, PageInv, RulesTypeOK
<1>3. page.group # None => settings'  BY <1>1 DEF RulesInv, PageInv, VisitsTold
<1>4. groups' \subseteq Groups  BY <1>1 DEF RulesInv, GroupsKnown
<1>5. CASE ~settings /\ listed' = listed \cup {g} /\ SyncUpdatedGroup(g)
  <2>1. current' = g /\ selected' = g /\ refreshes' = Refresh(g, g)
    BY <1>5 DEF SyncUpdatedGroup, Selects
  <2>2. \A q \in refreshes' : ListAnswer(q)  BY <2>1, Refreshed DEF RulesInv
  <2>3. GroupsKnown'  BY <1>4, <1>5, <2>1, <2>2, KnownKept DEF RulesInv, GroupsKnown, NoGroupOr
  <2>4. page.group = None  BY <1>5 DEF RulesInv, PageInv, VisitsTold
  <2>5. page' = page
    BY <1>5, <2>4, PanelAssumption DEF SyncUpdatedGroup, Selects, PageOf
  <2>6. PageInv'  BY <1>1, <1>2, <1>3, <2>5, PageKept DEF RulesInv
  <2> QED  BY <2>3, <2>6 DEF RulesInv
<1>6. CASE refreshes' = Refresh(current, selected) /\ UNCHANGED <<listed, current, following>>
  <2>1. UNCHANGED <<listed, current, selected, page>>  BY <1>6 DEF following
  <2>2. \A q \in refreshes' : ListAnswer(q)  BY <1>6, Refreshed DEF RulesInv
  <2>3. GroupsKnown'  BY <1>4, <2>1, <2>2, KnownKept DEF RulesInv, GroupsKnown
  <2>4. PageInv'  BY <1>1, <1>2, <1>3, <2>1, PageKept DEF RulesInv
  <2> QED  BY <2>3, <2>4 DEF RulesInv
<1> QED  BY <1>5, <1>6 DEF CreateGroup, saving

LEMMA DeleteGroupKeepsRules ==
    ASSUME RulesInv, NEW g \in Groups, DeleteGroup(g)
    PROVE  RulesInv'
PROOF
<1>1. /\ UNCHANGED <<listed, rules, saves, behind, settings, doubts>>
      /\ acts' = acts + 2 /\ groups' = groups \ {g} /\ current' = None
      /\ Follows(None, listed, told)
      /\ refreshes' = Overtaken \cup {ListRequest}
    BY DEF DeleteGroup, Act, lists, saving
<1>2. acts' \in Nat /\ acts' >= acts  BY <1>1 DEF RulesInv, PageInv, RulesTypeOK
<1>3. /\ selected' \in NoGroupOr
      /\ page' \in {page, [page EXCEPT !.group = None]}
      /\ page'.group # None => settings'
    BY <1>1, FollowsKept DEF RulesInv, GroupsKnown, NoGroupOr
<1>4. ListAnswer(ListRequest)  BY DEF ListAnswer, ListRequest
<1>5. \A q \in refreshes' : ListAnswer(q)  BY <1>1, <1>4 DEF RulesInv, GroupsKnown, Overtaken
<1>6. GroupsKnown'  BY <1>1, <1>3, <1>5, KnownKept DEF RulesInv, GroupsKnown, NoGroupOr
<1>7. PageInv'  BY <1>1, <1>2, <1>3, PageMoved DEF RulesInv
<1> QED  BY <1>6, <1>7 DEF RulesInv

\* A page that is opened is a visit no save is of; it shows what is confirmed,
\* and unless that is outdated, what the service has.
LEMMA OpenRulesKeepsRules ==
    ASSUME RulesInv, OpenRules
    PROVE  RulesInv'
PROOF
<1>1. /\ UNCHANGED <<groups, listed, current, selected, refreshes, rules, saves, settings>>
      /\ acts' = acts + 2 /\ settings /\ selected # None
      /\ page' = [group |-> selected, visit |-> acts + 1, rev |-> 0, shown |-> sheet, confirmed |-> sheet]
      /\ behind' = FALSE /\ doubts' = doubts \cup Aged(selected, sheet)
    BY DEF OpenRules, Act, service, choice, lists, asked, saving
<1>2. GroupsKnown'  BY <1>1, KnownKept DEF RulesInv, GroupsKnown
<1>3. /\ page'.group = selected /\ page'.visit = acts + 1 /\ page'.rev = 0
      /\ page'.shown = sheet /\ page'.confirmed = sheet
    BY <1>1
<1>4. acts \in Nat /\ \A s \in saves : s.visit \in Nat /\ s.visit <= acts
    BY DEF RulesInv, PageInv, RulesTypeOK, VisitsTold
<1>5. RulesTypeOK'
  <2>1. behind' \in BOOLEAN  BY <1>1, Zenon
  <2>2. acts' \in Nat /\ acts + 1 \in Nat  BY <1>1, <1>4
  <2>3. page' = [group |-> page'.group, visit |-> page'.visit, rev |-> page'.rev, shown |-> page'.shown,
                 confirmed |-> page'.confirmed]
    BY <1>1, <1>3
  <2>4. saves' \subseteq [group : Groups, visit : Nat, rev : Nat, value : Nat] /\ rules' = [g \in Groups |-> rules'[g]]
    BY <1>1 DEF RulesInv, PageInv, RulesTypeOK
  <2>5. page'.group \in NoGroupOr /\ page'.visit \in Nat /\ page'.rev \in Nat
    BY <1>1, <1>3, <2>2 DEF RulesInv, GroupsKnown
  <2> QED  BY <2>1, <2>2, <2>3, <2>4, <2>5 DEF RulesTypeOK
<1>6. VisitsTold'  BY <1>1, <1>3, <1>4 DEF RulesInv, PageInv, VisitsTold
<1>7. LastSettlesLast'  BY <1>1, <1>3, <1>4 DEF LastSettlesLast
<1>8. Sure' => sheet = rules[selected]  BY <1>1 DEF Sure, Aged
<1>9. ConfirmedIsSaved'  BY <1>1, <1>3, <1>8 DEF ConfirmedIsSaved
<1> QED  BY <1>2, <1>5, <1>6, <1>7, <1>9 DEF RulesInv, PageInv

LEMMA CloseRulesKeepsRules ==
    ASSUME RulesInv, CloseRules
    PROVE  RulesInv'
PROOF
<1>1. /\ UNCHANGED <<groups, listed, current, selected, refreshes, rules, saves, behind, doubts>>
      /\ acts' = acts + 1 /\ page' = [page EXCEPT !.group = None]
    BY DEF CloseRules, Move, service, choice, lists, asked, saving
<1>2. GroupsKnown'  BY <1>1, KnownKept DEF RulesInv, GroupsKnown
<1>3. acts' \in Nat /\ acts' >= acts  BY <1>1 DEF RulesInv, PageInv, RulesTypeOK
<1>4. page'.group = None  BY <1>1 DEF RulesInv, PageInv, RulesTypeOK
<1>5. PageInv'  BY <1>1, <1>3, <1>4, PageMoved DEF RulesInv
<1> QED  BY <1>2, <1>5 DEF RulesInv

\* A change is the page's next revision.
LEMMA SaveSettingsKeepsRules ==
    ASSUME RulesInv, SaveSettings
    PROVE  RulesInv'
PROOF
<1> DEFINE new == [group |-> page.group, visit |-> page.visit, rev |-> page.rev + 1, value |-> acts + 1]
<1>1. /\ UNCHANGED <<groups, listed, current, selected, refreshes, rules, behind, settings, doubts>>
      /\ acts' = acts + 1 /\ page.group # None
      /\ page' = [page EXCEPT !.rev = @ + 1, !.shown = acts + 1]
      /\ saves' = saves \cup {new}
    BY DEF SaveSettings, Move, service, choice, lists, asked
<1>2. GroupsKnown'  BY <1>1, KnownKept DEF RulesInv, GroupsKnown
<1>3. page' = [group |-> page.group, visit |-> page.visit, rev |-> page.rev + 1, shown |-> acts + 1,
               confirmed |-> page.confirmed]
    BY <1>1 DEF RulesInv, PageInv, RulesTypeOK
<1>4. /\ page'.group = page.group /\ page'.visit = page.visit /\ page'.rev = page.rev + 1
      /\ page'.shown = acts + 1 /\ page'.confirmed = page.confirmed
    BY <1>3
<1>5. /\ acts \in Nat /\ page.rev \in Nat /\ page.visit \in Nat /\ page.visit <= acts
      /\ \A s \in saves : /\ s.visit \in Nat /\ s.rev \in Nat /\ s.visit <= acts
                          /\ s.visit = page.visit => s.rev <= page.rev
    BY DEF RulesInv, PageInv, RulesTypeOK, VisitsTold
<1>6. new \in [group : Groups, visit : Nat, rev : Nat, value : Nat]
    BY <1>1, <1>5 DEF RulesInv, PageInv, RulesTypeOK, NoGroupOr
<1>7. RulesTypeOK'
  <2>1. saves' \subseteq [group : Groups, visit : Nat, rev : Nat, value : Nat]
    BY <1>1, <1>6 DEF RulesInv, PageInv, RulesTypeOK
  <2>2. page' = [group |-> page'.group, visit |-> page'.visit, rev |-> page'.rev, shown |-> page'.shown,
                 confirmed |-> page'.confirmed]
    BY <1>3, <1>4
  <2>3. page'.group \in NoGroupOr /\ page'.visit \in Nat /\ page'.rev \in Nat /\ acts' \in Nat
    BY <1>1, <1>4, <1>5 DEF RulesInv, PageInv, RulesTypeOK
  <2>4. rules' = [g \in Groups |-> rules'[g]]  BY <1>1 DEF RulesInv, PageInv, RulesTypeOK
  <2>5. behind' \in BOOLEAN  BY <1>1 DEF RulesInv, PageInv, RulesTypeOK
  <2> QED  BY <2>1, <2>2, <2>3, <2>4, <2>5 DEF RulesTypeOK
<1>8. new.group = page.group /\ new.visit = page.visit /\ new.rev = page.rev + 1  OBVIOUS
<1> HIDE DEF new
<1>9. VisitsTold'
  <2>1. \A s \in saves' : /\ s.visit <= acts'
                          /\ s.visit = page'.visit => s.rev <= page'.rev
                          /\ s.visit = page'.visit /\ page'.group # None => s.group = page'.group
    BY <1>1, <1>4, <1>5, <1>8 DEF RulesInv, PageInv, VisitsTold
  <2>2. \A s, t \in saves' : s.visit = t.visit /\ s.rev = t.rev => s = t
    <3>1. \A s \in saves : ~(s.visit = new.visit /\ s.rev = new.rev)  BY <1>5, <1>8
    <3> QED  BY <1>1, <3>1 DEF RulesInv, PageInv, VisitsTold
  <2> QED  BY <1>1, <1>4, <1>5, <2>1, <2>2 DEF RulesInv, PageInv, VisitsTold
<1>10. LastSettlesLast'  BY <1>1, <1>4, <1>8 DEF LastSettlesLast
<1>11. ConfirmedIsSaved'  BY <1>1, <1>4 DEF RulesInv, PageInv, ConfirmedIsSaved, Sure
<1> QED  BY <1>2, <1>7, <1>9, <1>10, <1>11 DEF RulesInv, PageInv

\* What a save does to the page: settled with a value, a mounted page has it
\* confirmed, and shows it if nothing was changed since.
LEMMA ShownPage ==
    ASSUME RulesTypeOK, NEW s \in saves, NEW value, Shown(s, value)
    PROVE  /\ page' = [group |-> page.group, visit |-> page.visit, rev |-> page.rev,
                       shown |-> IF Mounted(s) /\ page.rev = s.rev THEN value ELSE page.shown,
                       confirmed |-> IF Mounted(s) THEN value ELSE page.confirmed]
           /\ refreshes' = refreshes \/ refreshes' = Refresh(current, selected)
PROOF
<1>1. page = [group |-> page.group, visit |-> page.visit, rev |-> page.rev, shown |-> page.shown,
              confirmed |-> page.confirmed]
    BY DEF RulesTypeOK
<1>2. CASE Mounted(s) /\ page.rev = s.rev  BY <1>1, <1>2 DEF Shown
<1>3. CASE Mounted(s) /\ page.rev # s.rev  BY <1>1, <1>3 DEF Shown
<1>4. CASE ~Mounted(s)  BY <1>1, <1>4 DEF Shown
<1> QED  BY <1>2, <1>3, <1>4

\* A save settles in its turn.  One of an older page, or next to one, is crossed.
LEMMA SaveSettlesKeepsRules ==
    ASSUME RulesInv, NEW s \in saves, SaveSettles(s)
    PROVE  RulesInv'
PROOF
<1>1. /\ UNCHANGED <<groups, listed, current, selected, settings, acts>>
      /\ saves' = saves \ {s} /\ doubts \subseteq doubts'
      /\ \A t \in saves : t.visit = s.visit => t.rev >= s.rev
      /\ rules' = rules \/ rules' = [rules EXCEPT ![s.group] = s.value]
    BY DEF SaveSettles, ItsTurn, Written, choice, lists
<1>2. \E value :
        /\ Shown(s, value)
        /\ Sure' => doubts' = doubts \cup Crossed(s)
        /\ Sure' => \/ /\ rules' = [rules EXCEPT ![s.group] = s.value] /\ value = s.value
                       /\ behind' = (behind /\ ~Mounted(s))
                    \/ rules' = rules /\ value = page.confirmed /\ behind' = behind
    BY DEF SaveSettles, Written, Sure
<1>3. PICK value :
        /\ Shown(s, value)
        /\ Sure' => doubts' = doubts \cup Crossed(s)
        /\ Sure' => \/ /\ rules' = [rules EXCEPT ![s.group] = s.value] /\ value = s.value
                       /\ behind' = (behind /\ ~Mounted(s))
                    \/ rules' = rules /\ value = page.confirmed /\ behind' = behind
    BY <1>2
<1>4. /\ page' = [group |-> page.group, visit |-> page.visit, rev |-> page.rev,
                  shown |-> IF Mounted(s) /\ page.rev = s.rev THEN value ELSE page.shown,
                  confirmed |-> IF Mounted(s) THEN value ELSE page.confirmed]
      /\ refreshes' = refreshes \/ refreshes' = Refresh(current, selected)
    BY <1>3, ShownPage DEF RulesInv, PageInv
<1>5. /\ page'.group = page.group /\ page'.visit = page.visit /\ page'.rev = page.rev
      /\ page'.shown = IF Mounted(s) /\ page.rev = s.rev THEN value ELSE page.shown
      /\ page'.confirmed = IF Mounted(s) THEN value ELSE page.confirmed
    BY <1>4
<1>6. GroupsKnown'
  <2>1. \A q \in refreshes' : ListAnswer(q)  BY <1>4, Refreshed DEF RulesInv, GroupsKnown
  <2> QED  BY <1>1, <2>1, KnownKept DEF RulesInv, GroupsKnown
<1>7. RulesTypeOK'
  <2>0. behind' \in BOOLEAN
    <3>1. behind' = behind \/ behind' = (behind /\ ~Mounted(s))  BY DEF SaveSettles
    <3> QED  BY <3>1 DEF RulesInv, PageInv, RulesTypeOK
  <2>1. rules' = [g \in Groups |-> rules'[g]]
    BY <1>1 DEF RulesInv, PageInv, RulesTypeOK
  <2>2. page' = [group |-> page'.group, visit |-> page'.visit, rev |-> page'.rev, shown |-> page'.shown,
                 confirmed |-> page'.confirmed]
    BY <1>4, <1>5
  <2> QED  BY <1>1, <1>5, <2>0, <2>1, <2>2 DEF RulesInv, PageInv, RulesTypeOK
<1>8. VisitsTold'  BY <1>1, <1>5 DEF RulesInv, PageInv, VisitsTold
<1>9. page.rev \in Nat /\ \A t \in saves : t.rev \in Nat /\ t.group \in Groups
    BY DEF RulesInv, PageInv, RulesTypeOK
<1>10. LastSettlesLast'
  <2> SUFFICES ASSUME page.group # None
               PROVE  \/ \E t \in saves' : t.visit = page.visit /\ t.rev = page.rev
                      \/ (\A t \in saves' : t.visit # page.visit) /\ page'.shown = page'.confirmed
    BY <1>5 DEF LastSettlesLast
  <2>1. CASE s.visit # page.visit
    <3>1. ~Mounted(s)  BY <2>1 DEF Mounted
    <3> QED  BY <1>1, <1>5, <2>1, <3>1 DEF RulesInv, PageInv, LastSettlesLast
  <2>2. CASE s.visit = page.visit
    <3>1. Mounted(s)  BY <2>2 DEF Mounted, RulesInv, PageInv, VisitsTold
    <3>2. PICK t \in saves : t.visit = page.visit /\ t.rev = page.rev
      BY <2>2 DEF RulesInv, PageInv, LastSettlesLast
    <3>3. CASE t # s  BY <1>1, <3>2, <3>3
    <3>4. CASE t = s
      <4>1. \A u \in saves : u.visit = page.visit => u.rev = page.rev
        BY <1>1, <1>9, <2>2, <3>2, <3>4 DEF RulesInv, PageInv, VisitsTold
      <4>2. \A u \in saves' : u.visit # page.visit
        BY <1>1, <2>2, <3>2, <3>4, <4>1 DEF RulesInv, PageInv, VisitsTold
      <4> QED  BY <1>5, <3>1, <3>2, <3>4, <4>2
    <3> QED  BY <3>3, <3>4
  <2> QED  BY <2>1, <2>2
<1>11. ConfirmedIsSaved'
  <2> SUFFICES ASSUME page.group # None, Sure', ~behind'
               PROVE  page'.confirmed = rules'[page.group]
    BY <1>5 DEF ConfirmedIsSaved
  <2>1. Sure  BY <1>1 DEF Sure
  <2>2. ~behind => page.confirmed = rules[page.group]  BY <2>1 DEF RulesInv, PageInv, ConfirmedIsSaved
  <2>3. Crossed(s) = {}  BY <1>3 DEF Sure, Crossed
  <2>4. ~(page.group = s.group /\ page.visit # s.visit)  BY <2>3 DEF Crossed
  <2>5. page.group \in Groups  BY DEF RulesInv, PageInv, RulesTypeOK, NoGroupOr
  <2>6. CASE rules' = rules /\ value = page.confirmed /\ behind' = behind  BY <1>5, <2>2, <2>6
  <2>7. CASE /\ rules' = [rules EXCEPT ![s.group] = s.value] /\ value = s.value
             /\ behind' = (behind /\ ~Mounted(s))
    <3>1. CASE page.group = s.group
      <4>1. Mounted(s)  BY <2>4, <3>1 DEF Mounted
      <4>2. rules'[s.group] = s.value  BY <1>9, <2>7 DEF RulesInv, PageInv, RulesTypeOK
      <4> QED  BY <1>5, <2>7, <3>1, <4>1, <4>2
    <3>2. CASE page.group # s.group
      <4>1. ~Mounted(s)  BY <3>2 DEF Mounted
      <4>2. rules'[page.group] = rules[page.group]
        BY <2>5, <2>7, <3>2 DEF RulesInv, PageInv, RulesTypeOK
      <4>3. ~behind  BY <2>7, <4>1
      <4> QED  BY <1>5, <2>2, <4>1, <4>2, <4>3
    <3> QED  BY <3>1, <3>2
  <2> QED  BY <1>3, <2>6, <2>7
<1> QED  BY <1>6, <1>7, <1>8, <1>10, <1>11 DEF RulesInv, PageInv

(***************************************************************************)
(* The form and what covers the list of members change nothing of this,    *)
(* but for asking the list of groups again.                                *)
(***************************************************************************)
Aside ==
    /\ UNCHANGED elsewhere
    /\ acts' = acts \/ acts' = acts + 1 \/ acts' = acts + 2
    /\ doubts \subseteq doubts'
    /\ refreshes' = refreshes \/ refreshes' = Refresh(current, selected)

LEMMA AsideKeepsRules ==
    ASSUME RulesInv, Aside
    PROVE  RulesInv'
PROOF
<1>1. acts' \in Nat /\ acts' >= acts  BY DEF Aside, RulesInv, PageInv, RulesTypeOK
<1> QED  BY <1>1, ElsewhereKept DEF Aside

LEMMA FormIsAside ==
    ASSUME EnrollNext
    PROVE  Aside
PROOF
<1> USE DEF Act, Move
<1>1. CASE \E rows \in 0 .. MaxRows : OpenForm(rows)  BY <1>1, Zenon DEF OpenForm, Aside
<1>2. CASE CloseForm \/ SwitchMode  BY <1>2, Zenon DEF CloseForm, SwitchMode, Aside
<1>3. CASE CorrectName \/ OpenSection \/ SkipFace \/ RetakePhoto
    BY <1>3 DEF CorrectName, OpenSection, SkipFace, RetakePhoto, Untouched, Aside
<1>4. CASE \E uploaded \in BOOLEAN : Photograph(uploaded)  BY <1>4, Zenon DEF Photograph, Untouched, Aside
<1>5. CASE \E c \in checks : AnswerCheck(c)  BY <1>5, Zenon DEF AnswerCheck, Untouched, Aside
<1>6. CASE Submit
  <2>1. UNCHANGED <<elsewhere, doubts>> /\ acts' = acts + 1  BY <1>6 DEF Submit
  <2>2. refreshes' = refreshes \/ refreshes' = Refresh(current, selected)  BY <1>6 DEF Submit, CloseSaved
  <2> QED  BY <2>1, <2>2 DEF Aside
<1>7. CASE SubmitRows
  <2>1. UNCHANGED <<elsewhere, doubts>> /\ acts' = acts + 1  BY <1>7 DEF SubmitRows
  <2>2. refreshes' = refreshes \/ refreshes' = Refresh(current, selected)  BY <1>7 DEF SubmitRows, CloseSaved
  <2> QED  BY <2>1, <2>2 DEF Aside
<1>8. CASE ReimportFile  BY <1>8 DEF ReimportFile, Aside
<1>9. CASE \E row \in bulk.text : EditRow(row)  BY <1>9 DEF EditRow, Aside
<1>10. CASE \E a \in adds : ServeAdd(a) \/ ServeFace(a)  BY <1>10 DEF ServeAdd, ServeFace, Aside
<1>11. CASE \E a \in adds : AnswerAdd(a)
  <2>1. UNCHANGED <<elsewhere, acts>> /\ doubts \subseteq doubts'  BY <1>11 DEF AnswerAdd
  <2>2. refreshes' = refreshes \/ refreshes' = Refresh(current, selected)  BY <1>11 DEF AnswerAdd, MemberAdded
  <2> QED  BY <2>1, <2>2 DEF Aside
<1>12. CASE \E a \in adds : AnswerFace(a)
  <2>1. UNCHANGED <<elsewhere, acts>> /\ doubts \subseteq doubts'  BY <1>12 DEF AnswerFace
  <2>2. refreshes' = refreshes \/ refreshes' = Refresh(current, selected)  BY <1>12 DEF AnswerFace, CloseSaved
  <2> QED  BY <2>1, <2>2 DEF Aside
<1>13. CASE \E a \in adds : AnswerRows(a)
  <2>1. UNCHANGED <<elsewhere, acts>> /\ doubts \subseteq doubts'  BY <1>13 DEF AnswerRows
  <2>2. refreshes' = refreshes \/ refreshes' = Refresh(current, selected)  BY <1>13 DEF AnswerRows, RefreshWhen
  <2> QED  BY <2>1, <2>2 DEF Aside
<1> QED
    BY <1>1, <1>2, <1>3, <1>4, <1>5, <1>6, <1>7, <1>8, <1>9, <1>10, <1>11, <1>12, <1>13 DEF EnrollNext

LEMMA CoversAreAside ==
    ASSUME CoverNext
    PROVE  Aside
PROOF
<1> USE DEF Act, Move, Covering, Quietly, RefreshMembers
<1>1. CASE \E s \in SUBSET ShownMembers : OpenQueue(s) \/ OpenPhotos(s) \/ RemoveMembers(s)
    BY <1>1, Zenon DEF OpenQueue, OpenPhotos, RemoveMembers, Aside
<1>2. CASE CloseQueue \/ CaptureFromQueue \/ MoveQueue \/ RetryInQueue \/ SkipInQueue \/ ShowCompletion
    BY <1>2, Zenon DEF CloseQueue, CaptureFromQueue, MoveQueue, RetryInQueue, SkipInQueue, ShowCompletion, Aside
<1>3. CASE \E i \in queue.jumps : JumpToNext(i)  BY <1>3, Zenon DEF JumpToNext, Aside
<1>4. CASE \E m \in ShownMembers : JumpToEnrollment(m)  BY <1>4, Zenon DEF JumpToEnrollment, Aside
<1>5. CASE CloseCapture \/ CaptureFrame \/ RetakeFrame \/ HandleEnroll
    BY <1>5, Zenon DEF CloseCapture, CaptureFrame, RetakeFrame, HandleEnroll, Aside
<1>6. CASE ClosePhotos \/ ClearFiles \/ HandleBulkEnroll
    BY <1>6, Zenon DEF ClosePhotos, ClearFiles, HandleBulkEnroll, Aside
<1>7. CASE (\E p \in people : PickFile(p.intent)) \/ PickFile(fresh + 1)  BY <1>7, Zenon DEF PickFile, Aside
<1>8. CASE \E f \in photos.found : EditFace(f)  BY <1>8, Zenon DEF EditFace, Aside
<1>9. CASE \E q \in shots, found \in BOOLEAN : CaptureChecked(q, found) \/ FrameChecked(q, found)
    BY <1>9, Zenon DEF CaptureChecked, FrameChecked, Aside
<1>10. CASE \E q \in shots, found \in BOOLEAN : FacesDetected(q, found)
    BY <1>10 DEF FacesDetected, Aside
<1>11. CASE \E q \in shots : ServeShot(q) \/ QueueEnrolled(q)
    BY <1>11, Zenon DEF ServeShot, QueueEnrolled, Aside
<1>12. CASE \E q \in shots : FrameEnrolled(q)  BY <1>12, Zenon DEF FrameEnrolled, Aside
<1>13. CASE \E q \in shots : PrepareFaces(q) \/ ServePhotos(q)
    BY <1>13, Zenon DEF PrepareFaces, ServePhotos, Aside
<1>14. CASE \E q \in shots : PhotosEnrolled(q)  BY <1>14 DEF PhotosEnrolled, Aside
<1>15. CASE \E q \in shots : q.kind = "photos" /\ \E f \in q.faces : CreateForFace(q, f)
    BY <1>15 DEF CreateForFace, Aside
<1>16. CASE \E d \in removals : ServeRemoval(d) \/ RemovalAnswered(d)
    BY <1>16 DEF ServeRemoval, RemovalAnswered, Aside
<1>17. CASE \E f \in faces : ResetFace(f)  BY <1>17, Zenon DEF ResetFace, Aside
<1> QED
    BY <1>1, <1>2, <1>3, <1>4, <1>5, <1>6, <1>7, <1>8, <1>9, <1>10, <1>11, <1>12, <1>13, <1>14, <1>15,
       <1>16, <1>17 DEF CoverNext

LEMMA RulesStart == Init => RulesInv
PROOF
<1> SUFFICES ASSUME Init PROVE RulesInv  OBVIOUS
<1> USE DEF Init, PanelInit
<1>1. GroupsKnown  BY DEF GroupsKnown, NoGroupOr
<1>2. page = NoPage \/ (selected # None /\ settings /\ page = [NoPage EXCEPT !.group = selected])  OBVIOUS
<1>3. /\ page = [group |-> page.group, visit |-> 0, rev |-> 0, shown |-> 0, confirmed |-> 0]
      /\ page.group \in {None, selected} /\ (page.group # None => settings)
  <2>1. CASE page = NoPage  BY <2>1 DEF NoPage
  <2>2. CASE selected # None /\ settings /\ page = [NoPage EXCEPT !.group = selected]  BY <2>2 DEF NoPage
  <2> QED  BY <1>2, <2>1, <2>2
<1>4. page.visit = 0 /\ page.rev = 0 /\ page.shown = 0 /\ page.confirmed = 0  BY <1>3
<1>5. rules = [g \in Groups |-> 0] /\ saves = {} /\ acts = 0  OBVIOUS
<1>6. RulesTypeOK
  <2>1. behind \in BOOLEAN  BY Zenon
  <2> QED  BY <1>1, <1>3, <1>4, <1>5, <2>1 DEF RulesTypeOK, GroupsKnown, NoGroupOr
<1>7. VisitsTold /\ LastSettlesLast  BY <1>3, <1>4, <1>5 DEF VisitsTold, LastSettlesLast
<1>8. ConfirmedIsSaved  BY <1>4, <1>5, <1>6 DEF ConfirmedIsSaved, RulesTypeOK, NoGroupOr
<1> QED  BY <1>1, <1>6, <1>7, <1>8 DEF RulesInv, PageInv

LEMMA RulesStep == RulesInv /\ [Next]_desktopVars => RulesInv'
PROOF
<1> SUFFICES ASSUME RulesInv, [Next]_desktopVars PROVE RulesInv'  OBVIOUS
<1>1. CASE PanelNext
  <2>1. CASE \E l \in loads : ShowSkeleton(l) \/ ServeLoad(l) \/ AnswerLoad(l) \/ FailLoad(l)
      BY <2>1, LoadsKeepRules
  <2>2. CASE \E r \in refreshes : ServeList(r) \/ AnswerRefresh(r) \/ FailRefresh(r) \/ AnswerList(r)
      BY <2>2, AskedKeepsRules, AnswerRefreshKeepsRules, AnswerListKeepsRules
  <2>3. CASE DataChanged  BY <2>3, RefreshKeepsRules
  <2>4. CASE CloseRules  BY <2>4, CloseRulesKeepsRules
  <2>5. CASE SaveSettings  BY <2>5, SaveSettingsKeepsRules
  <2>6. CASE \E s \in saves : SaveSettles(s)  BY <2>6, SaveSettlesKeepsRules
  <2> QED  BY <1>1, <2>1, <2>2, <2>3, <2>4, <2>5, <2>6 DEF PanelNext
<1>2. CASE PanelUse
  <2>1. CASE \E g \in Groups : SelectGroup(g) \/ SelectInSettings(g) \/ CreateGroup(g) \/ DeleteGroup(g)
      BY <2>1, SelectKeepsRules, SelectInSettingsKeepsRules, CreateGroupKeepsRules, DeleteGroupKeepsRules
  <2>2. CASE Retry  BY <2>2, RefreshKeepsRules
  <2>3. CASE OpenSettings \/ CloseSettings  BY <2>3, SettingsKeepRules
  <2>4. CASE OpenRules  BY <2>4, OpenRulesKeepsRules
  <2> QED  BY <1>2, <2>1, <2>2, <2>3, <2>4 DEF PanelUse
<1>3. CASE EnrollNext \/ CoverNext  BY <1>3, FormIsAside, CoversAreAside, AsideKeepsRules
<1>4. CASE UNCHANGED desktopVars
  <2>1. /\ UNCHANGED <<groups, listed, current, selected, refreshes, rules, page, saves, behind, settings, acts, doubts>>
    BY <1>4 DEF desktopVars, panelVars, service, choice, lists, asked, ruling, following, saving
  <2>2. Aside
    BY <1>4 DEF Aside, elsewhere, desktopVars, panelVars, service, choice, lists, asked, ruling, following, saving
  <2> QED  BY <2>2, AsideKeepsRules
<1> QED  BY <1>1, <1>2, <1>3, <1>4 DEF Next

LEMMA RulesAlways == Spec => []RulesInv
PROOF BY RulesStart, RulesStep, PTL DEF Spec

(***************************************************************************)
(* What the panel shows.  While nothing excuses it, either a refresh is    *)
(* on its way, or a request whose answer asks for one, or the panel is     *)
(* right: a load of its group is waiting, or nothing is under way and it   *)
(* shows the service's members or says that it failed; and what a load has *)
(* got for it is what the service has.                                     *)
(***************************************************************************)
Fields(r, names) == names \subseteq DOMAIN r

PanelFields == {"shown", "loading", "refreshing", "pending", "error"}

\* No more than one refresh counts, and it is the panel's.
PanelKnown ==
    /\ Fields(panel, PanelFields)
    /\ \A l \in loads : Fields(l, {"group", "latest", "delay", "got"}) /\ l.group \in Groups
    /\ \A r, s \in refreshes : ~r.only /\ ~s.only => r = s /\ r.from = current

AddKnown(a) ==
    /\ Fields(a, {"kind", "latest", "created", "got", "rows"})
    /\ a.kind \in {"member", "face", "rows"}
    /\ a.kind = "member" => a.created

\* Of the photos' faces one has a member, when members were created for them.
ShotKnown(q) ==
    /\ "kind" \in DOMAIN q
    /\ q.kind = "photos" =>
        /\ Fields(q, {"created", "faces", "at"})
        /\ \A f \in q.faces : "member" \in DOMAIN f
        /\ q.created # {} => \E f \in q.faces : f.member # None

PhotosKnown == "found" \in DOMAIN photos /\ \A f \in photos.found : "member" \in DOMAIN f

DialogsKnown ==
    /\ \A a \in adds : AddKnown(a)
    /\ \A q \in shots : ShotKnown(q)
    /\ PhotosKnown
    /\ fresh \in Nat

Refreshing == \E r \in refreshes : ~r.only

\* The answer to it asks for a refresh, or nobody learns of what was saved.
AddOwes(a) ==
    \/ a.kind = "member" /\ Succeeded(a)
    \/ a.kind = "face" /\ a.created
    \/ a.kind = "rows" /\ (a.created \/ (~Awaited(a) /\ a.got.ids # {}))

PhotosOwe(q) == q.kind = "photos" /\ q.created # {}

Owed == (\E a \in adds : AddOwes(a)) \/ removals # {} \/ \E q \in shots : PhotosOwe(q)

Excused == doubts \cap {"dropped", "unseen", "lapsed", "undone"} # {}

Quiet(p) == ~p.loading /\ ~p.refreshing /\ ~p.pending
Shows(p, g) == ~p.error => p.shown = IF g = None THEN {} ELSE MembersOf(g)

Loading == \E l \in loads : IsCurrentRequest(l)
LoadedRight == \A l \in loads : IsCurrentRequest(l) /\ l.got # None => l.got = MembersOf(current)
Right == LoadedRight /\ (Loading \/ (Quiet(panel) /\ Shows(panel, current)))

Due == Excused \/ Refreshing \/ Right

PanelInv == PanelKnown /\ DialogsKnown /\ (Due \/ Owed)

\* A step of a dialog: it asks for a refresh, owes one or is excused, or leaves the members as they are.
Unmoved ==
    /\ panel'.shown = panel.shown /\ panel'.loading = panel.loading /\ panel'.refreshing = panel.refreshing
    /\ panel'.pending = panel.pending /\ panel'.error = panel.error

Carried ==
    /\ DialogsKnown' /\ Fields(panel', PanelFields)
    /\ Excused' \/ Refreshing' \/ Owed' \/ (~Owed /\ UNCHANGED people /\ Unmoved)

LEMMA AsksAnew ==
    ASSUME NEW cur, NEW sel
    PROVE  /\ \E r \in Refresh(cur, sel) : ~r.only
           /\ \A r, s \in Refresh(cur, sel) : ~r.only /\ ~s.only => r = s /\ r.from = cur
PROOF
<1> DEFINE new == [captured |-> IF cur # None THEN cur ELSE sel, from |-> cur, only |-> FALSE, got |-> None]
<1>1. ~new.only /\ new.from = cur  BY Zenon
<1>2. \A r \in Overtaken : r.only  BY DEF Overtaken
<1> HIDE DEF new
<1>3. Refresh(cur, sel) = Overtaken \cup {new}  BY DEF Refresh, new
<1> QED  BY <1>1, <1>2, <1>3, Zenon

\* When the panel asks for a refresh nothing else matters.
LEMMA RefreshIsDue ==
    ASSUME PanelKnown, NEW sel, refreshes' = Refresh(current', sel), loads' = loads, Fields(panel', PanelFields)
    PROVE  PanelKnown' /\ Due'
PROOF
<1>1. PICK c : c = current'  OBVIOUS
<1>2. refreshes' = Refresh(c, sel)  BY <1>1
<1>3. /\ \E r \in refreshes' : ~r.only
      /\ \A r, s \in refreshes' : ~r.only /\ ~s.only => r = s /\ r.from = c
    BY <1>2, AsksAnew
<1>4. PanelKnown'  BY <1>1, <1>3 DEF PanelKnown, Fields
<1> QED  BY <1>3, <1>4 DEF Due, Refreshing

LEMMA PanelRecords ==
    /\ Fields(EmptyPanel, PanelFields)
    /\ Quiet(EmptyPanel) /\ ~EmptyPanel.error /\ EmptyPanel.shown = {}
    /\ \A g : Fields([EmptyPanel EXCEPT !.loading = g], PanelFields)
PROOF
<1>1. Quiet(EmptyPanel) /\ ~EmptyPanel.error  BY Zenon DEF EmptyPanel, Quiet
<1> QED  BY <1>1 DEF EmptyPanel, Fields, PanelFields

LEMMA PanelEdited ==
    ASSUME NEW p, Fields(p, PanelFields), NEW x
    PROVE  /\ Fields([p EXCEPT !.refreshing = x], PanelFields)
           /\ Fields([p EXCEPT !.shown = x], PanelFields)
           /\ Fields([p EXCEPT !.error = x], PanelFields)
           /\ Fields(Failed(p), PanelFields)
PROOF BY DEF Fields, PanelFields, Failed, EmptyPanel

LEMMA PanelMoved ==
    ASSUME NEW p, Fields(p, PanelFields), NEW g
    PROVE  Fields(WithGroup(p, g), PanelFields)
PROOF BY DEF Fields, PanelFields, WithGroup, EmptyPanel

LEMMA PanelBegun ==
    ASSUME NEW p, NEW mode
    PROVE  Fields(Begun(p, mode), PanelFields)
PROOF BY DEF Fields, PanelFields, Begun, EmptyPanel

\* A new request for a group is the only one that counts.
LEMMA Asked ==
    ASSUME PanelKnown, NEW g \in Groups, NEW mode, loads' = Request(g, mode), current' = g
    PROVE  /\ \A l \in loads' : Fields(l, {"group", "latest", "delay", "got"}) /\ l.group \in Groups
           /\ Right'
PROOF
<1> DEFINE old == {[l EXCEPT !.latest = FALSE] : l \in loads}
           new == [group |-> g, latest |-> TRUE, delay |-> mode = "delay", got |-> None]
<1>1. \A l \in old : Fields(l, {"group", "latest", "delay", "got"}) /\ l.group \in Groups
    BY DEF PanelKnown, Fields
<1>2. \A l \in old : ~l.latest
  <2> SUFFICES ASSUME NEW l \in loads PROVE ~[l EXCEPT !.latest = FALSE].latest  OBVIOUS
  <2> QED  BY Zenon DEF PanelKnown, Fields
<1>3. new.latest  BY Zenon
<1>4. Fields(new, {"group", "latest", "delay", "got"}) /\ new.group = g /\ new.got = None  BY DEF Fields
<1> HIDE DEF old, new
<1>5. loads' = old \cup {new}  BY DEF Request, old, new
<1>6. Loading'
  <2>1. IsCurrentRequest(new)'  BY <1>3, <1>4 DEF IsCurrentRequest
  <2> QED  BY <1>5, <2>1 DEF Loading
<1>7. LoadedRight'
  <2> SUFFICES ASSUME NEW l \in loads', l.latest, l.got # None PROVE FALSE  BY DEF LoadedRight, IsCurrentRequest
  <2> QED  BY <1>2, <1>4, <1>5
<1> QED  BY <1>1, <1>4, <1>5, <1>6, <1>7 DEF Right

\* A load changes nothing that others ask for.
LEMMA LoadSettles ==
    ASSUME GroupsKnown, PanelKnown, NEW l \in loads,
           ShowSkeleton(l) \/ ServeLoad(l) \/ AnswerLoad(l) \/ FailLoad(l)
    PROVE  PanelKnown' /\ (Due => Due')
PROOF
<1>1. UNCHANGED <<current, refreshes, doubts, people>>
    BY DEF ShowSkeleton, ServeLoad, AnswerLoad, FailLoad, service, choice
<1>2. Fields(l, {"group", "latest", "delay", "got"}) /\ l.group \in Groups  BY DEF PanelKnown
<1>3. Fields(panel', PanelFields)
    BY PanelRecords, PanelEdited DEF PanelKnown, ShowSkeleton, ServeLoad, AnswerLoad, FailLoad, Fields,
       PanelFields, EmptyPanel
<1>4. \A g : MembersOf(g)' = MembersOf(g)  BY <1>1 DEF MembersOf
<1>5. \A k \in loads' : Fields(k, {"group", "latest", "delay", "got"}) /\ k.group \in Groups
    BY <1>2 DEF PanelKnown, ShowSkeleton, ServeLoad, AnswerLoad, FailLoad, Fields
<1>6. PanelKnown'  BY <1>1, <1>3, <1>5 DEF PanelKnown
<1>7. Excused \/ Refreshing => Due'  BY <1>1 DEF Excused, Refreshing, Due
<1>8. ASSUME Right PROVE Right'
  <2>1. CASE ShowSkeleton(l)
    <3> DEFINE k == [l EXCEPT !.delay = FALSE]
    <3>1. k.group = l.group /\ k.latest = l.latest /\ k.got = l.got  BY <1>2 DEF Fields
    <3>2. loads' = (loads \ {l}) \cup {k}  BY <2>1 DEF ShowSkeleton
    <3> HIDE DEF k
    <3>3. IsCurrentRequest(k)' <=> IsCurrentRequest(l)  BY <1>1, <3>1 DEF IsCurrentRequest
    <3>4. \A i \in loads : IsCurrentRequest(i)' <=> IsCurrentRequest(i)  BY <1>1 DEF IsCurrentRequest
    <3>5. LoadedRight'  BY <1>1, <1>4, <1>8, <3>1, <3>2, <3>3, <3>4 DEF Right, LoadedRight
    <3>6. Loading => Loading'  BY <3>2, <3>3, <3>4 DEF Loading
    <3>7. ~Loading => panel' = panel  BY <2>1 DEF ShowSkeleton, Loading
    <3> QED  BY <1>1, <1>4, <1>8, <3>5, <3>6, <3>7 DEF Right, Quiet, Shows
  <2>2. CASE ServeLoad(l)
    <3>0. PICK k : k = [l EXCEPT !.got = MembersOf(l.group)]  OBVIOUS
    <3>1. k.group = l.group /\ k.latest = l.latest /\ k.got = MembersOf(l.group)  BY <1>2, <3>0 DEF Fields
    <3>2. loads' = (loads \ {l}) \cup {k} /\ panel' = panel  BY <2>2, <3>0 DEF ServeLoad
    <3>3. IsCurrentRequest(k)' <=> IsCurrentRequest(l)  BY <1>1, <3>1 DEF IsCurrentRequest
    <3>4. \A i \in loads : IsCurrentRequest(i)' <=> IsCurrentRequest(i)  BY <1>1 DEF IsCurrentRequest
    <3>5. IsCurrentRequest(l) => k.got = MembersOf(current)  BY <3>1 DEF IsCurrentRequest
    <3>6. LoadedRight'  BY <1>1, <1>4, <1>8, <3>2, <3>3, <3>4, <3>5 DEF Right, LoadedRight
    <3>7. Loading => Loading'  BY <3>2, <3>3, <3>4 DEF Loading
    <3> QED  BY <1>1, <1>4, <1>8, <3>2, <3>6, <3>7 DEF Right, Quiet, Shows
  <2>3. CASE AnswerLoad(l)
    <3>1. loads' = loads \ {l} /\ l.got # None  BY <2>3 DEF AnswerLoad
    <3>2. \A i \in loads : IsCurrentRequest(i)' <=> IsCurrentRequest(i)  BY <1>1 DEF IsCurrentRequest
    <3>3. LoadedRight'  BY <1>1, <1>4, <1>8, <3>1, <3>2 DEF Right, LoadedRight
    <3>4. CASE ~IsCurrentRequest(l)
      <4>1. panel' = panel  BY <2>3, <3>4 DEF AnswerLoad
      <4>2. Loading => Loading'  BY <3>1, <3>2, <3>4 DEF Loading
      <4> QED  BY <1>1, <1>4, <1>8, <3>3, <4>1, <4>2 DEF Right, Quiet, Shows
    <3>5. CASE IsCurrentRequest(l)
      <4>1. l.got = MembersOf(current)  BY <1>8, <3>1, <3>5 DEF Right, LoadedRight
      <4>2. current # None  BY <1>2, <3>5, PanelAssumption DEF IsCurrentRequest
      <4>3. panel' = [EmptyPanel EXCEPT !.shown = l.got]  BY <2>3, <3>5 DEF AnswerLoad
      <4>4. panel'.shown = l.got  BY <4>3 DEF EmptyPanel
      <4>5. Quiet(panel')  BY <4>3, Zenon DEF EmptyPanel, Quiet
      <4>6. Quiet(panel)'  BY <4>5 DEF Quiet
      <4>7. Shows(panel, current)'  BY <1>1, <1>4, <4>1, <4>2, <4>4 DEF Shows
      <4> QED  BY <3>3, <4>6, <4>7 DEF Right
    <3> QED  BY <3>4, <3>5
  <2>4. CASE FailLoad(l)
    <3>1. loads' = loads \ {l}  BY <2>4 DEF FailLoad
    <3>2. \A i \in loads : IsCurrentRequest(i)' <=> IsCurrentRequest(i)  BY <1>1 DEF IsCurrentRequest
    <3>3. LoadedRight'  BY <1>1, <1>4, <1>8, <3>1, <3>2 DEF Right, LoadedRight
    <3>4. CASE ~IsCurrentRequest(l)
      <4>1. panel' = panel  BY <2>4, <3>4 DEF FailLoad
      <4>2. Loading => Loading'  BY <3>1, <3>2, <3>4 DEF Loading
      <4> QED  BY <1>1, <1>4, <1>8, <3>3, <4>1, <4>2 DEF Right, Quiet, Shows
    <3>5. CASE IsCurrentRequest(l)
      <4>1. panel' = Failed(panel)  BY <2>4, <3>5 DEF FailLoad
      <4>2. Quiet(panel') /\ panel'.error  BY <4>1, Zenon DEF EmptyPanel, Quiet, Failed
      <4>3. Quiet(panel)' /\ Shows(panel, current)'  BY <4>2 DEF Quiet, Shows
      <4> QED  BY <3>3, <4>3 DEF Right
    <3> QED  BY <3>4, <3>5
  <2> QED  BY <2>1, <2>2, <2>3, <2>4
<1> QED  BY <1>6, <1>7, <1>8 DEF Due

LEMMA SelectSettles ==
    ASSUME PanelKnown, NEW g \in Groups, SelectGroup(g)
    PROVE  PanelKnown' /\ Due'
PROOF
<1>1. PICK mode, shown :
          current' = g /\ panel' = Begun(shown, mode) /\ loads' = Request(g, mode) /\ refreshes' = Overtaken
    BY DEF SelectGroup, HandleSelectGroup
<1>2. Fields(panel', PanelFields)  BY <1>1, PanelBegun
<1>3. \A r \in refreshes' : r.only  BY <1>1 DEF Overtaken
<1>4. /\ \A l \in loads' : Fields(l, {"group", "latest", "delay", "got"}) /\ l.group \in Groups
      /\ Right'
    BY <1>1, Asked
<1>5. PanelKnown'  BY <1>2, <1>3, <1>4 DEF PanelKnown
<1> QED  BY <1>4, <1>5 DEF Due

\* While the list is on its way nothing changes.
LEMMA ServeListSettles ==
    ASSUME GroupsKnown, PanelKnown, NEW r \in refreshes, ServeList(r)
    PROVE  PanelKnown' /\ (Due => Due')
PROOF
<1> DEFINE q == [r EXCEPT !.got = [groups |-> groups, rules |-> rules]]
<1>1. UNCHANGED <<current, panel, loads, doubts, people>>  BY DEF ServeList, service, choice
<1>2. q.only = r.only /\ q.from = r.from
  <2>1. r = [captured |-> r.captured, from |-> r.from, only |-> r.only, got |-> r.got]
      BY DEF GroupsKnown, ListAnswer
  <2>2. {"only", "from"} \subseteq DOMAIN r  BY <2>1
  <2> QED  BY <2>2
<1>3. refreshes' = (refreshes \ {r}) \cup {q}  BY DEF ServeList
<1> HIDE DEF q
<1>4. PanelKnown'  BY <1>1, <1>2, <1>3 DEF PanelKnown
<1>5. Refreshing => Refreshing'  BY <1>2, <1>3 DEF Refreshing
<1>6. Right => Right'
    BY <1>1 DEF Right, LoadedRight, Loading, IsCurrentRequest, Quiet, Shows, MembersOf
<1>7. Excused => Excused'  BY <1>1 DEF Excused
<1> QED  BY <1>4, <1>5, <1>6, <1>7 DEF Due

LEMMA AnswerRefreshSettles ==
    ASSUME GroupsKnown, PanelKnown, NEW r \in refreshes, AnswerRefresh(r)
    PROVE  PanelKnown' /\ Due'
PROOF
<1>1. refreshes' = refreshes \ {r} /\ people' = people /\ ~r.only  BY DEF AnswerRefresh, service
<1>2. \A s \in refreshes' : s.only  BY <1>1 DEF PanelKnown
<1>3. CASE Latest # r.captured
  <2>1. UNCHANGED <<current, panel, loads>> /\ "dropped" \in doubts'  BY <1>3 DEF AnswerRefresh
  <2>2. PanelKnown'  BY <1>2, <2>1 DEF PanelKnown
  <2> QED  BY <2>1, <2>2 DEF Due, Excused
<1>4. CASE Latest = r.captured /\ r.got.groups = {}
  <2>1. current' = None /\ panel' = EmptyPanel /\ loads' = loads  BY <1>4 DEF AnswerRefresh, NothingLeft
  <2>2. PanelKnown'  BY <1>2, <2>1, PanelRecords DEF PanelKnown
  <2>3. LoadedRight'  BY <2>1, PanelAssumption DEF LoadedRight, IsCurrentRequest, PanelKnown
  <2>4. Quiet(panel') /\ panel'.shown = {}  BY <2>1, PanelRecords
  <2>5. Quiet(panel)' /\ Shows(panel, current)'  BY <2>1, <2>4 DEF Quiet, Shows
  <2> QED  BY <2>2, <2>3, <2>5 DEF Due, Right
<1>5. CASE Latest = r.captured /\ r.got.groups # {}
  <2>1. Resolved(r) \in Groups
    <3>1. r.got.groups \subseteq Groups  BY DEF GroupsKnown, ListAnswer, AnswerRefresh
    <3> QED  BY <1>5, <3>1 DEF Resolved
  <2>2. Reload(r, Resolved(r))  BY <1>5 DEF AnswerRefresh
  <2>a. PICK g \in Groups : \E base, mode :
            current' = g /\ panel' = Begun(base, mode) /\ loads' = Request(g, mode)
      BY <2>1, <2>2 DEF Reload
  <2>3. PICK base, mode : current' = g /\ panel' = Begun(base, mode) /\ loads' = Request(g, mode)
      BY <2>a
  <2>4. Fields(panel', PanelFields)  BY <2>3, PanelBegun
  <2>5. /\ \A l \in loads' : Fields(l, {"group", "latest", "delay", "got"}) /\ l.group \in Groups
        /\ Right'
      BY <2>3, Asked
  <2>6. PanelKnown'  BY <1>2, <2>4, <2>5 DEF PanelKnown
  <2> QED  BY <2>5, <2>6 DEF Due
<1> QED  BY <1>3, <1>4, <1>5

\* A refresh that fails says so, and nothing else is under way, or it has lapsed.
LEMMA FailRefreshSettles ==
    ASSUME PanelKnown, NEW r \in refreshes, FailRefresh(r)
    PROVE  PanelKnown' /\ Due'
PROOF
<1>1. UNCHANGED <<current, loads, people>> /\ refreshes' = refreshes \ {r} /\ ~r.only
    BY DEF FailRefresh, service, choice
<1>2. r.from = current  BY <1>1 DEF PanelKnown
<1>3. panel' = Failed(panel)  BY <1>2 DEF FailRefresh
<1>4. PanelKnown'  BY <1>1, <1>3, PanelEdited DEF PanelKnown
<1>5. CASE loads # {}  BY <1>4, <1>5 DEF FailRefresh, Due, Excused
<1>6. CASE loads = {}
  <2>1. Quiet(panel') /\ panel'.error  BY <1>3, Zenon DEF EmptyPanel, Quiet, Failed
  <2>2. Quiet(panel)' /\ Shows(panel, current)'  BY <2>1 DEF Quiet, Shows
  <2>3. LoadedRight'  BY <1>1, <1>6 DEF LoadedRight
  <2> QED  BY <1>4, <2>2, <2>3 DEF Due, Right
<1> QED  BY <1>5, <1>6

\* What concerns neither the panel nor its members.
LEMMA DueKept ==
    ASSUME PanelKnown, UNCHANGED <<current, panel, loads, refreshes, people>>, doubts \subseteq doubts'
    PROVE  PanelKnown' /\ (Due => Due')
PROOF
<1>1. PanelKnown'  BY DEF PanelKnown
<1>2. Refreshing => Refreshing'  BY DEF Refreshing
<1>3. Right => Right'  BY DEF Right, LoadedRight, Loading, IsCurrentRequest, Quiet, Shows, MembersOf
<1>4. Excused => Excused'  BY DEF Excused
<1> QED  BY <1>1, <1>2, <1>3, <1>4 DEF Due

\* An answer of the list alone leaves the panel as it was, or says that there is none.
LEMMA AnswerListSettles ==
    ASSUME PanelKnown, NEW r \in refreshes, AnswerList(r)
    PROVE  PanelKnown' /\ (Due => Due')
PROOF
<1>1. UNCHANGED <<current, loads, people, doubts>> /\ r.only  BY DEF AnswerList, service
<1>2. CASE deleting
  <2>1. PICK s : s = selected'  OBVIOUS
  <2>2. refreshes' = Refresh(current, s) \ {r} /\ panel' = [panel EXCEPT !.refreshing = TRUE]
      BY <1>2, <2>1 DEF AnswerList
  <2>3. /\ \E q \in Refresh(current, s) : ~q.only
        /\ \A q, t \in Refresh(current, s) : ~q.only /\ ~t.only => q = t /\ q.from = current
      BY AsksAnew
  <2>4. Refreshing'  BY <1>1, <2>2, <2>3 DEF Refreshing
  <2>5. PanelKnown'  BY <1>1, <2>2, <2>3, PanelEdited DEF PanelKnown
  <2> QED  BY <2>4, <2>5 DEF Due
<1>3. CASE ~deleting
  <2>1. refreshes' = refreshes \ {r}  BY <1>3 DEF AnswerList
  <2>2. panel' = panel \/ panel' = [panel EXCEPT !.error = TRUE]  BY <1>3 DEF AnswerList
  <2>3. PanelKnown'
    <3>1. Fields(panel, PanelFields)  BY DEF PanelKnown
    <3>2. Fields([panel EXCEPT !.error = TRUE], PanelFields)  BY <3>1, PanelEdited
    <3>3. Fields(panel', PanelFields)  BY <2>2, <3>1, <3>2
    <3> QED  BY <1>1, <2>1, <3>3 DEF PanelKnown
  <2>4. Refreshing => Refreshing'  BY <1>1, <2>1 DEF Refreshing
  <2>5. Excused => Excused'  BY <1>1 DEF Excused
  <2>6. Quiet(panel) /\ Shows(panel, current) => Quiet(panel)' /\ Shows(panel, current)'
    <3>1. CASE panel' = panel  BY <1>1, <3>1 DEF Quiet, Shows, MembersOf
    <3>2. CASE panel' = [panel EXCEPT !.error = TRUE]
      <4>1. panel'.error  BY <3>2, Zenon DEF PanelKnown, Fields, PanelFields
      <4>2. Quiet(panel) => Quiet(panel')
          BY <3>2 DEF PanelKnown, Fields, PanelFields, Quiet
      <4> QED  BY <4>1, <4>2 DEF Shows, Quiet
    <3> QED  BY <2>2, <3>1, <3>2
  <2>7. Right => Right'  BY <1>1, <2>6 DEF Right, LoadedRight, Loading, IsCurrentRequest, MembersOf
  <2> QED  BY <2>3, <2>4, <2>5, <2>7 DEF Due
<1> QED  BY <1>2, <1>3

\* The settings are opened or closed, and changes of other computers come in.
LEMMA SettingsSettle ==
    ASSUME PanelKnown, DataChanged \/ Retry \/ OpenSettings \/ CloseSettings
    PROVE  PanelKnown' /\ (Due => Due')
PROOF
<1>1. UNCHANGED <<current, loads, doubts>>
    BY DEF DataChanged, Retry, OpenSettings, CloseSettings, choice, asked
<1>2. CASE OpenSettings
  <2>1. UNCHANGED <<panel, refreshes, people>>  BY <1>2 DEF OpenSettings, service, asked
  <2> QED  BY <1>1, <2>1, DueKept
<1>3. CASE DataChanged \/ Retry \/ CloseSettings
  <2>1. refreshes' = Refresh(current, selected) /\ panel' = [panel EXCEPT !.refreshing = TRUE]
      BY <1>3 DEF DataChanged, Retry, CloseSettings
  <2>2. refreshes' = Refresh(current', selected)  BY <1>1, <2>1
  <2>3. Fields(panel', PanelFields)  BY <2>1, PanelEdited DEF PanelKnown
  <2> QED  BY <1>1, <2>2, <2>3, RefreshIsDue
<1> QED  BY <1>2, <1>3

LEMMA SyncSettles ==
    ASSUME PanelKnown, NEW g \in Groups, SyncUpdatedGroup(g), loads' = loads
    PROVE  PanelKnown' /\ Due'
PROOF
<1>1. current' = g /\ panel' = [WithGroup(panel, g) EXCEPT !.refreshing = TRUE] /\ refreshes' = Refresh(g, g)
    BY DEF SyncUpdatedGroup
<1>2. Fields(panel', PanelFields)  BY <1>1, PanelMoved, PanelEdited DEF PanelKnown
<1> QED  BY <1>1, <1>2, RefreshIsDue

LEMMA GroupsSettle ==
    ASSUME PanelKnown, NEW g \in Groups, SelectInSettings(g) \/ CreateGroup(g)
    PROVE  PanelKnown' /\ Due'
PROOF
<1>1. loads' = loads  BY DEF SelectInSettings, CreateGroup
<1>2. CASE SyncUpdatedGroup(g)  BY <1>1, <1>2, SyncSettles
<1>3. CASE ~SyncUpdatedGroup(g)
  <2>1. current' = current /\ refreshes' = Refresh(current, selected) /\ panel' = [panel EXCEPT !.refreshing = TRUE]
      BY <1>3 DEF SelectInSettings, CreateGroup
  <2>2. refreshes' = Refresh(current', selected)  BY <2>1
  <2>3. Fields(panel', PanelFields)  BY <2>1, PanelEdited DEF PanelKnown
  <2> QED  BY <1>1, <2>2, <2>3, RefreshIsDue
<1> QED  BY <1>2, <1>3

\* The panel of a group that is deleted is empty, and the list is asked for.
LEMMA DeleteGroupSettles ==
    ASSUME PanelKnown, NEW g \in Groups, DeleteGroup(g)
    PROVE  PanelKnown' /\ Due'
PROOF
<1>1. current' = None /\ panel' = EmptyPanel /\ loads' = loads /\ refreshes' = Overtaken \cup {ListRequest}
    BY DEF DeleteGroup
<1>2. ListRequest.only  BY Zenon DEF ListRequest
<1>3. \A r \in refreshes' : r.only  BY <1>1, <1>2 DEF Overtaken
<1>4. PanelKnown'  BY <1>1, <1>3, PanelRecords DEF PanelKnown
<1>5. LoadedRight'  BY <1>1, PanelAssumption DEF LoadedRight, IsCurrentRequest, PanelKnown
<1>6. Quiet(panel') /\ panel'.shown = {}  BY <1>1, PanelRecords
<1>7. Quiet(panel)' /\ Shows(panel, current)'  BY <1>1, <1>6 DEF Quiet, Shows
<1> QED  BY <1>4, <1>5, <1>7 DEF Due, Right

\* A page of rules leaves the panel alone, but for the refresh when it has saved.
LEMMA RulesSettle ==
    ASSUME PanelKnown, OpenRules \/ CloseRules \/ SaveSettings \/ \E s \in saves : SaveSettles(s)
    PROVE  PanelKnown' /\ (Due => Due')
PROOF
<1>1. CASE OpenRules \/ CloseRules \/ SaveSettings
  <2>1. UNCHANGED <<current, panel, loads, refreshes, people>> /\ doubts \subseteq doubts'
      BY <1>1 DEF OpenRules, CloseRules, SaveSettings, service, choice, asked
  <2> QED  BY <2>1, DueKept
<1>2. CASE \E s \in saves : SaveSettles(s)
  <2>1. PICK s \in saves : SaveSettles(s)  BY <1>2
  <2>2. UNCHANGED <<current, loads, people>> /\ doubts \subseteq doubts'  BY <2>1 DEF SaveSettles, choice
  <2>3. \/ UNCHANGED <<refreshes, panel>>
        \/ refreshes' = Refresh(current, selected) /\ panel' = [panel EXCEPT !.refreshing = TRUE]
      BY <2>1 DEF SaveSettles, Shown
  <2>4. CASE UNCHANGED <<refreshes, panel>>  BY <2>2, <2>4, DueKept
  <2>5. CASE refreshes' = Refresh(current, selected) /\ panel' = [panel EXCEPT !.refreshing = TRUE]
    <3>1. refreshes' = Refresh(current', selected)  BY <2>2, <2>5
    <3>2. Fields(panel', PanelFields)  BY <2>5, PanelEdited DEF PanelKnown
    <3> QED  BY <2>2, <3>1, <3>2, RefreshIsDue
  <2> QED  BY <2>3, <2>4, <2>5
<1> QED  BY <1>1, <1>2

\* What is left behind still owes its refresh.
LEMMA AddLeft ==
    ASSUME NEW a, AddKnown(a)
    PROVE  AddKnown([a EXCEPT !.latest = FALSE]) /\ (AddOwes(a) => AddOwes([a EXCEPT !.latest = FALSE]))
PROOF
<1> DEFINE b == [a EXCEPT !.latest = FALSE]
<1>1. DOMAIN b = DOMAIN a /\ b.kind = a.kind /\ b.created = a.created /\ b.got = a.got  BY DEF AddKnown, Fields
<1> HIDE DEF b
<1>2. AddKnown(b)  BY <1>1 DEF AddKnown, Fields
<1>3. AddOwes(a) => AddOwes(b)  BY <1>1 DEF AddOwes, Succeeded, Awaited
<1> QED  BY <1>2, <1>3 DEF b

LEMMA ShotLeft ==
    ASSUME NEW q, ShotKnown(q)
    PROVE  ShotKnown([q EXCEPT !.latest = FALSE]) /\ (PhotosOwe(q) => PhotosOwe([q EXCEPT !.latest = FALSE]))
PROOF
<1> DEFINE b == [q EXCEPT !.latest = FALSE]
<1>1. DOMAIN b = DOMAIN q /\ b.kind = q.kind  BY DEF ShotKnown
<1>2. q.kind = "photos" => b.created = q.created /\ b.faces = q.faces  BY DEF ShotKnown, Fields
<1> HIDE DEF b
<1>3. ShotKnown(b)  BY <1>1, <1>2 DEF ShotKnown, Fields
<1>4. PhotosOwe(q) => PhotosOwe(b)  BY <1>1, <1>2 DEF PhotosOwe
<1> QED  BY <1>3, <1>4 DEF b

LEMMA AddsLeft ==
    ASSUME NEW before, \A a \in before : AddKnown(a)
    PROVE  /\ \A a \in Superseded(before) : AddKnown(a)
           /\ (\E a \in before : AddOwes(a)) => \E a \in Superseded(before) : AddOwes(a)
PROOF BY AddLeft DEF Superseded

LEMMA ShotsLeft ==
    ASSUME NEW before, \A q \in before : ShotKnown(q)
    PROVE  /\ \A q \in Superseded(before) : ShotKnown(q)
           /\ (\E q \in before : PhotosOwe(q)) => \E q \in Superseded(before) : PhotosOwe(q)
PROOF BY ShotLeft DEF Superseded

\* Predicates of requests do not depend on the state.
LEMMA Timeless ==
    /\ \A a : (AddKnown(a)' <=> AddKnown(a)) /\ (AddOwes(a)' <=> AddOwes(a))
    /\ \A q : (ShotKnown(q)' <=> ShotKnown(q)) /\ (PhotosOwe(q)' <=> PhotosOwe(q))
PROOF BY DEF AddKnown, AddOwes, ShotKnown, PhotosOwe, Fields, Succeeded, Awaited

\* The same in other words, for a step.
LEMMA DialogsKept ==
    ASSUME \A a \in adds' : AddKnown(a), \A q \in shots' : ShotKnown(q), PhotosKnown', fresh' \in Nat
    PROVE  DialogsKnown'
PROOF BY Timeless DEF DialogsKnown

LEMMA OwedStill ==
    ASSUME \/ \E a \in adds' : AddOwes(a)
           \/ removals' # {}
           \/ \E q \in shots' : PhotosOwe(q)
    PROVE  Owed'
PROOF BY Timeless DEF Owed

LEMMA NoPhotosKnown ==
    /\ "found" \in DOMAIN NoPhotos /\ NoPhotos.found = {}
    /\ \A p, x : "found" \in DOMAIN p =>
          /\ "found" \in DOMAIN [p EXCEPT !.found = x] /\ [p EXCEPT !.found = x].found = x
PROOF BY DEF NoPhotos

\* The form and the covers go with the selected group; what they asked for goes on.
LEMMA DialogsFollow ==
    ASSUME DialogsKnown, FormFollows, CoversFollow
    PROVE  DialogsKnown' /\ (Owed => Owed')
PROOF
<1>1. adds' \in {adds, Superseded(adds)} /\ fresh' \in {fresh, fresh + 1}  BY DEF FormFollows, enrollVars
<1>2. /\ shots' \in {shots, Superseded(shots)} /\ removals' = removals
      /\ photos' \in {photos, NoPhotos}
    BY DEF CoversFollow, coverVars
<1>3. /\ \A a \in adds' : AddKnown(a)
      /\ (\E a \in adds : AddOwes(a)) => \E a \in adds' : AddOwes(a)
    BY <1>1, AddsLeft DEF DialogsKnown
<1>4. /\ \A q \in shots' : ShotKnown(q)
      /\ (\E q \in shots : PhotosOwe(q)) => \E q \in shots' : PhotosOwe(q)
    BY <1>2, ShotsLeft DEF DialogsKnown
<1>5. PhotosKnown'  BY <1>2, NoPhotosKnown DEF DialogsKnown, PhotosKnown
<1>6. fresh' \in Nat  BY <1>1 DEF DialogsKnown
<1>7. DialogsKnown'  BY <1>3, <1>4, <1>5, <1>6, DialogsKept
<1>8. Owed => Owed'  BY <1>2, <1>3, <1>4, OwedStill DEF Owed
<1> QED  BY <1>7, <1>8

LEMMA DialogSettles ==
    ASSUME PanelInv, Aside, Carried
    PROVE  PanelInv'
PROOF
<1>1. UNCHANGED <<current, loads>>  BY DEF Aside, elsewhere, choice
<1>2. doubts \subseteq doubts'  BY DEF Aside
<1>3. CASE refreshes' = Refresh(current, selected)
  <2>1. refreshes' = Refresh(current', selected)  BY <1>1, <1>3
  <2> QED  BY <1>1, <2>1, RefreshIsDue DEF PanelInv, Carried
<1>4. CASE refreshes' = refreshes
  <2>1. PanelKnown'  BY <1>1, <1>4 DEF PanelKnown, PanelInv, Carried
  <2>2. Excused => Excused'  BY <1>2 DEF Excused
  <2>3. Refreshing => Refreshing'  BY <1>4 DEF Refreshing
  <2>4. UNCHANGED people /\ Unmoved /\ Right => Right'
      BY <1>1 DEF Right, LoadedRight, Loading, IsCurrentRequest, Quiet, Shows, MembersOf, Unmoved
  <2> QED  BY <2>1, <2>2, <2>3, <2>4 DEF PanelInv, Carried, Due
<1> QED  BY <1>3, <1>4 DEF Aside

\* What the form asks for is known and goes on to owe what it does.
LEMMA FormCarries ==
    ASSUME PanelInv, UNCHANGED <<people, panel, coverVars>>, fresh' \in Nat, \A a \in adds' : AddKnown(a),
           (\E a \in adds : AddOwes(a)) => \E a \in adds' : AddOwes(a)
    PROVE  Carried
PROOF
<1>1. DialogsKnown'
  <2>1. PhotosKnown'  BY DEF PanelInv, DialogsKnown, PhotosKnown, coverVars
  <2>2. \A q \in shots' : ShotKnown(q)  BY DEF PanelInv, DialogsKnown, coverVars
  <2> QED  BY <2>1, <2>2, DialogsKept
<1>2. Owed => Owed'  BY OwedStill DEF Owed, coverVars
<1>3. UNCHANGED people /\ Unmoved  BY DEF Unmoved
<1> QED  BY <1>1, <1>2, <1>3 DEF Carried, PanelInv, PanelKnown

\* An answer that makes the panel refresh.
LEMMA RefreshCarries ==
    ASSUME PanelInv, UNCHANGED coverVars, fresh' \in Nat, \A a \in adds' : AddKnown(a),
           refreshes' = Refresh(current, selected), Fields(panel', PanelFields)
    PROVE  Carried
PROOF
<1>1. DialogsKnown'
  <2>1. PhotosKnown'  BY DEF PanelInv, DialogsKnown, PhotosKnown, coverVars
  <2>2. \A q \in shots' : ShotKnown(q)  BY DEF PanelInv, DialogsKnown, coverVars
  <2> QED  BY <2>1, <2>2, DialogsKept
<1>2. Refreshing'  BY AsksAnew DEF Refreshing
<1> QED  BY <1>1, <1>2 DEF Carried

\* Nobody learns of what was saved.
LEMMA UnseenCarries ==
    ASSUME PanelInv, UNCHANGED coverVars, fresh' \in Nat, \A a \in adds' : AddKnown(a), panel' = panel, Excused'
    PROVE  Carried
PROOF
<1>1. PhotosKnown'  BY DEF PanelInv, DialogsKnown, PhotosKnown, coverVars
<1>2. \A q \in shots' : ShotKnown(q)  BY DEF PanelInv, DialogsKnown, coverVars
<1>3. DialogsKnown'  BY <1>1, <1>2, DialogsKept
<1> QED  BY <1>3 DEF Carried, PanelInv, PanelKnown

LEMMA EntryCarries ==
    ASSUME PanelInv, UNCHANGED coverVars,
           \/ \E rows \in 0 .. MaxRows : OpenForm(rows)
           \/ CloseForm \/ SwitchMode \/ CorrectName \/ OpenSection \/ SkipFace \/ RetakePhoto
           \/ \E uploaded \in BOOLEAN : Photograph(uploaded)
           \/ \E c \in checks : AnswerCheck(c)
           \/ ReimportFile
           \/ \E row \in bulk.text : EditRow(row)
    PROVE  Carried
PROOF
<1>1. fresh \in Nat /\ \A a \in adds : AddKnown(a)  BY DEF PanelInv, DialogsKnown
<1>2. CASE \E rows \in 0 .. MaxRows : OpenForm(rows)
  <2>1. PICK rows \in 0 .. MaxRows : OpenForm(rows)  BY <1>2
  <2>2. UNCHANGED <<people, panel, adds>> /\ fresh' = fresh + rows + 1  BY <2>1 DEF OpenForm
  <2>3. fresh' \in Nat  BY <1>1, <2>2
  <2> QED  BY <1>1, <2>2, <2>3, FormCarries
<1>3. CASE CloseForm
  <2>1. UNCHANGED <<people, panel, fresh>> /\ adds' = Superseded(adds)  BY <1>3 DEF CloseForm
  <2> QED  BY <1>1, <2>1, AddsLeft, FormCarries
<1>4. CASE \/ SwitchMode \/ CorrectName \/ OpenSection \/ SkipFace \/ RetakePhoto \/ ReimportFile
           \/ \E row \in bulk.text : EditRow(row)
  <2>1. UNCHANGED <<people, panel, fresh, adds>>
      BY <1>4, Zenon DEF SwitchMode, CorrectName, OpenSection, SkipFace, RetakePhoto, Untouched, ReimportFile, EditRow
  <2> QED  BY <1>1, <2>1, FormCarries
<1>5. CASE (\E uploaded \in BOOLEAN : Photograph(uploaded)) \/ \E c \in checks : AnswerCheck(c)
  <2>1. UNCHANGED <<people, panel, fresh, adds>>  BY <1>5, Zenon DEF Photograph, AnswerCheck, Untouched
  <2> QED  BY <1>1, <2>1, FormCarries
<1> QED  BY <1>2, <1>3, <1>4, <1>5

LEMMA SubmitCarries ==
    ASSUME PanelInv, UNCHANGED coverVars, Submit
    PROVE  Carried
PROOF
<1>1. fresh \in Nat /\ \A a \in adds : AddKnown(a)  BY DEF PanelInv, DialogsKnown
<1>2. people' = people  BY DEF Submit
<1>3. CASE form.saved # None /\ form.photo = None
  <2>1. UNCHANGED <<panel, adds, fresh>>  BY <1>3, Zenon DEF Submit, CloseSaved
  <2> QED  BY <1>1, <1>2, <2>1, FormCarries
<1>4. CASE ~(form.saved # None /\ form.photo = None)
  <2>1. panel' = panel /\ fresh' \in {fresh, fresh + 1}  BY <1>4, Zenon DEF Submit
  <2>2. PICK rows :
            adds' = adds \cup {[kind |-> IF form.saved # None THEN "face" ELSE "member", latest |-> TRUE,
                                created |-> ~(form.saved # None), group |-> selected, photo |-> form.photo,
                                got |-> Unanswered, rows |-> rows]}
      BY <1>4, Zenon DEF Submit
  <2> DEFINE new == [kind |-> IF form.saved # None THEN "face" ELSE "member", latest |-> TRUE,
                     created |-> ~(form.saved # None), group |-> selected, photo |-> form.photo,
                     got |-> Unanswered, rows |-> rows]
  <2>3. AddKnown(new)
    <3>1. Fields(new, {"kind", "latest", "created", "got", "rows"})  BY DEF Fields
    <3>2. new.kind = (IF form.saved # None THEN "face" ELSE "member")  OBVIOUS
    <3>3. new.created = ~(form.saved # None)  BY Zenon
    <3> HIDE DEF new
    <3> QED  BY <3>1, <3>2, <3>3, Zenon DEF AddKnown
  <2> HIDE DEF new
  <2>4. adds' = adds \cup {new}  BY <2>2 DEF new
  <2>5. fresh' \in Nat  BY <1>1, <2>1
  <2> QED  BY <1>1, <1>2, <2>1, <2>3, <2>4, <2>5, FormCarries
<1> QED  BY <1>3, <1>4

LEMMA SubmitRowsCarries ==
    ASSUME PanelInv, UNCHANGED coverVars, SubmitRows, fresh' \in Nat
    PROVE  Carried
PROOF
<1>1. fresh \in Nat /\ \A a \in adds : AddKnown(a)  BY DEF PanelInv, DialogsKnown
<1>2. people' = people  BY DEF SubmitRows
<1>3. panel' = panel  BY Zenon DEF SubmitRows, CloseSaved
<1> DEFINE new == [kind |-> "rows", latest |-> TRUE, created |-> FALSE, group |-> selected,
                   photo |-> None, got |-> Unanswered, rows |-> Reconciled]
<1>4. adds' = adds \/ adds' = adds \cup {new}  BY Zenon DEF SubmitRows
<1>5. AddKnown(new)
  <2>1. Fields(new, {"kind", "latest", "created", "got", "rows"})  BY DEF Fields
  <2>2. new.kind = "rows"  OBVIOUS
  <2> HIDE DEF new
  <2> QED  BY <2>1, <2>2 DEF AddKnown
<1> HIDE DEF new
<1> QED  BY <1>1, <1>2, <1>3, <1>4, <1>5, FormCarries

\* What an addition keeps when it is answered or goes on.
LEMMA AddEdited ==
    ASSUME NEW a, AddKnown(a), NEW got, NEW rows, NEW created
    PROVE  /\ AddKnown([a EXCEPT !.got = got]) /\ [a EXCEPT !.got = got].got = got
           /\ [a EXCEPT !.got = got].kind = a.kind /\ [a EXCEPT !.got = got].created = a.created
           /\ a.created => /\ AddKnown([a EXCEPT !.kind = "face", !.got = got])
                           /\ AddOwes([a EXCEPT !.kind = "face", !.got = got])
           /\ a.kind = "rows" =>
                 /\ AddKnown([a EXCEPT !.rows = rows, !.created = created, !.got = got])
                 /\ created => AddOwes([a EXCEPT !.rows = rows, !.created = created, !.got = got])
PROOF
<1>1. /\ AddKnown([a EXCEPT !.got = got]) /\ [a EXCEPT !.got = got].got = got
      /\ [a EXCEPT !.got = got].kind = a.kind /\ [a EXCEPT !.got = got].created = a.created
  <2> DEFINE b == [a EXCEPT !.got = got]
  <2>1. DOMAIN b = DOMAIN a /\ b.kind = a.kind /\ b.created = a.created /\ b.got = got  BY DEF AddKnown, Fields
  <2> HIDE DEF b
  <2>2. AddKnown(b)  BY <2>1 DEF AddKnown, Fields
  <2> QED  BY <2>1, <2>2 DEF b
<1>2. ASSUME a.created
      PROVE  /\ AddKnown([a EXCEPT !.kind = "face", !.got = got])
             /\ AddOwes([a EXCEPT !.kind = "face", !.got = got])
  <2> DEFINE b == [a EXCEPT !.kind = "face", !.got = got]
  <2>1. DOMAIN b = DOMAIN a /\ b.kind = "face" /\ b.created = a.created  BY DEF AddKnown, Fields
  <2> HIDE DEF b
  <2>2. AddKnown(b) /\ AddOwes(b)  BY <1>2, <2>1 DEF AddKnown, Fields, AddOwes
  <2> QED  BY <2>2 DEF b
<1>3. ASSUME a.kind = "rows"
      PROVE  /\ AddKnown([a EXCEPT !.rows = rows, !.created = created, !.got = got])
             /\ created => AddOwes([a EXCEPT !.rows = rows, !.created = created, !.got = got])
  <2> DEFINE b == [a EXCEPT !.rows = rows, !.created = created, !.got = got]
  <2>1. DOMAIN b = DOMAIN a /\ b.kind = "rows" /\ b.created = created  BY <1>3 DEF AddKnown, Fields
  <2> HIDE DEF b
  <2>2. AddKnown(b) /\ (created => AddOwes(b))  BY <2>1 DEF AddKnown, Fields, AddOwes
  <2> QED  BY <2>2 DEF b
<1> QED  BY <1>1, <1>2, <1>3

\* A request is answered, and the others wait on.
LEMMA AddAnswered ==
    ASSUME PanelInv, NEW a \in adds, NEW at, NEW ids, Answer(a, at, ids)
    PROVE  /\ \A b \in adds' : AddKnown(b)
           /\ \E b \in adds' : b.kind = a.kind /\ b.created = a.created /\ b.got = [at |-> at, ids |-> ids]
           /\ \A b \in adds \ {a} : b \in adds'
PROOF
<1>1. \A b \in adds : AddKnown(b)  BY DEF PanelInv, DialogsKnown
<1>2. PICK b : b = [a EXCEPT !.got = [at |-> at, ids |-> ids]]  OBVIOUS
<1>3. AddKnown(b) /\ b.kind = a.kind /\ b.created = a.created /\ b.got = [at |-> at, ids |-> ids]
    BY <1>1, <1>2, AddEdited
<1>4. adds' = (adds \ {a}) \cup {b}  BY <1>2 DEF Answer
<1> QED  BY <1>1, <1>3, <1>4

LEMMA ServeAddCarries ==
    ASSUME PanelInv, UNCHANGED coverVars, NEW a \in adds, ServeAdd(a)
    PROVE  Carried
PROOF
<1>1. UNCHANGED <<panel, fresh>> /\ a.kind \in {"member", "rows"} /\ Awaited(a)
    BY DEF ServeAdd, PanelInv, DialogsKnown, AddKnown
<1>2. PICK at, ids : Answer(a, at, ids)  BY DEF ServeAdd, Fail
<1>3. fresh' \in Nat /\ \A b \in adds' : AddKnown(b)  BY <1>1, <1>2, AddAnswered DEF PanelInv, DialogsKnown
<1>4. ASSUME NEW b \in adds, AddOwes(b) PROVE \E c \in adds' : AddOwes(c)
  <2>1. CASE b # a  BY <1>2, <1>4, <2>1, AddAnswered
  <2>2. CASE b = a
    <3>1. a.kind = "rows" /\ a.created  BY <1>1, <1>4, <2>2 DEF AddOwes, Awaited, Succeeded
    <3> QED  BY <1>2, <3>1, AddAnswered DEF AddOwes
  <2> QED  BY <2>1, <2>2
<1>5. CASE people' = people  BY <1>1, <1>3, <1>4, <1>5, FormCarries
<1>6. CASE "unseen" \in doubts'  BY <1>1, <1>3, <1>6, UnseenCarries DEF Excused
<1>7. CASE people' = Saved(a) /\ Answer(a, "saved", {r.id : r \in Accepted(a)})
  <2> DEFINE saved == {r.id : r \in Accepted(a)}
  <2>0. Answer(a, "saved", saved)  BY <1>7
  <2> HIDE DEF saved
  <2>1. PICK b \in adds' : /\ b.kind = a.kind /\ b.created = a.created
                           /\ b.got = [at |-> "saved", ids |-> saved]
      BY <2>0, AddAnswered
  <2>2. b.got.at = "saved" /\ b.got.ids = {r.id : r \in Accepted(a)}  BY <2>1 DEF saved
  <2>3. CASE a.kind = "member" \/ Accepted(a) # {}
    <3>1. AddOwes(b)  BY <1>1, <2>1, <2>2, <2>3 DEF AddOwes, Succeeded, Awaited
    <3>2. Owed'  BY <3>1, OwedStill
    <3>3. PhotosKnown' /\ \A q \in shots' : ShotKnown(q)
        BY DEF PanelInv, DialogsKnown, PhotosKnown, coverVars
    <3>4. DialogsKnown'  BY <1>3, <3>3, DialogsKept
    <3> QED  BY <1>1, <3>2, <3>4 DEF Carried, PanelInv, PanelKnown
  <2>4. CASE Accepted(a) = {}
    <3>1. people' = people  BY <1>7, <2>4 DEF Saved
    <3> QED  BY <1>5, <3>1
  <2> QED  BY <1>1, <2>3, <2>4
<1> QED  BY <1>5, <1>6, <1>7 DEF ServeAdd

LEMMA ServeFaceCarries ==
    ASSUME PanelInv, UNCHANGED coverVars, NEW a \in adds, ServeFace(a)
    PROVE  Carried
PROOF
<1>1. UNCHANGED <<people, panel, fresh>> /\ a.kind = "face"  BY DEF ServeFace
<1>2. PICK at, ids : Answer(a, at, ids)  BY DEF ServeFace, Fail
<1>3. fresh' \in Nat /\ \A b \in adds' : AddKnown(b)  BY <1>1, <1>2, AddAnswered DEF PanelInv, DialogsKnown
<1>4. ASSUME NEW b \in adds, AddOwes(b) PROVE \E c \in adds' : AddOwes(c)
  <2>1. CASE b # a  BY <1>2, <1>4, <2>1, AddAnswered
  <2>2. CASE b = a
    <3>1. a.created  BY <1>1, <1>4, <2>2 DEF AddOwes
    <3> QED  BY <1>1, <1>2, <3>1, AddAnswered DEF AddOwes
  <2> QED  BY <2>1, <2>2
<1> QED  BY <1>1, <1>3, <1>4, FormCarries

\* An answer that owes nothing is taken away.
LEMMA AddsFewer ==
    ASSUME PanelInv, UNCHANGED coverVars, NEW a \in adds, ~AddOwes(a), adds' = adds \ {a},
           UNCHANGED <<people, panel, fresh>>
    PROVE  Carried
PROOF
<1>1. fresh' \in Nat /\ \A b \in adds' : AddKnown(b)  BY DEF PanelInv, DialogsKnown
<1> QED  BY <1>1, FormCarries

LEMMA AnswerAddCarries ==
    ASSUME PanelInv, UNCHANGED coverVars, NEW a \in adds, AnswerAdd(a)
    PROVE  Carried
PROOF
<1>1. UNCHANGED <<people, fresh>> /\ a.kind = "member" /\ AddKnown(a) /\ a.created
    BY DEF AnswerAdd, PanelInv, DialogsKnown, AddKnown
<1>2. fresh' \in Nat /\ \A b \in adds : AddKnown(b)  BY <1>1 DEF PanelInv, DialogsKnown
<1>3. CASE IsCurrentForm(a) /\ Succeeded(a) /\ a.photo = None
  <2>1. adds' = adds \ {a} /\ refreshes' = Refresh(current, selected)
      BY <1>3 DEF AnswerAdd, MemberAdded
  <2>2. PICK x : panel' = [[panel EXCEPT !.shown = x] EXCEPT !.refreshing = TRUE]
      BY <1>3 DEF AnswerAdd, MemberAdded
  <2>3. Fields(panel', PanelFields)  BY <2>2, PanelEdited DEF PanelInv, PanelKnown
  <2> QED  BY <1>2, <2>1, <2>3, RefreshCarries
<1>4. CASE IsCurrentForm(a) /\ Succeeded(a) /\ a.photo # None
  <2>1. PICK b : b = [a EXCEPT !.kind = "face", !.got = Unanswered]  OBVIOUS
  <2>2. adds' = (adds \ {a}) \cup {b}  BY <1>4, <2>1 DEF AnswerAdd, MemberAdded
  <2>3. AddKnown(b) /\ AddOwes(b)  BY <1>1, <2>1, AddEdited
  <2>4. PICK x : panel' = [panel EXCEPT !.shown = x]  BY <1>4 DEF AnswerAdd, MemberAdded
  <2>5. Fields(panel', PanelFields)  BY <2>4, PanelEdited DEF PanelInv, PanelKnown
  <2>6. Owed'  BY <2>2, <2>3, OwedStill
  <2>7. PhotosKnown' /\ \A q \in shots' : ShotKnown(q)
      BY DEF PanelInv, DialogsKnown, PhotosKnown, coverVars
  <2>8. DialogsKnown'  BY <1>2, <2>2, <2>3, <2>7, DialogsKept
  <2> QED  BY <2>5, <2>6, <2>8 DEF Carried
<1>5. CASE ~(IsCurrentForm(a) /\ Succeeded(a))
  <2>1. adds' = adds \ {a} /\ panel' = panel  BY <1>5 DEF AnswerAdd
  <2>2. CASE Succeeded(a)
    <3>1. Excused'  BY <1>5, <2>2 DEF AnswerAdd, Excused
    <3> QED  BY <1>2, <2>1, <3>1, UnseenCarries
  <2>3. CASE ~Succeeded(a)  BY <1>1, <2>1, <2>3, AddsFewer DEF AddOwes
  <2> QED  BY <2>2, <2>3
<1> QED  BY <1>3, <1>4, <1>5

LEMMA AnswerFaceCarries ==
    ASSUME PanelInv, UNCHANGED coverVars, NEW a \in adds, AnswerFace(a)
    PROVE  Carried
PROOF
<1>1. UNCHANGED <<people, fresh>> /\ a.kind = "face" /\ adds' = adds \ {a}  BY DEF AnswerFace
<1>2. fresh' \in Nat /\ \A b \in adds' : AddKnown(b)  BY <1>1 DEF PanelInv, DialogsKnown
<1>3. \/ refreshes' = Refresh(current, selected) /\ panel' = [panel EXCEPT !.refreshing = TRUE]
      \/ UNCHANGED panel /\ ~a.created
      \/ UNCHANGED panel /\ a.created /\ "unseen" \in doubts'
    BY DEF AnswerFace, CloseSaved
<1>4. CASE refreshes' = Refresh(current, selected) /\ panel' = [panel EXCEPT !.refreshing = TRUE]
  <2>1. Fields(panel', PanelFields)  BY <1>4, PanelEdited DEF PanelInv, PanelKnown
  <2> QED  BY <1>2, <1>4, <2>1, RefreshCarries
<1>5. CASE UNCHANGED panel /\ ~a.created  BY <1>1, <1>5, AddsFewer DEF AddOwes
<1>6. CASE UNCHANGED panel /\ "unseen" \in doubts'  BY <1>2, <1>6, UnseenCarries DEF Excused
<1> QED  BY <1>3, <1>4, <1>5, <1>6

LEMMA AnswerRowsCarries ==
    ASSUME PanelInv, UNCHANGED coverVars, NEW a \in adds, AnswerRows(a)
    PROVE  Carried
PROOF
<1> DEFINE grew == a.created \/ a.got.ids # {}
           shown == [panel EXCEPT !.shown = @ \cup a.got.ids]
<1>1. UNCHANGED <<people, fresh>> /\ a.kind = "rows" /\ AddKnown(a) /\ ~Awaited(a)
    BY DEF AnswerRows, PanelInv, DialogsKnown
<1>2. fresh' \in Nat /\ \A b \in adds : AddKnown(b)  BY <1>1 DEF PanelInv, DialogsKnown
<1>3. /\ Fields(shown, PanelFields)
      /\ ~grew => /\ shown.shown = panel.shown /\ shown.loading = panel.loading
                  /\ shown.refreshing = panel.refreshing /\ shown.pending = panel.pending
                  /\ shown.error = panel.error
    BY DEF PanelInv, PanelKnown, Fields, PanelFields
<1>4. AddOwes(a) <=> grew  BY <1>1 DEF AddOwes
<1> HIDE DEF shown, grew
<1>5. \/ ~IsCurrentForm(a) /\ adds' = adds \ {a} /\ panel' = panel /\ (grew => "unseen" \in doubts')
      \/ \E rest : adds' = (adds \ {a}) \cup {[a EXCEPT !.rows = rest, !.created = grew, !.got = Unanswered]}
                   /\ panel' = shown
      \/ adds' = adds \ {a} /\ RefreshWhen(grew, shown)
    BY DEF AnswerRows, grew, shown
<1>6. CASE adds' = adds \ {a} /\ panel' = panel /\ (grew => "unseen" \in doubts')
  <2>1. CASE grew
    <3>1. Excused'  BY <1>6, <2>1 DEF Excused
    <3> QED  BY <1>2, <1>6, <3>1, UnseenCarries
  <2>2. CASE ~grew  BY <1>1, <1>4, <1>6, <2>2, AddsFewer
  <2> QED  BY <2>1, <2>2
<1>7. PhotosKnown' /\ \A q \in shots' : ShotKnown(q)
    BY DEF PanelInv, DialogsKnown, PhotosKnown, coverVars
\* Nothing was saved: the members on display are the same.
<1>8. ASSUME ~grew, panel' = shown, \A b \in adds' : AddKnown(b), \A b \in adds \ {a} : b \in adds'
      PROVE  Carried
  <2>1. DialogsKnown'  BY <1>2, <1>7, <1>8, DialogsKept
  <2>2. Owed => Owed'  BY <1>4, <1>8, OwedStill DEF Owed, coverVars
  <2>3. Unmoved /\ Fields(panel', PanelFields)  BY <1>3, <1>8 DEF Unmoved
  <2> QED  BY <1>1, <2>1, <2>2, <2>3 DEF Carried
<1>9. CASE \E rest : adds' = (adds \ {a}) \cup {[a EXCEPT !.rows = rest, !.created = grew, !.got = Unanswered]}
                     /\ panel' = shown
  <2>1. PICK rest : adds' = (adds \ {a}) \cup {[a EXCEPT !.rows = rest, !.created = grew, !.got = Unanswered]}
      BY <1>9
  <2>2. PICK b : b = [a EXCEPT !.rows = rest, !.created = grew, !.got = Unanswered]  OBVIOUS
  <2>3. AddKnown(b) /\ (grew => AddOwes(b))  BY <1>1, <2>2, AddEdited
  <2>4. adds' = (adds \ {a}) \cup {b}  BY <2>1, <2>2
  <2>5. \A c \in adds' : AddKnown(c)  BY <1>2, <2>3, <2>4
  <2>6. CASE grew
    <3>1. Owed'  BY <2>3, <2>4, <2>6, OwedStill
    <3>2. DialogsKnown'  BY <1>2, <1>7, <2>5, DialogsKept
    <3> QED  BY <1>3, <1>9, <3>1, <3>2 DEF Carried
  <2>7. CASE ~grew  BY <1>8, <1>9, <2>4, <2>5, <2>7
  <2> QED  BY <2>6, <2>7
<1>10. CASE adds' = adds \ {a} /\ RefreshWhen(grew, shown)
  <2>1. CASE grew
    <3>1. refreshes' = Refresh(current, selected) /\ panel' = [shown EXCEPT !.refreshing = TRUE]
        BY <1>10, <2>1 DEF RefreshWhen
    <3>2. Fields(panel', PanelFields)  BY <1>3, <3>1, PanelEdited
    <3> QED  BY <1>2, <1>10, <3>1, <3>2, RefreshCarries
  <2>2. CASE ~grew  BY <1>2, <1>8, <1>10, <2>2 DEF RefreshWhen
  <2> QED  BY <2>1, <2>2
<1> QED  BY <1>5, <1>6, <1>9, <1>10

LEMMA FormSettles ==
    ASSUME PanelInv, EnrollNext, UNCHANGED coverVars, fresh' \in Nat
    PROVE  PanelInv'
PROOF
<1>1. Carried
    BY EntryCarries, SubmitCarries, SubmitRowsCarries, ServeAddCarries, ServeFaceCarries, AnswerAddCarries,
       AnswerFaceCarries, AnswerRowsCarries DEF EnrollNext
<1> QED  BY <1>1, FormIsAside, DialogSettles

(***************************************************************************)
(* The covers over the list of members.                                    *)
(***************************************************************************)
LEMMA CoverKnown ==
    ASSUME PanelInv, adds' = adds, fresh' \in Nat, PhotosKnown', \A q \in shots' : ShotKnown(q)
    PROVE  DialogsKnown'
PROOF
<1>1. \A a \in adds' : AddKnown(a)  BY DEF PanelInv, DialogsKnown
<1> QED  BY <1>1, DialogsKept

LEMMA CoverCarries ==
    ASSUME PanelInv, UNCHANGED <<adds, removals, people, panel>>, fresh' \in Nat, PhotosKnown',
           \A q \in shots' : ShotKnown(q), (\E q \in shots : PhotosOwe(q)) => \E q \in shots' : PhotosOwe(q)
    PROVE  Carried
PROOF
<1>1. DialogsKnown'  BY CoverKnown
<1>2. Owed => Owed'  BY OwedStill DEF Owed
<1>3. Unmoved  BY DEF Unmoved
<1> QED  BY <1>1, <1>2, <1>3 DEF Carried, PanelInv, PanelKnown

LEMMA CoverRefreshes ==
    ASSUME PanelInv, adds' = adds, fresh' \in Nat, PhotosKnown', \A q \in shots' : ShotKnown(q), RefreshMembers
    PROVE  Carried
PROOF
<1>1. DialogsKnown'  BY CoverKnown
<1>2. Refreshing'  BY AsksAnew DEF Refreshing, RefreshMembers
<1>3. Fields(panel', PanelFields)  BY PanelEdited DEF RefreshMembers, PanelInv, PanelKnown
<1> QED  BY <1>1, <1>2, <1>3 DEF Carried

LEMMA CoverKeeps ==
    ASSUME PanelInv, UNCHANGED <<adds, removals, people, panel, fresh>>, PhotosKnown',
           shots' = shots \/ shots' = Superseded(shots)
    PROVE  Carried
PROOF
<1>1. fresh' \in Nat /\ \A q \in shots : ShotKnown(q)  BY DEF PanelInv, DialogsKnown
<1> QED  BY <1>1, ShotsLeft, CoverCarries

\* Another request is asked, which owes nothing yet.
LEMMA CoverAsks ==
    ASSUME PanelInv, UNCHANGED <<adds, removals, people, panel>>, fresh' \in {fresh, fresh + 1}, PhotosKnown',
           NEW q, ShotKnown(q), Ask(q)
    PROVE  Carried
PROOF
<1>1. fresh' \in Nat /\ \A s \in shots : ShotKnown(s)  BY DEF PanelInv, DialogsKnown
<1>2. shots' = shots \cup {q}  BY DEF Ask
<1> QED  BY <1>1, <1>2, CoverCarries

\* A request that is not for many photos goes on, or is answered.
LEMMA CoverReplied ==
    ASSUME PanelInv, UNCHANGED <<adds, removals, people, panel>>, fresh' \in {fresh, fresh + 1}, PhotosKnown',
           NEW q \in shots, ~PhotosOwe(q),
           \/ Replied(q)
           \/ \E s : ShotKnown(s) /\ shots' = (shots \ {q}) \cup {s}
    PROVE  Carried
PROOF
<1>1. fresh' \in Nat /\ \A s \in shots : ShotKnown(s)  BY DEF PanelInv, DialogsKnown
<1>2. (\A s \in shots' : ShotKnown(s)) /\ \A s \in shots : s # q => s \in shots'  BY <1>1 DEF Replied
<1> QED  BY <1>1, <1>2, CoverCarries

LEMMA ShotEdited ==
    ASSUME NEW q, ShotKnown(q), q.kind # "photos", NEW x
    PROVE  ShotKnown([q EXCEPT !.got = x]) /\ ShotKnown([q EXCEPT !.at = x])
PROOF
<1>1. \A s : DOMAIN s = DOMAIN q /\ s.kind = q.kind => ShotKnown(s)  BY DEF ShotKnown
<1>2. DOMAIN [q EXCEPT !.got = x] = DOMAIN q /\ [q EXCEPT !.got = x].kind = q.kind  BY DEF ShotKnown
<1>3. DOMAIN [q EXCEPT !.at = x] = DOMAIN q /\ [q EXCEPT !.at = x].kind = q.kind  BY DEF ShotKnown
<1> QED  BY <1>1, <1>2, <1>3

LEMMA PhotosEdited ==
    ASSUME PanelInv, photos' = photos
    PROVE  PhotosKnown'
PROOF BY DEF PanelInv, DialogsKnown, PhotosKnown

\* The queue and the face of one member: what is neither asked nor answered.
LEMMA CameraCarries ==
    ASSUME PanelInv,
           \/ \E s \in SUBSET ShownMembers : OpenQueue(s)
           \/ CloseQueue \/ MoveQueue \/ RetryInQueue \/ SkipInQueue \/ ShowCompletion
           \/ \E i \in queue.jumps : JumpToNext(i)
           \/ \E m \in ShownMembers : JumpToEnrollment(m)
           \/ CloseCapture \/ RetakeFrame
    PROVE  Carried
PROOF
<1> USE DEF Covering, Quietly
<1>1. CASE \/ \E s \in SUBSET ShownMembers : OpenQueue(s)
           \/ CloseQueue \/ MoveQueue \/ RetryInQueue \/ SkipInQueue
  <2>1. /\ UNCHANGED <<adds, removals, people, panel, fresh, photos>>
        /\ shots' = shots \/ shots' = Superseded(shots)
      BY <1>1, Zenon DEF OpenQueue, CloseQueue, MoveQueue, RetryInQueue, SkipInQueue
  <2> QED  BY <2>1, PhotosEdited, CoverKeeps
<1>2. CASE \/ \E i \in queue.jumps : JumpToNext(i)
           \/ \E m \in ShownMembers : JumpToEnrollment(m)
           \/ CloseCapture \/ RetakeFrame
  <2>1. /\ UNCHANGED <<adds, removals, people, panel, fresh, photos>>
        /\ shots' = shots \/ shots' = Superseded(shots)
      BY <1>2, Zenon DEF JumpToNext, JumpToEnrollment, CloseCapture, RetakeFrame
  <2> QED  BY <2>1, PhotosEdited, CoverKeeps
<1>3. CASE ShowCompletion
  <2>1. UNCHANGED <<adds, shots, fresh, photos>> /\ RefreshMembers  BY <1>3, Zenon DEF ShowCompletion
  <2>2. fresh' \in Nat /\ \A q \in shots' : ShotKnown(q)  BY <2>1 DEF PanelInv, DialogsKnown
  <2> QED  BY <2>1, <2>2, PhotosEdited, CoverRefreshes
<1> QED  BY <1>1, <1>2, <1>3

LEMMA FramesCarry ==
    ASSUME PanelInv, CaptureFromQueue \/ CaptureFrame \/ HandleEnroll
    PROVE  Carried
PROOF
<1> USE DEF Covering, Quietly
<1>1. /\ UNCHANGED <<adds, removals, people, panel, photos>> /\ fresh' \in {fresh, fresh + 1}
    BY DEF CaptureFromQueue, CaptureFrame, HandleEnroll
<1>2. ASSUME NEW q, "kind" \in DOMAIN q, q.kind \in {"queue", "frame", "single"}, Ask(q) PROVE Carried
  <2>1. ShotKnown(q)  BY <1>2 DEF ShotKnown
  <2> QED  BY <1>1, <1>2, <2>1, PhotosEdited, CoverAsks
<1>3. CASE CaptureFromQueue
  <2> DEFINE q == [kind |-> "queue", at |-> "check", latest |-> TRUE, group |-> selected,
                   member |-> queue.members[queue.index], of |-> queue.persons[queue.index],
                   index |-> queue.index, status |-> queue.status, got |-> None]
  <2>1. "kind" \in DOMAIN q /\ q.kind = "queue"  OBVIOUS
  <2>2. Ask(q)  BY <1>3, Zenon DEF CaptureFromQueue
  <2> HIDE DEF q
  <2> QED  BY <1>2, <2>1, <2>2
<1>4. CASE CaptureFrame
  <2> DEFINE q == [kind |-> "frame", at |-> "check", latest |-> TRUE, id |-> fresh + 1, got |-> None]
  <2>1. "kind" \in DOMAIN q /\ q.kind = "frame"  OBVIOUS
  <2>2. Ask(q)  BY <1>4, Zenon DEF CaptureFrame
  <2> HIDE DEF q
  <2> QED  BY <1>2, <2>1, <2>2
<1>5. CASE HandleEnroll
  <2> DEFINE q == [kind |-> "single", at |-> "enroll", latest |-> TRUE, group |-> selected,
                   member |-> capture.member, of |-> capture.frame.of, id |-> capture.frame.id, got |-> None]
  <2>1. "kind" \in DOMAIN q /\ q.kind = "single"  OBVIOUS
  <2>2. Ask(q)  BY <1>5, Zenon DEF HandleEnroll
  <2> HIDE DEF q
  <2> QED  BY <1>2, <2>1, <2>2
<1> QED  BY <1>3, <1>4, <1>5

LEMMA FramesAnswered ==
    ASSUME PanelInv, NEW q \in shots, NEW found \in BOOLEAN,
           \/ CaptureChecked(q, found) \/ FrameChecked(q, found) \/ ServeShot(q) \/ QueueEnrolled(q) \/ FrameEnrolled(q)
    PROVE  Carried
PROOF
<1> USE DEF Covering, Quietly
<1>1. UNCHANGED <<adds, removals, people, photos, fresh>>
    BY DEF CaptureChecked, FrameChecked, ServeShot, QueueEnrolled, FrameEnrolled
<1>2. q.kind # "photos" /\ ShotKnown(q)
    BY DEF CaptureChecked, FrameChecked, ServeShot, QueueEnrolled, FrameEnrolled, PanelInv, DialogsKnown
<1>3. \/ Replied(q)
      \/ \E x : shots' = (shots \ {q}) \cup {[q EXCEPT !.got = x]}
      \/ \E x : shots' = (shots \ {q}) \cup {[q EXCEPT !.at = x]}
    BY Zenon DEF CaptureChecked, FrameChecked, ServeShot, QueueEnrolled, FrameEnrolled, Got
<1>4. \/ Replied(q)
      \/ \E s : ShotKnown(s) /\ shots' = (shots \ {q}) \cup {s}
    BY <1>2, <1>3, ShotEdited
<1>5. CASE panel' = panel  BY <1>1, <1>2, <1>4, <1>5, PhotosEdited, CoverReplied DEF PhotosOwe
<1>6. CASE FrameEnrolled(q) /\ RefreshMembers
  <2>1. \A s \in shots' : ShotKnown(s)  BY <1>4 DEF Replied, PanelInv, DialogsKnown
  <2>2. fresh' \in Nat  BY <1>1 DEF PanelInv, DialogsKnown
  <2> QED  BY <1>1, <1>6, <2>1, <2>2, PhotosEdited, CoverRefreshes
<1> QED  BY <1>5, <1>6 DEF CaptureChecked, FrameChecked, ServeShot, QueueEnrolled, FrameEnrolled

LEMMA PhotosUse ==
    ASSUME PanelInv,
           \/ \E s \in SUBSET ShownMembers : OpenPhotos(s)
           \/ ClosePhotos \/ ClearFiles \/ HandleBulkEnroll
           \/ \E p : PickFile(p)
           \/ \E f \in photos.found : EditFace(f)
    PROVE  Carried
PROOF
<1> USE DEF Covering, Quietly
<1>1. /\ "found" \in DOMAIN photos /\ \A f \in photos.found : "member" \in DOMAIN f
      /\ fresh \in Nat /\ \A q \in shots : ShotKnown(q)
    BY DEF PanelInv, DialogsKnown, PhotosKnown
<1>2. CASE (\E s \in SUBSET ShownMembers : OpenPhotos(s)) \/ ClosePhotos
  <2>1. /\ UNCHANGED <<adds, removals, people, panel, fresh>>
        /\ shots' = shots \/ shots' = Superseded(shots)
      BY <1>2, Zenon DEF OpenPhotos, ClosePhotos
  <2>2. "found" \in DOMAIN photos' /\ photos'.found = {}
    <3>1. CASE ClosePhotos  BY <3>1, NoPhotosKnown DEF ClosePhotos
    <3>2. CASE \E s \in SUBSET ShownMembers : OpenPhotos(s)
      <4>1. PICK s : photos' = [NoPhotos EXCEPT !.open = TRUE, !.among = s]  BY <3>2, Zenon DEF OpenPhotos
      <4> QED  BY <4>1, NoPhotosKnown
    <3> QED  BY <1>2, <3>1, <3>2
  <2>3. PhotosKnown'  BY <2>2 DEF PhotosKnown
  <2> QED  BY <2>1, <2>3, CoverKeeps
<1>3. CASE ClearFiles
  <2>1. UNCHANGED <<adds, removals, people, panel, fresh, shots>>  BY <1>3 DEF ClearFiles
  <2>2. "found" \in DOMAIN photos' /\ photos'.found = {}  BY <1>1, <1>3 DEF ClearFiles
  <2>3. PhotosKnown'  BY <2>2 DEF PhotosKnown
  <2> QED  BY <2>1, <2>3, CoverKeeps
<1>4. CASE HandleBulkEnroll
  <2> DEFINE ready == {f \in photos.found : f.member # None \/ f.new}
             q == [kind |-> "photos", at |-> "create", latest |-> TRUE, group |-> selected, faces |-> ready,
                   tried |-> {}, files |-> photos.files, created |-> {}, got |-> None]
  <2>1. UNCHANGED <<adds, removals, people, panel, fresh>> /\ Ask(q)  BY <1>4, Zenon DEF HandleBulkEnroll
  <2>2. photos' = [photos EXCEPT !.enrolling = TRUE]  BY <1>4 DEF HandleBulkEnroll
  <2>3. "found" \in DOMAIN photos' /\ photos'.found = photos.found  BY <1>1, <2>2
  <2>4. PhotosKnown'  BY <1>1, <2>3 DEF PhotosKnown
  <2>5. \A f \in ready : "member" \in DOMAIN f  BY <1>1
  <2> HIDE DEF ready
  <2>6. Fields(q, {"kind", "created", "faces", "at"}) /\ q.kind = "photos" /\ q.created = {} /\ q.faces = ready
      BY DEF Fields
  <2> HIDE DEF q
  <2>7. ShotKnown(q)  BY <2>5, <2>6 DEF ShotKnown, Fields
  <2> QED  BY <2>1, <2>4, <2>7, CoverAsks
<1>5. CASE \E p : PickFile(p)
  <2>1. PICK p : PickFile(p)  BY <1>5
  <2> DEFINE q == [kind |-> "detect", latest |-> TRUE, of |-> p, file |-> StartIndex + 1, got |-> None]
  <2>2. UNCHANGED <<adds, removals, people, panel>> /\ fresh' \in {fresh, fresh + 1} /\ Ask(q)
      BY <2>1 DEF PickFile
  <2>3. "found" \in DOMAIN photos' /\ photos'.found = photos.found  BY <1>1, <2>1 DEF PickFile
  <2>4. PhotosKnown'  BY <1>1, <2>3 DEF PhotosKnown
  <2>5. "kind" \in DOMAIN q /\ q.kind = "detect"  OBVIOUS
  <2> HIDE DEF q
  <2>6. ShotKnown(q)  BY <2>5 DEF ShotKnown
  <2> QED  BY <2>2, <2>4, <2>6, CoverAsks
<1>6. CASE \E f \in photos.found : EditFace(f)
  <2>1. PICK f \in photos.found : EditFace(f)  BY <1>6
  <2>2. UNCHANGED <<adds, removals, people, panel, shots>> /\ fresh' = fresh + 1  BY <2>1 DEF EditFace
  <2>3. PICK g : g = [f EXCEPT !.id = fresh + 1, !.new = ~@]  OBVIOUS
  <2>4. "member" \in DOMAIN g  BY <1>1, <2>3
  <2>5. photos' = [photos EXCEPT !.found = (@ \ {f}) \cup {g}]  BY <2>1, <2>3 DEF EditFace
  <2>6. "found" \in DOMAIN photos' /\ photos'.found = (photos.found \ {f}) \cup {g}  BY <1>1, <2>5
  <2>7. PhotosKnown'  BY <1>1, <2>4, <2>6 DEF PhotosKnown
  <2>8. fresh' \in Nat  BY <1>1, <2>2
  <2> QED  BY <1>1, <2>2, <2>7, <2>8, CoverCarries
<1> QED  BY <1>2, <1>3, <1>4, <1>5, <1>6

LEMMA FacesDetectedCarries ==
    ASSUME PanelInv, NEW q \in shots, NEW found \in BOOLEAN, FacesDetected(q, found)
    PROVE  Carried
PROOF
<1>1. /\ UNCHANGED <<adds, removals, people, panel>> /\ fresh' = fresh + 1
      /\ Replied(q) /\ q.kind = "detect"
    BY DEF FacesDetected, Quietly
<1>2. PICK known, matched, face :
          /\ face = [id |-> fresh + 1, of |-> q.of, file |-> q.file, new |-> matched = {},
                     member |-> IF matched = {} THEN None ELSE CHOOSE m \in matched : TRUE]
          /\ photos' = IF ~q.latest THEN photos
                       ELSE [photos EXCEPT !.detecting = FALSE, !.found = IF found THEN @ \cup {face} ELSE @]
    BY ZenonT(60) DEF FacesDetected
<1>3. "member" \in DOMAIN face  BY <1>2
<1>4. "found" \in DOMAIN photos /\ \A f \in photos.found : "member" \in DOMAIN f
    BY DEF PanelInv, DialogsKnown, PhotosKnown
<1>5. "found" \in DOMAIN photos' /\ photos'.found \subseteq photos.found \cup {face}
  <2>1. CASE ~q.latest  BY <1>2, <1>4, <2>1
  <2>2. CASE q.latest /\ found  BY <1>2, <1>4, <2>2
  <2>3. CASE q.latest /\ ~found  BY <1>2, <1>4, <2>3
  <2> QED  BY <2>1, <2>2, <2>3
<1>6. PhotosKnown'  BY <1>3, <1>4, <1>5 DEF PhotosKnown
<1> QED  BY <1>1, <1>6, CoverReplied DEF PhotosOwe

\* A request for many photos goes on.
LEMMA PhotosGoOn ==
    ASSUME NEW q, ShotKnown(q), q.kind = "photos", NEW x
    PROVE  /\ ShotKnown([q EXCEPT !.at = x]) /\ (PhotosOwe(q) => PhotosOwe([q EXCEPT !.at = x]))
           /\ ShotKnown([q EXCEPT !.got = x]) /\ (PhotosOwe(q) => PhotosOwe([q EXCEPT !.got = x]))
           /\ ShotKnown([q EXCEPT !.tried = x]) /\ (PhotosOwe(q) => PhotosOwe([q EXCEPT !.tried = x]))
PROOF
<1>1. \A s : DOMAIN s = DOMAIN q /\ s.kind = q.kind /\ s.created = q.created /\ s.faces = q.faces
             => ShotKnown(s) /\ (PhotosOwe(q) => PhotosOwe(s))
    BY DEF ShotKnown, Fields, PhotosOwe
<1>2. /\ DOMAIN [q EXCEPT !.at = x] = DOMAIN q /\ [q EXCEPT !.at = x].kind = q.kind
      /\ [q EXCEPT !.at = x].created = q.created /\ [q EXCEPT !.at = x].faces = q.faces
    BY DEF ShotKnown, Fields
<1>3. /\ DOMAIN [q EXCEPT !.got = x] = DOMAIN q /\ [q EXCEPT !.got = x].kind = q.kind
      /\ [q EXCEPT !.got = x].created = q.created /\ [q EXCEPT !.got = x].faces = q.faces
    BY DEF ShotKnown, Fields
<1>4. /\ DOMAIN [q EXCEPT !.tried = x] = DOMAIN q /\ [q EXCEPT !.tried = x].kind = q.kind
      /\ [q EXCEPT !.tried = x].created = q.created /\ [q EXCEPT !.tried = x].faces = q.faces
    BY DEF ShotKnown, Fields
<1> QED  BY <1>1, <1>2, <1>3, <1>4

LEMMA PreparedCarries ==
    ASSUME PanelInv, NEW q \in shots, PrepareFaces(q)
    PROVE  Carried
PROOF
<1>1. UNCHANGED <<adds, removals, people, fresh>> /\ q.kind = "photos"
      /\ panel' = [panel EXCEPT !.shown = @ \cup q.created]
    BY DEF PrepareFaces, Covering
<1>2. ShotKnown(q) /\ fresh' \in Nat /\ \A s \in shots : ShotKnown(s)  BY <1>1 DEF PanelInv, DialogsKnown
<1>3. "found" \in DOMAIN photos' /\ photos'.found = photos.found
    BY DEF PrepareFaces, PanelInv, DialogsKnown, PhotosKnown
<1>4. PhotosKnown'  BY <1>3 DEF PhotosKnown, PanelInv, DialogsKnown
<1>5. PICK s : s = [q EXCEPT !.at = "enroll"]  OBVIOUS
<1>6. ShotKnown(s) /\ (PhotosOwe(q) => PhotosOwe(s))  BY <1>1, <1>2, <1>5, PhotosGoOn
<1>7. shots' = (shots \ {q}) \cup {s} \/ (shots' = shots \ {q} /\ \A f \in q.faces : f.member = None)
    BY <1>5 DEF PrepareFaces, Replied
<1>8. shots' = (shots \ {q}) \cup {s} \/ (shots' = shots \ {q} /\ q.created = {})
    BY <1>1, <1>2, <1>7 DEF ShotKnown
<1>9. DialogsKnown'
  <2>1. \A t \in shots' : ShotKnown(t)  BY <1>2, <1>6, <1>8
  <2> QED  BY <1>1, <1>2, <1>4, <2>1, CoverKnown
<1>10. Fields(panel', PanelFields)  BY <1>1, PanelEdited DEF PanelInv, PanelKnown
<1>11. CASE q.created = {}
  <2>1. Unmoved  BY <1>1, <1>11 DEF Unmoved, PanelInv, PanelKnown, Fields, PanelFields
  <2>2. (\E t \in shots : PhotosOwe(t)) => \E t \in shots' : PhotosOwe(t)  BY <1>8, <1>11 DEF PhotosOwe
  <2>3. Owed => Owed'  BY <1>1, <2>2, OwedStill DEF Owed
  <2> QED  BY <1>1, <1>9, <1>10, <2>1, <2>3 DEF Carried
<1>12. CASE q.created # {}
  <2>1. s \in shots' /\ PhotosOwe(s)  BY <1>1, <1>6, <1>8, <1>12 DEF PhotosOwe
  <2>2. Owed'  BY <2>1, OwedStill
  <2> QED  BY <1>9, <1>10, <2>2 DEF Carried
<1> QED  BY <1>11, <1>12

LEMMA ServePhotosCarries ==
    ASSUME PanelInv, NEW q \in shots, ServePhotos(q)
    PROVE  Carried
PROOF
<1>1. UNCHANGED <<adds, removals, people, panel, photos, fresh>> /\ q.kind = "photos"  BY DEF ServePhotos
<1>2. ShotKnown(q) /\ fresh' \in Nat /\ \A s \in shots : ShotKnown(s)  BY <1>1 DEF PanelInv, DialogsKnown
<1>3. PICK x : shots' = (shots \ {q}) \cup {[q EXCEPT !.got = x]}  BY Zenon DEF ServePhotos, Got
<1>4. PICK s : s = [q EXCEPT !.got = x]  OBVIOUS
<1>5. ShotKnown(s) /\ (PhotosOwe(q) => PhotosOwe(s))  BY <1>1, <1>2, <1>4, PhotosGoOn
<1>6. /\ \A t \in shots' : ShotKnown(t)
      /\ (\E t \in shots : PhotosOwe(t)) => \E t \in shots' : PhotosOwe(t)
    BY <1>2, <1>3, <1>4, <1>5
<1> QED  BY <1>1, <1>2, <1>6, PhotosEdited, CoverCarries

LEMMA PhotosEnrolledCarries ==
    ASSUME PanelInv, NEW q \in shots, PhotosEnrolled(q)
    PROVE  Carried
PROOF
<1>1. UNCHANGED <<adds, removals, people, fresh>> /\ q.kind = "photos" /\ shots' = shots \ {q}
    BY DEF PhotosEnrolled, Replied
<1>2. fresh' \in Nat /\ \A s \in shots' : ShotKnown(s)  BY <1>1 DEF PanelInv, DialogsKnown
<1>3. "found" \in DOMAIN photos' /\ photos'.found = photos.found
    BY DEF PhotosEnrolled, PanelInv, DialogsKnown, PhotosKnown
<1>4. PhotosKnown'  BY <1>3 DEF PhotosKnown, PanelInv, DialogsKnown
<1>5. CASE q.got = "ok"
  <2>1. RefreshMembers  BY <1>5 DEF PhotosEnrolled
  <2> QED  BY <1>1, <1>2, <1>4, <2>1, CoverRefreshes
<1>6. CASE q.got # "ok" /\ q.created = {}
  <2>1. panel' = panel  BY <1>6 DEF PhotosEnrolled, Quietly
  <2>2. Replied(q)  BY <1>1 DEF Replied
  <2> QED  BY <1>1, <1>4, <1>6, <2>1, <2>2, CoverReplied DEF PhotosOwe
<1>7. CASE q.got # "ok" /\ q.created # {}
  <2>1. panel' = panel /\ "unseen" \in doubts'  BY <1>7 DEF PhotosEnrolled, Quietly
  <2>2. DialogsKnown'  BY <1>1, <1>2, <1>4, CoverKnown
  <2> QED  BY <2>1, <2>2 DEF Carried, Excused, PanelInv, PanelKnown
<1> QED  BY <1>5, <1>6, <1>7

LEMMA CreateForFaceCarries ==
    ASSUME PanelInv, NEW q \in shots, NEW face, CreateForFace(q, face)
    PROVE  Carried
PROOF
<1>1. UNCHANGED <<adds, removals, panel>> /\ fresh' = fresh + 1 /\ q.kind = "photos" /\ face \in q.faces
    BY DEF CreateForFace
<1>2. ShotKnown(q) /\ fresh \in Nat /\ fresh' \in Nat /\ \A s \in shots : ShotKnown(s)
    BY <1>1 DEF PanelInv, DialogsKnown
<1>3. "found" \in DOMAIN photos /\ \A f \in photos.found : "member" \in DOMAIN f
    BY DEF PanelInv, DialogsKnown, PhotosKnown
<1>4. "member" \in DOMAIN face  BY <1>1, <1>2 DEF ShotKnown
<1>5. PICK given : given = [face EXCEPT !.member = fresh + 1]  OBVIOUS
<1>6. "member" \in DOMAIN given /\ given.member = fresh + 1  BY <1>4, <1>5
<1>7. given.member # None  BY <1>2, <1>6, EnrollmentAssumption
<1>8. photos' \in {photos, [photos EXCEPT !.found = (@ \ {face}) \cup {given}]}
    BY <1>5, Zenon DEF CreateForFace
<1>9. PhotosKnown'
  <2>1. "found" \in DOMAIN photos' /\ photos'.found \subseteq photos.found \cup {given}  BY <1>3, <1>8
  <2> QED  BY <1>3, <1>6, <2>1 DEF PhotosKnown
<1>10. CASE /\ \E x : shots' = (shots \ {q}) \cup {[q EXCEPT !.tried = x]}
            /\ people' = people \/ "unseen" \in doubts'
  <2>1. PICK x, s : s = [q EXCEPT !.tried = x] /\ shots' = (shots \ {q}) \cup {s}  BY <1>10
  <2>2. ShotKnown(s) /\ (PhotosOwe(q) => PhotosOwe(s))  BY <1>1, <1>2, <2>1, PhotosGoOn
  <2>3. /\ \A t \in shots' : ShotKnown(t)
        /\ (\E t \in shots : PhotosOwe(t)) => \E t \in shots' : PhotosOwe(t)
      BY <1>2, <2>1, <2>2
  <2>4. CASE people' = people  BY <1>1, <1>2, <1>9, <2>3, <2>4, CoverCarries
  <2>5. CASE "unseen" \in doubts'
    <3>1. DialogsKnown'  BY <1>1, <1>2, <1>9, <2>3, CoverKnown
    <3> QED  BY <1>1, <2>5, <3>1 DEF Carried, Excused, PanelInv, PanelKnown
  <2> QED  BY <1>10, <2>4, <2>5
<1>11. CASE shots' = (shots \ {q}) \cup {[q EXCEPT !.faces = (@ \ {face}) \cup {given},
                                                   !.created = @ \cup {fresh + 1}]}
  <2>1. PICK t : t = [q EXCEPT !.faces = (@ \ {face}) \cup {given}, !.created = @ \cup {fresh + 1}]  OBVIOUS
  <2>2. DOMAIN t = DOMAIN q /\ t.kind = "photos" /\ t.created = q.created \cup {fresh + 1}
        /\ t.faces = (q.faces \ {face}) \cup {given}
      BY <1>1, <1>2, <2>1 DEF ShotKnown, Fields
  <2>3. ShotKnown(t)
    <3>1. "kind" \in DOMAIN t /\ Fields(t, {"created", "faces", "at"})  BY <1>1, <1>2, <2>2 DEF ShotKnown, Fields
    <3>2. \A f \in t.faces : "member" \in DOMAIN f  BY <1>1, <1>2, <1>6, <2>2 DEF ShotKnown
    <3>3. given \in t.faces  BY <2>2
    <3> QED  BY <1>7, <3>1, <3>2, <3>3 DEF ShotKnown
  <2>4. PhotosOwe(t)  BY <2>2 DEF PhotosOwe
  <2>5. \A s \in shots' : ShotKnown(s)  BY <1>2, <1>11, <2>1, <2>3
  <2>6. DialogsKnown'  BY <1>1, <1>2, <1>9, <2>5, CoverKnown
  <2>7. Owed'  BY <1>11, <2>1, <2>4, OwedStill
  <2> QED  BY <1>1, <2>6, <2>7 DEF Carried, PanelInv, PanelKnown
<1>12. \/ /\ \E x : shots' = (shots \ {q}) \cup {[q EXCEPT !.tried = x]}
          /\ people' = people \/ "unseen" \in doubts'
       \/ shots' = (shots \ {q}) \cup {[q EXCEPT !.faces = (@ \ {face}) \cup {given}, !.created = @ \cup {fresh + 1}]}
    BY <1>5, Zenon DEF CreateForFace
<1> QED  BY <1>10, <1>11, <1>12

\* A removal on its way owes a refresh, and when it is answered asks for it or is put back.
LEMMA RemovalsCarry ==
    ASSUME PanelInv,
           \/ \E s \in SUBSET ShownMembers : RemoveMembers(s)
           \/ \E d \in removals : ServeRemoval(d) \/ RemovalAnswered(d)
           \/ \E f \in faces : ResetFace(f)
    PROVE  Carried
PROOF
<1>1. UNCHANGED <<adds, shots, photos, fresh>>
    BY DEF RemoveMembers, ServeRemoval, RemovalAnswered, ResetFace, Covering
<1>2. fresh' \in Nat /\ PhotosKnown' /\ \A q \in shots' : ShotKnown(q)
    BY <1>1, PhotosEdited DEF PanelInv, DialogsKnown
<1>3. DialogsKnown'  BY <1>1, <1>2, CoverKnown
<1>4. CASE \E s \in SUBSET ShownMembers : RemoveMembers(s)
  <2>1. removals' # {}  BY <1>4 DEF RemoveMembers
  <2>2. PICK x : panel' = [panel EXCEPT !.shown = x]  BY <1>4 DEF RemoveMembers
  <2>3. Fields(panel', PanelFields)  BY <2>2, PanelEdited DEF PanelInv, PanelKnown
  <2> QED  BY <1>3, <2>1, <2>3, OwedStill DEF Carried
<1>5. CASE \E d \in removals : ServeRemoval(d)
  <2>1. removals' # {} /\ panel' = panel  BY <1>5 DEF ServeRemoval
  <2> QED  BY <1>3, <2>1, OwedStill DEF Carried, PanelInv, PanelKnown
<1>6. CASE \E d \in removals : RemovalAnswered(d)
  <2>1. RefreshMembers \/ ("undone" \in doubts' /\ \E x : panel' = [panel EXCEPT !.shown = x])
      BY <1>6 DEF RemovalAnswered
  <2>2. CASE RefreshMembers  BY <1>1, <1>2, <2>2, CoverRefreshes
  <2>3. CASE "undone" \in doubts' /\ \E x : panel' = [panel EXCEPT !.shown = x]
    <3>0. PICK x : panel' = [panel EXCEPT !.shown = x]  BY <2>3
    <3>1. Fields(panel', PanelFields)  BY <3>0, PanelEdited DEF PanelInv, PanelKnown
    <3> QED  BY <1>3, <2>3, <3>1 DEF Carried, Excused
  <2> QED  BY <2>1, <2>2, <2>3
<1>7. CASE \E f \in faces : ResetFace(f)
  <2>1. RefreshMembers  BY <1>7 DEF ResetFace
  <2> QED  BY <1>1, <1>2, <2>1, CoverRefreshes
<1> QED  BY <1>4, <1>5, <1>6, <1>7

LEMMA CoversSettle ==
    ASSUME PanelInv, CoverNext
    PROVE  PanelInv'
PROOF
<1>1. Carried
  <2>1. CASE \/ \E s \in SUBSET ShownMembers : OpenQueue(s)
             \/ CloseQueue \/ MoveQueue \/ RetryInQueue \/ SkipInQueue \/ ShowCompletion
             \/ \E i \in queue.jumps : JumpToNext(i)
             \/ \E m \in ShownMembers : JumpToEnrollment(m)
             \/ CloseCapture \/ RetakeFrame
      BY <2>1, CameraCarries
  <2>2. CASE CaptureFromQueue \/ CaptureFrame \/ HandleEnroll  BY <2>2, FramesCarry
  <2>3. CASE \/ \E s \in SUBSET ShownMembers : OpenPhotos(s)
             \/ ClosePhotos \/ ClearFiles \/ HandleBulkEnroll
             \/ \E p : PickFile(p)
             \/ \E f \in photos.found : EditFace(f)
      BY <2>3, PhotosUse
  <2>4. CASE \E q \in shots, found \in BOOLEAN : CaptureChecked(q, found) \/ FrameChecked(q, found)
      BY <2>4, FramesAnswered
  <2>5. CASE \E q \in shots, found \in BOOLEAN : FacesDetected(q, found)  BY <2>5, FacesDetectedCarries
  <2>6. CASE \E q \in shots : ServeShot(q) \/ QueueEnrolled(q) \/ FrameEnrolled(q)
    <3>1. PICK q \in shots : ServeShot(q) \/ QueueEnrolled(q) \/ FrameEnrolled(q)  BY <2>6
    <3> QED  BY <3>1, FramesAnswered
  <2>7. CASE \E q \in shots : PrepareFaces(q) \/ ServePhotos(q) \/ PhotosEnrolled(q)
      BY <2>7, PreparedCarries, ServePhotosCarries, PhotosEnrolledCarries
  <2>8. CASE \E q \in shots : q.kind = "photos" /\ \E f \in q.faces : CreateForFace(q, f)
      BY <2>8, CreateForFaceCarries
  <2>9. CASE \/ \E s \in SUBSET ShownMembers : RemoveMembers(s)
             \/ \E d \in removals : ServeRemoval(d) \/ RemovalAnswered(d)
             \/ \E f \in faces : ResetFace(f)
      BY <2>9, RemovalsCarry
  <2> QED  BY <2>1, <2>2, <2>3, <2>4, <2>5, <2>6, <2>7, <2>8, <2>9, Zenon DEF CoverNext
<1> QED  BY <1>1, CoversAreAside, DialogSettles

LEMMA PanelStart == Init => PanelInv
PROOF
<1> SUFFICES ASSUME Init PROVE PanelInv  OBVIOUS
<1>1. refreshes = {} /\ adds = {} /\ shots = {}  BY DEF Init, PanelInit, EnrollInit, CoverInit
<1>2. fresh \in Nat
  <2>1. fresh = MaxRows + 1  BY Zenon DEF Init, EnrollInit
  <2> QED  BY <2>1, EnrollmentAssumption
<1>3. PhotosKnown
  <2>1. photos = NoPhotos \/ photos = [NoPhotos EXCEPT !.open = TRUE, !.among = panel.shown]
      BY DEF Init, CoverInit
  <2>2. "found" \in DOMAIN photos /\ photos.found = {}
    <3>1. CASE photos = NoPhotos  BY <3>1, NoPhotosKnown
    <3>2. CASE photos = [NoPhotos EXCEPT !.open = TRUE, !.among = panel.shown]  BY <3>2, NoPhotosKnown
    <3> QED  BY <2>1, <3>1, <3>2
  <2> QED  BY <2>2 DEF PhotosKnown
<1>4. DialogsKnown  BY <1>1, <1>2, <1>3 DEF DialogsKnown
<1>5. current = None \/ current \in Groups  BY DEF Init, PanelInit
<1>6. CASE /\ panel = [EmptyPanel EXCEPT !.loading = current # None]
           /\ loads = IF current = None THEN {}
                      ELSE {[group |-> current, latest |-> TRUE, delay |-> FALSE, got |-> None]}
  <2>1. Fields(panel, PanelFields)  BY <1>6, PanelRecords
  <2>2. CASE current = None
    <3>1. loads = {}  BY <1>6, <2>2
    <3>2. Quiet(panel) /\ panel.shown = {}
      <4>1. panel.shown = {}  BY <1>6 DEF EmptyPanel
      <4>2. Quiet(panel)
        <5>1. ~panel.refreshing /\ ~panel.pending  BY <1>6, Zenon DEF EmptyPanel
        <5>2. panel.loading = (current # None)  BY <1>6, Zenon DEF EmptyPanel
        <5> QED  BY <2>2, <5>1, <5>2, Zenon DEF Quiet
      <4> QED  BY <4>1, <4>2
    <3> QED  BY <1>1, <1>4, <2>1, <2>2, <3>1, <3>2
             DEF PanelInv, PanelKnown, Due, Right, LoadedRight, Shows
  <2>3. CASE current # None
    <3> DEFINE l == [group |-> current, latest |-> TRUE, delay |-> FALSE, got |-> None]
    <3>1. l.latest  BY Zenon
    <3>2. Fields(l, {"group", "latest", "delay", "got"}) /\ l.group = current /\ l.got = None  BY DEF Fields
    <3> HIDE DEF l
    <3>3. loads = {l}  BY <1>6, <2>3 DEF l
    <3>4. Right  BY <3>1, <3>2, <3>3 DEF Right, LoadedRight, Loading, IsCurrentRequest
    <3> QED  BY <1>1, <1>4, <1>5, <2>1, <2>3, <3>2, <3>3, <3>4 DEF PanelInv, PanelKnown, Due
  <2> QED  BY <2>2, <2>3
<1>7. CASE current # None /\ panel = [EmptyPanel EXCEPT !.shown = MembersOf(current)] /\ loads = {}
  <2>1. Fields(panel, PanelFields) /\ panel.shown = MembersOf(current)
      BY <1>7 DEF EmptyPanel, Fields, PanelFields
  <2>2. Quiet(panel)  BY <1>7, Zenon DEF EmptyPanel, Quiet
  <2> QED  BY <1>1, <1>4, <1>7, <2>1, <2>2 DEF PanelInv, PanelKnown, Due, Right, LoadedRight, Shows
<1> QED  BY <1>6, <1>7 DEF Init, PanelInit

LEMMA PanelStep == GroupsKnown /\ PanelInv /\ [Next]_desktopVars /\ fresh' \in Nat => PanelInv'
PROOF
<1> SUFFICES ASSUME GroupsKnown, PanelInv, [Next]_desktopVars, fresh' \in Nat PROVE PanelInv'  OBVIOUS
<1>1. ASSUME PanelNext \/ PanelUse, FormFollows, CoversFollow PROVE PanelInv'
  <2>1. DialogsKnown' /\ (Owed => Owed')  BY <1>1, DialogsFollow DEF PanelInv
\* What is due stays due, whatever is owed.
  <2>2. PanelKnown' /\ (Due => Due')
    <3>1. CASE \E l \in loads : ShowSkeleton(l) \/ ServeLoad(l) \/ AnswerLoad(l) \/ FailLoad(l)
        BY <3>1, LoadSettles DEF PanelInv
    <3>2. CASE \E r \in refreshes : ServeList(r) \/ AnswerRefresh(r) \/ FailRefresh(r) \/ AnswerList(r)
        BY <3>2, ServeListSettles, AnswerRefreshSettles, FailRefreshSettles, AnswerListSettles DEF PanelInv
    <3>3. CASE DataChanged \/ Retry \/ OpenSettings \/ CloseSettings  BY <3>3, SettingsSettle DEF PanelInv
    <3>4. CASE OpenRules \/ CloseRules \/ SaveSettings \/ \E s \in saves : SaveSettles(s)
        BY <3>4, RulesSettle DEF PanelInv
    <3>5. CASE \E g \in Groups : SelectGroup(g) \/ SelectInSettings(g) \/ CreateGroup(g) \/ DeleteGroup(g)
        BY <3>5, SelectSettles, GroupsSettle, DeleteGroupSettles DEF PanelInv
    <3> QED  BY <1>1, <3>1, <3>2, <3>3, <3>4, <3>5 DEF PanelNext, PanelUse
  <2> QED  BY <2>1, <2>2 DEF PanelInv
<1>2. CASE EnrollNext /\ UNCHANGED coverVars  BY <1>2, FormSettles
<1>3. CASE CoverNext  BY <1>3, CoversSettle
<1>4. CASE UNCHANGED desktopVars
  <2>1. UNCHANGED <<people, current, panel, loads, refreshes, doubts, adds, shots, removals, photos, fresh>>
      BY <1>4 DEF desktopVars, panelVars, enrollVars, coverVars, service, choice, asked
  <2>2. PanelKnown' /\ (Due => Due')  BY <2>1, DueKept DEF PanelInv
  <2>3. DialogsKnown'  BY <2>1, PhotosEdited, DialogsKept DEF PanelInv, DialogsKnown
  <2>4. Owed => Owed'  BY <2>1, OwedStill DEF Owed
  <2> QED  BY <2>2, <2>3, <2>4 DEF PanelInv
<1> QED  BY <1>1, <1>2, <1>3, <1>4 DEF Next

(***************************************************************************)
(* The results.                                                            *)
(***************************************************************************)
\* However the answers of the cameras, the timers and the user interleave, the
\* only stream that is open is the one the page holds, and a page that shows no
\* preview holds none.
THEOREM NoCameraFilmsUnseen == EnrollmentCameraSpec => []CameraReleased
<1>1. CameraInv => CameraReleased
  <2> SUFFICES ASSUME CameraInv PROVE CameraReleased
    OBVIOUS
  <2>1. streamRef # NoCamera => VideoMounted /\ (facePage.at = "leaving" \/ ~facePage.info)
    BY DEF CameraInv, HeldByAttempt, StartedOnPage
  <2> QED
    BY <2>1 DEF CameraInv, HeldByAttempt, CameraReleased, VideoMounted, Needs
<1> QED
  BY <1>1, InitCamera, CameraStep, PTL DEF EnrollmentCameraSpec

\* A preview that is ready is the selected camera's, except after the slips that
\* the property names.
THEOREM PreviewIsSelected == EnrollmentCameraSpec => []ShowsSelected
<1>1. CameraInv => ShowsSelected
  BY DEF CameraInv, ReadyStarted, ForSelected, ShowsSelected
<1> QED
  BY <1>1, InitCamera, CameraStep, PTL DEF EnrollmentCameraSpec

\* A page of rules whose saves are settled shows what the service has
\* (GroupSettings.saveSettings, useGroupData): for any groups, however often
\* pages are opened, closed, changed and saved, rules are imported, and in whatever
\* order lists, answers and failures come in between.  An import puts an open page
\* behind only until it is saved or opened anew.
THEOREM PageShowsRules == Spec => []RulesAsSaved
PROOF
<1>1. RulesInv => RulesAsSaved
  <2> SUFFICES ASSUME RulesInv, page.group # None, \A s \in saves : s.group # page.group,
                      ~behind, doubts \cap {"outdated", "crossed", "unsure"} = {}
               PROVE  page.shown = rules[page.group]
      BY DEF RulesAsSaved
  <2>1. \A s \in saves : s.visit # page.visit  BY DEF RulesInv, PageInv, VisitsTold
  <2>2. page.shown = page.confirmed  BY <2>1 DEF RulesInv, PageInv, LastSettlesLast
  <2> QED  BY <2>2 DEF RulesInv, PageInv, ConfirmedIsSaved, Sure
<1> QED  BY <1>1, RulesAlways, PTL

================================================================================
