--------------------------- MODULE EnrollmentCamera ---------------------------
(***************************************************************************)
(* The camera of the enrollment pages (useCamera), as FaceCapture uses it: *)
(* its starts, their cancellation while a camera is still asked for, the   *)
(* choice of another camera (CameraFeed) and cameras that are pulled out.  *)
(*                                                                         *)
(* A step is the code between two awaits, with the effects of the render   *)
(* it causes.  A camera that is asked for cannot be taken back: it may     *)
(* open long after nobody wants it.  Nobody pulls out or plugs in a camera *)
(* in the 300 ms after another one was chosen.                             *)
(***************************************************************************)
EXTENDS Integers, Sequences, FiniteSets

CONSTANTS
    Cameras,        \* the cameras there may be
    NoCamera,       \* none of them
    MaxOpened,      \* bound on how often the page is opened
    MaxPicked,      \* bound on cameras chosen
    MaxSwitched,    \* bound on what else the user does on the page
    MaxMalfunctions \* bound on cameras that fail, stall or are plugged in or out

ASSUME EnrollmentCameraAssumption ==
    /\ NoCamera \notin Cameras /\ IsFiniteSet(Cameras)
    /\ {MaxOpened, MaxPicked, MaxSwitched, MaxMalfunctions} \subseteq Nat

VARIABLES
    facePage,       \* FaceCapture: the source, what covers its preview and whether it leaves the screen
    plugged,        \* external: the cameras the computer has
    attempt,        \* cameraAttemptRef and isStartingRef, and the camera it is for
    streamRef,      \* the camera that streams
    late,           \* cancelled getUserMedia requests that are not answered
    lit,            \* external: streams that are open
    feed,           \* isStreaming, isVideoReady, isRecovering and cameraError
    selectedCamera,
    savedCamera,    \* selectedCamera in the settings file
    reading,        \* it is being read: what the answer will be
    restarts,       \* timers of CameraFeed after a choice
    slips,          \* history: why another camera than the selected one may stream
    opened, picked, switched, malfunctions

cameraRefs == <<attempt, streamRef, late, lit>>
choiceVars == <<selectedCamera, savedCamera, reading, restarts, slips>>
enrollmentBounds == <<opened, picked, switched, malfunctions>>
enrollmentCameraVars == <<facePage, plugged, cameraRefs, feed, choiceVars, enrollmentBounds>>

ClosedPage == [at |-> "closed", live |-> TRUE, info |-> FALSE, framed |-> FALSE]
NoAttempt == [at |-> "none", camera |-> NoCamera]
NoFeed == [streaming |-> FALSE, ready |-> FALSE, recovering |-> FALSE, error |-> FALSE]

EnrollmentCameraInit ==
    /\ facePage = ClosedPage
    /\ plugged \in SUBSET Cameras
    /\ attempt = NoAttempt /\ streamRef = NoCamera /\ late = 0 /\ lit = 0
    /\ feed = NoFeed
    /\ selectedCamera = NoCamera
    /\ savedCamera \in Cameras \cup {NoCamera}
    /\ reading = NoCamera
    /\ restarts = <<>>
    /\ slips = {}
    /\ opened = 0 /\ picked = 0 /\ switched = 0 /\ malfunctions = 0

Malfunction == malfunctions < MaxMalfunctions /\ malfunctions' = malfunctions + 1
                   /\ UNCHANGED <<opened, picked, switched>>
Switch == switched < MaxSwitched /\ switched' = switched + 1 /\ UNCHANGED <<opened, picked, malfunctions>>

(***************************************************************************)
(* The page.                                                               *)
(***************************************************************************)
\* The preview is what the page is for right now; with a frame taken it is not.
Needs(p) == p.at = "open" /\ p.live /\ ~p.info /\ ~p.framed

\* The video element; it stays while the page fades out.
VideoMounted == facePage.at \in {"open", "leaving"} /\ facePage.live /\ ~facePage.framed

Starting == attempt.at \in {"devices", "media", "play"}

(***************************************************************************)
(* Release and start.                                                      *)
(***************************************************************************)
\* The cancelled request goes on.
ReleaseCamera ==
    /\ attempt' = NoAttempt
    /\ late' = IF attempt.at = "media" THEN late + 1 ELSE late
    /\ lit' = IF streamRef = NoCamera THEN lit ELSE lit - 1
    /\ streamRef' = NoCamera

StopCamera == ReleaseCamera /\ feed' = NoFeed
FailPreview == ReleaseCamera /\ feed' = [NoFeed EXCEPT !.error = TRUE]

\* startCamera up to its first await; ignored while it starts or streams.
StartCamera(camera) ==
    IF Starting \/ streamRef # NoCamera
    THEN UNCHANGED <<cameraRefs, feed>>
    ELSE /\ attempt' = [at |-> "devices", camera |-> camera]
         /\ feed' = [NoFeed EXCEPT !.streaming = TRUE]
         /\ UNCHANGED <<streamRef, late, lit>>

\* Effect: what the page shows now needs no preview.
PageChanges(p) ==
    /\ facePage' = p
    /\ IF Needs(p) THEN UNCHANGED <<cameraRefs, feed>> ELSE StopCamera

\* Effect: 100 ms after the preview is needed.
AutoStart ==
    /\ Needs(facePage) /\ ~feed.streaming /\ ~feed.error
    /\ StartCamera(selectedCamera)
    /\ UNCHANGED <<facePage, plugged, choiceVars, enrollmentBounds>>

\* The camera that was wished for, or else one that is there, which is selected then.
Usable(wished) == IF wished \in plugged THEN {wished} ELSE plugged

GetCameraDevices ==
    /\ attempt.at = "devices"
    /\ \/ /\ VideoMounted
          /\ \E camera \in Usable(attempt.camera) :
                 /\ attempt' = [at |-> "media", camera |-> camera]
                 /\ selectedCamera' = IF camera = attempt.camera THEN selectedCamera ELSE camera
                 /\ savedCamera' = IF camera = attempt.camera THEN savedCamera ELSE camera
          /\ UNCHANGED <<streamRef, late, lit, feed, malfunctions>>
       \/ /\ plugged = {} \/ ~VideoMounted
          /\ FailPreview
          /\ UNCHANGED <<selectedCamera, savedCamera, malfunctions>>
    /\ UNCHANGED <<facePage, plugged, reading, restarts, slips, opened, picked, switched>>

GetUserMedia ==
    /\ attempt.at = "media" /\ attempt.camera \in plugged
    /\ attempt' = [attempt EXCEPT !.at = "play"]
    /\ streamRef' = attempt.camera
    /\ lit' = lit + 1
    /\ UNCHANGED <<facePage, plugged, late, feed, choiceVars, enrollmentBounds>>

\* A camera that is gone, refused or used by another program.
GetUserMediaFails ==
    /\ attempt.at = "media"
    /\ IF attempt.camera \in plugged THEN Malfunction ELSE UNCHANGED enrollmentBounds
    /\ attempt' = NoAttempt
    /\ feed' = [NoFeed EXCEPT !.error = TRUE]
    /\ UNCHANGED <<facePage, plugged, streamRef, late, lit, choiceVars>>

\* The answer to a cancelled request: its stream is stopped at once.
LateStreamKept == late > 0 /\ late' = late - 1 /\ lit' = lit + 1
ReleaseLate == late > 0 /\ late' = late - 1 /\ UNCHANGED lit

LateAnswer ==
    /\ ReleaseLate
    /\ UNCHANGED <<facePage, plugged, attempt, streamRef, feed, choiceVars, enrollmentBounds>>

\* waitForVideoReady of a start.
VideoReady ==
    /\ attempt.at = "play"
    /\ attempt' = [attempt EXCEPT !.at = "started"]
    /\ feed' = [feed EXCEPT !.ready = TRUE]
    /\ UNCHANGED <<facePage, plugged, streamRef, late, lit, choiceVars, enrollmentBounds>>

\* It gives up after 10 s, in a start and in a recovery.
VideoFails ==
    /\ attempt.at = "play" \/ feed.recovering
    /\ Malfunction
    /\ FailPreview
    /\ UNCHANGED <<facePage, plugged, choiceVars>>

\* checkPreview finds the video paused or empty, and resumes it.
CheckPreview ==
    /\ attempt.at = "started" /\ feed.ready
    /\ Malfunction
    /\ feed' = [feed EXCEPT !.ready = FALSE, !.recovering = TRUE]
    /\ UNCHANGED <<facePage, plugged, cameraRefs, choiceVars>>

PreviewResumes ==
    /\ feed.recovering
    /\ feed' = [feed EXCEPT !.ready = TRUE, !.recovering = FALSE]
    /\ UNCHANGED <<facePage, plugged, cameraRefs, choiceVars, enrollmentBounds>>

Plug(camera) ==
    /\ camera \notin plugged /\ restarts = <<>>
    /\ Malfunction
    /\ plugged' = plugged \cup {camera}
    /\ UNCHANGED <<facePage, cameraRefs, feed, choiceVars>>

\* track.onended.
TrackEnds(camera) ==
    /\ camera \in plugged /\ restarts = <<>>
    /\ Malfunction
    /\ plugged' = plugged \ {camera}
    /\ IF camera = streamRef THEN FailPreview ELSE UNCHANGED <<cameraRefs, feed>>
    /\ UNCHANGED <<facePage, choiceVars>>

(***************************************************************************)
(* What the user does.                                                     *)
(***************************************************************************)
\* FaceCapture for one member, perhaps with the explanation over it; the
\* camera that was used last is read from the settings.
OpenFacePage ==
    /\ facePage.at = "closed"
    /\ opened < MaxOpened /\ opened' = opened + 1
    /\ \E info \in BOOLEAN : facePage' = [ClosedPage EXCEPT !.at = "open", !.info = info]
    /\ selectedCamera' = NoCamera
    /\ reading' = savedCamera
    /\ slips' = {}
    /\ UNCHANGED <<plugged, cameraRefs, feed, savedCamera, restarts, picked, switched, malfunctions>>

SavedCameraRead ==
    /\ reading # NoCamera
    /\ reading' = NoCamera
    /\ selectedCamera' = reading
    /\ slips' = IF feed.streaming \/ restarts # <<>> THEN slips \cup {"readLate"} ELSE slips
    /\ UNCHANGED <<facePage, plugged, cameraRefs, feed, savedCamera, restarts, enrollmentBounds>>

HandleConfirmInfoModal ==
    /\ facePage.at = "open" /\ facePage.info
    /\ PageChanges([facePage EXCEPT !.info = FALSE])
    /\ UNCHANGED <<plugged, choiceVars, enrollmentBounds>>

OnPage == facePage.at = "open" /\ ~facePage.info

SwitchSource ==
    /\ OnPage /\ ~facePage.framed /\ Switch
    /\ PageChanges([facePage EXCEPT !.live = ~@])
    /\ UNCHANGED <<plugged, choiceVars>>

\* A face was found on the frame, or on the file that was dropped.
FrameTaken ==
    /\ OnPage /\ ~facePage.framed /\ (facePage.live => feed.ready) /\ Switch
    /\ PageChanges([facePage EXCEPT !.framed = TRUE])
    /\ UNCHANGED <<plugged, choiceVars>>

ResetWorkflow ==
    /\ OnPage /\ facePage.framed /\ Switch
    /\ facePage' = [facePage EXCEPT !.framed = FALSE]
    /\ IF facePage.live THEN StartCamera(selectedCamera) ELSE UNCHANGED <<cameraRefs, feed>>
    /\ UNCHANGED <<plugged, choiceVars>>

RetryCamera ==
    /\ OnPage /\ facePage.live /\ feed.error /\ Switch
    /\ StartCamera(selectedCamera)
    /\ UNCHANGED <<facePage, plugged, choiceVars>>

\* Another camera is chosen: the one that streams or starts is stopped, and
\* after 300 ms the other one is started, if the effect has not done that yet.
StopsWhenReady == feed.ready
Stops == feed.streaming

SetSelectedCamera(camera) ==
    /\ OnPage /\ VideoMounted /\ Cardinality(plugged) > 1 /\ camera \in plugged \ {selectedCamera}
    /\ picked < MaxPicked /\ picked' = picked + 1
    /\ selectedCamera' = camera /\ savedCamera' = camera
    /\ IF Stops
       THEN StopCamera /\ restarts' = Append(restarts, camera)
       ELSE UNCHANGED <<cameraRefs, feed, restarts>>
    /\ slips' = IF restarts = <<>> THEN slips ELSE slips \cup {"pickedTwice"}
    /\ UNCHANGED <<facePage, plugged, reading, opened, switched, malfunctions>>

RestartDue ==
    /\ restarts # <<>>
    /\ restarts' = Tail(restarts)
    /\ StartCamera(Head(restarts))
    /\ UNCHANGED <<facePage, plugged, selectedCamera, savedCamera, reading, slips, enrollmentBounds>>

\* Escape, or the end of an enrollment; the page fades out.
LeaveFacePage ==
    /\ facePage.at = "open"
    /\ PageChanges([facePage EXCEPT !.at = "leaving"])
    /\ UNCHANGED <<plugged, choiceVars, enrollmentBounds>>

\* Unmounted: timers find nothing to start, and answers nothing to set.
Unmount ==
    /\ facePage.at = "leaving"
    /\ facePage' = ClosedPage
    /\ StopCamera
    /\ reading' = NoCamera /\ restarts' = <<>>
    /\ UNCHANGED <<plugged, selectedCamera, savedCamera, slips, enrollmentBounds>>

EnrollmentCameraNext ==
    \/ AutoStart \/ GetCameraDevices \/ GetUserMedia \/ GetUserMediaFails \/ LateAnswer
    \/ VideoReady \/ VideoFails \/ CheckPreview \/ PreviewResumes
    \/ \E camera \in Cameras : Plug(camera) \/ TrackEnds(camera) \/ SetSelectedCamera(camera)
    \/ OpenFacePage \/ SavedCameraRead \/ HandleConfirmInfoModal \/ SwitchSource \/ FrameTaken
    \/ ResetWorkflow \/ RetryCamera \/ RestartDue \/ LeaveFacePage \/ Unmount

EnrollmentCameraSpec == EnrollmentCameraInit /\ [][EnrollmentCameraNext]_enrollmentCameraVars

(***************************************************************************)
(* What must hold.                                                         *)
(***************************************************************************)
\* No camera films unseen: whatever is cancelled, answered late, restarted by
\* a timer or pulled out, the only open stream is the one the page holds, and
\* it holds none but for a preview that it shows, or fades out with.
CameraReleased ==
    /\ lit = IF streamRef = NoCamera THEN 0 ELSE 1
    /\ streamRef # NoCamera => Needs(facePage) \/ facePage.at = "leaving"

\* A preview that is ready shows the camera that is selected: a choice made
\* while a camera starts is not lost to it.  Left out: a third camera chosen
\* before the timer of the last choice fires, which may then start the one
\* chosen before, and a saved choice that is read after a start or a choice.
ShowsSelected == feed.ready /\ slips = {} => streamRef = selectedCamera
===============================================================================
