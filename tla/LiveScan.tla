------------------------------- MODULE LiveScan -------------------------------
(***************************************************************************)
(* The scanning screen (app/src/components/main): the camera               *)
(* (useCameraControl, useVideoStream), the frame loop (useFaceDetection),  *)
(* the connection to the recognition service (WebSocketService,            *)
(* useBackendService), the results on display (useFaceRecognition) and     *)
(* what starts, pauses and resumes a scan (index.tsx).                     *)
(*                                                                         *)
(* The renderer is one JavaScript thread: a step is the code between two   *)
(* awaits, or the effects of one render.  A frame stands for the picture   *)
(* of one recognized face; which group it was scanned for is what matters. *)
(* The panel that loads the members of a group is external here: it is     *)
(* loading or it is ready.                                                 *)
(***************************************************************************)
EXTENDS Integers, Sequences

CONSTANTS
    Groups,         \* the groups that can be selected
    MaxActs,        \* bound on what the user does
    MaxTroubles,    \* bound on failures of camera, video, service and connection
    None            \* what is not there

ASSUME BoundsAssumption ==
    /\ Groups # {}
    /\ {MaxActs, MaxTroubles} \subseteq Nat
ASSUME NoneAssumption == None # "live"

VARIABLES
    cam,        \* the camera: its refs, the start in progress, the stream, the video
    waiting,    \* superseded starts that still wait for a camera
    open,       \* history: streams that are open
    frames,     \* the frame loop: detectionInFlightRef, the capture, the callback due
    link,       \* WebSocketService, and the messages on their way
    scanned,    \* the group the service has been configured for
    group,      \* currentGroup
    applied,    \* the group whose effects have run
    ready,      \* the panel has loaded the members of the group
    lookup,     \* performFaceRecognition waiting for a member
    shown,      \* the results on display
    screen,     \* what covers or hides the screen, and what was paused for it
    effects,    \* effects of the last render that have not run
    acts, troubles

user == <<screen, effects, acts>>
vars == <<cam, waiting, open, frames, link, scanned, group, applied, ready, lookup, shown,
          user, troubles>>

(***************************************************************************)
(* Values.                                                                 *)
(***************************************************************************)
NoCamera == [streaming |-> FALSE, start |-> "none", scanning |-> FALSE,
             stream |-> None, playing |-> FALSE]
NoFrame == [inFlight |-> FALSE, capture |-> FALSE, due |-> FALSE]
NoLink == [ws |-> "disconnected", up |-> <<>>, down |-> <<>>]

\* A frame goes out behind the configuration of its group, an answer is of the group
\* the service was configured for.  The window reads neither group off a message, nor
\* whether it is old: history.
Message(type, g) == [type |-> type, group |-> g, old |-> FALSE]
Config(g) == Message("config", g)
Frame(g) == Message("frame", g)

\* A new scan on the same connection: frames of earlier ones, and their answers, are
\* old.
Aged(messages) == [i \in DOMAIN messages |-> [messages[i] EXCEPT !.old = messages[i].type \in {"frame", "response"}]]

Starting == cam.start # "none"

\* isWebSocketReady.
IsWebSocketReady == link.ws = "connected"

Init ==
    /\ cam = NoCamera
    /\ waiting = 0
    /\ open = 0
    /\ frames = NoFrame
    /\ link = [NoLink EXCEPT !.ws = "connecting"]
    /\ scanned = None
    /\ group \in Groups
    /\ applied = group
    /\ ready = FALSE
    /\ lookup = None
    /\ shown = None
    /\ \E auto \in BOOLEAN :
           screen = [blocked |-> FALSE, minimized |-> FALSE, pausedFor |-> {}, recent |-> FALSE,
                     autoStart |-> auto]
    /\ effects = {}
    /\ acts = 0
    /\ troubles = 0

Act == acts < MaxActs /\ acts' = acts + 1
Trouble == troubles < MaxTroubles /\ troubles' = troubles + 1

(***************************************************************************)
(* stopCamera and startCamera.                                             *)
(***************************************************************************)
\* A stop is ignored while nothing streams or starts, unless it is forced.
StopIgnored(force) == ~force /\ ~cam.streaming /\ ~Starting

\* Everything is reset; a start that waits for a camera is superseded, and will
\* find that out.
Stop(force) ==
    IF StopIgnored(force) THEN UNCHANGED <<cam, waiting, open, frames>>
    ELSE /\ cam' = NoCamera
         /\ waiting' = IF cam.start \in {"acquire", "again"} THEN waiting + 1 ELSE waiting
         /\ open' = IF cam.stream = None THEN open ELSE open - 1
         /\ frames' = [frames EXCEPT !.inFlight = FALSE, !.capture = FALSE]

\* No detection is left on display.
StopCamera(force) == Stop(force) /\ shown' = IF StopIgnored(force) THEN shown ELSE None

\* getScanReadiness: the data and the selection are there.
CanStart == ready

\* updateLiveConfig, refreshActiveStream: a configuration is sent when the
\* connection is ready, and on opening otherwise.
Configured(l, g) == IF l.ws = "connected" THEN [l EXCEPT !.up = Append(@, Config(g))] ELSE l

\* startCameraGuarded and startCamera up to their first await.  A start too
\* soon after the last stop or start is ignored.
StartCamera ==
    IF ~CanStart \/ cam.streaming \/ Starting \/ screen.recent
    THEN UNCHANGED <<cam, frames, link>>
    ELSE /\ cam' = [cam EXCEPT !.streaming = TRUE,
                               !.start = IF IsWebSocketReady THEN "devices" ELSE "socket"]
         /\ frames' = [frames EXCEPT !.inFlight = FALSE, !.capture = FALSE]
         /\ link' = IF IsWebSocketReady
                    THEN Configured([link EXCEPT !.up = Aged(@), !.down = Aged(@)], applied)
                    ELSE [link EXCEPT !.ws = "connecting"]

\* A start that fails shows why and gives up what it acquired.
FailedStart ==
    /\ cam' = [NoCamera EXCEPT !.stream = IF cam.start = "socket" THEN cam.stream ELSE None,
                               !.playing = cam.start = "socket" /\ cam.playing]
    /\ open' = IF cam.start = "socket" \/ cam.stream = None THEN open ELSE open - 1

\* getCameraDevices: the list of cameras is new, and with it whatever depends
\* on startCamera; a stream that is still open is closed first.
GetCameraDevices ==
    /\ cam.start = "devices"
    /\ effects' = effects \cup {"blocking", "auto"}
    /\ \/ /\ cam' = [cam EXCEPT !.start = "acquire", !.stream = None, !.playing = FALSE]
          /\ open' = IF cam.stream = None THEN open ELSE open - 1
          /\ UNCHANGED troubles
       \/ FailedStart /\ Trouble
    /\ UNCHANGED <<waiting, frames, link, scanned, group, applied, ready, lookup, shown, screen, acts>>

\* getUserMedia: a stream, the wish for other constraints, or an error.
GetUserMedia ==
    /\ cam.start \in {"acquire", "again"}
    /\ \/ /\ cam' = [cam EXCEPT !.start = "video", !.stream = "live", !.playing = TRUE]
          /\ open' = open + 1
          /\ UNCHANGED troubles
       \/ /\ cam.start = "acquire"
          /\ cam' = [cam EXCEPT !.start = "again"]
          /\ UNCHANGED <<open, troubles>>
       \/ FailedStart /\ Trouble
    /\ UNCHANGED <<waiting, frames, link, scanned, group, applied, ready, lookup, shown, user>>

\* A seeded bug: the stream is kept although nobody waits for it.
KeptBySuperseded == 1

\* Streams that stay open when a superseded start gets one.
LeftBySuperseded == 0

\* isCurrentAttempt is false: the stream is stopped as soon as it is there.
SupersededStart ==
    /\ waiting > 0
    /\ waiting' = waiting - 1
    /\ open' = open + LeftBySuperseded
    /\ UNCHANGED <<cam, frames, link, scanned, group, applied, ready, lookup, shown, user, troubles>>

(***************************************************************************)
(* The frame loop.                                                         *)
(***************************************************************************)
\* What processCurrentFrame asks first.
MayProcess(c, l) == l.ws = "connected" /\ c.scanning /\ c.streaming

\* processCurrentFrame up to the capture: one frame at a time; a frame that is
\* skipped asks for the next.
Processed(f, c, l) ==
    IF ~MayProcess(c, l) \/ f.inFlight THEN {f}
    ELSE {[f EXCEPT !.inFlight = TRUE, !.capture = TRUE], [f EXCEPT !.due = TRUE]}

\* waitForVideoReady and the end of startCamera.  The video may never come.
VideoReady ==
    /\ cam.start = "video"
    /\ cam' = [cam EXCEPT !.start = "none", !.scanning = TRUE]
    /\ frames' \in Processed(frames, cam', link)
    /\ UNCHANGED <<waiting, open, link, scanned, group, applied, ready, lookup, shown, user, troubles>>

\* The deadline of ten seconds, or a stream that ended.
VideoFails ==
    /\ cam.start = "video"
    /\ Trouble
    /\ FailedStart
    /\ UNCHANGED <<waiting, frames, link, scanned, group, applied, ready, lookup, shown, user>>

\* The callback of requestAnimationFrame.
NextFrame ==
    /\ frames.due
    /\ frames' \in Processed([frames EXCEPT !.due = FALSE], cam, link)
    /\ UNCHANGED <<cam, waiting, open, link, scanned, group, applied, ready, lookup, shown, user, troubles>>

\* A seeded bug: a capture that fails ends the loop.
NotRetried == [frames EXCEPT !.inFlight = FALSE, !.capture = FALSE]

\* retry, when there is no picture or it cannot be sent.
Retried == [frames EXCEPT !.inFlight = FALSE, !.capture = FALSE, !.due = TRUE]

\* captureFrame has answered: the picture is sent for the group whose
\* configuration went ahead of it, unless the scan has ended with the video.
CaptureFrame ==
    /\ frames.capture
    /\ \/ /\ ~(cam.scanning /\ cam.streaming)
          /\ frames' = [frames EXCEPT !.capture = FALSE]
          /\ UNCHANGED <<link, troubles>>
       \/ /\ cam.scanning /\ cam.streaming /\ IsWebSocketReady
          /\ frames' = [frames EXCEPT !.capture = FALSE]
          /\ link' = [link EXCEPT !.up = Append(@, Frame(applied))]
          /\ UNCHANGED troubles
       \/ /\ cam.scanning /\ cam.streaming
          /\ IF IsWebSocketReady THEN Trouble ELSE UNCHANGED troubles
          /\ frames' = Retried
          /\ UNCHANGED link
    /\ UNCHANGED <<cam, waiting, open, scanned, group, applied, ready, lookup, shown, user>>

\* The watchdog: after five seconds without an answer the lock is taken back,
\* which is a failure of the service while the answer is still to come.
Watchdog ==
    /\ frames.inFlight /\ ~frames.capture /\ MayProcess(cam, link)
    /\ IF Len(link.up) + Len(link.down) > 0 THEN Trouble ELSE UNCHANGED troubles
    /\ frames' \in Processed([frames EXCEPT !.inFlight = FALSE], cam, link)
    /\ UNCHANGED <<cam, waiting, open, link, scanned, group, applied, ready, lookup, shown, user>>

(***************************************************************************)
(* The connection and the service at its other end.                        *)
(***************************************************************************)
\* onopen sends the configuration that waits.
Opened == [NoLink EXCEPT !.ws = "connected", !.up = <<Config(applied)>>]

\* waitForBackendReady and connectWebSocket, for the screen and for a start.
WebSocketOpens ==
    /\ link.ws = "connecting"
    /\ link' = Opened
    /\ scanned' = None
    /\ cam' = IF cam.start = "socket" THEN [cam EXCEPT !.start = "devices"] ELSE cam
    /\ frames' = [frames EXCEPT !.inFlight = FALSE]
    /\ effects' = effects \cup {"status"}
    /\ UNCHANGED <<waiting, open, group, applied, ready, lookup, shown, screen, acts, troubles>>

\* The service is not ready in time, or refuses: the start that waits gives up.
WebSocketFails ==
    /\ link.ws = "connecting"
    /\ Trouble
    /\ link' = NoLink
    /\ IF cam.start = "socket" THEN FailedStart ELSE UNCHANGED <<cam, open>>
    /\ UNCHANGED <<waiting, frames, scanned, group, applied, ready, lookup, shown, user>>

\* The service ends or disconnects its clients: what was on its way is lost, and
\* nothing but a start connects again.
WebSocketCloses ==
    /\ IsWebSocketReady
    /\ Trouble
    /\ link' = NoLink
    /\ frames' = [frames EXCEPT !.inFlight = FALSE]
    /\ UNCHANGED <<cam, waiting, open, scanned, group, applied, ready, lookup, shown, user>>

\* handle_websocket_detect takes one message after the other: a configuration
\* resets the group, the face in a frame is recognized among its members, or the
\* frame is answered with an error.
ServeConfig ==
    /\ link.up # <<>>
    /\ Head(link.up).type = "config"
    /\ scanned' = Head(link.up).group
    /\ link' = [link EXCEPT !.up = Tail(@)]
    /\ UNCHANGED <<cam, waiting, open, frames, group, applied, ready, lookup, shown, user, troubles>>

ServeFrame ==
    /\ link.up # <<>>
    /\ Head(link.up).type = "frame"
    /\ \E answer \in {[Head(link.up) EXCEPT !.type = "response", !.group = scanned],
                      Message("error", None)} :
           link' = [link EXCEPT !.up = Tail(@), !.down = Append(@, answer)]
    /\ UNCHANGED <<cam, waiting, open, frames, scanned, group, applied, ready, lookup, shown, user, troubles>>

\* What is left of the loop when a message has arrived: the lock is free, and
\* the next frame is asked for while the scan goes on.
Answered == [frames EXCEPT !.inFlight = FALSE, !.due = @ \/ (cam.streaming /\ cam.scanning)]

\* performFaceRecognition takes the group that is selected, whoever the face was
\* recognized among.  An answer is late when it is to a frame of an earlier scan, or
\* comes after a selection and before its effects.
Recognition(answer) ==
    [group |-> group, of |-> answer.group, late |-> answer.old \/ applied # group, stale |-> FALSE]

\* The handlers of detection_response and error.  A detection is handed to
\* performFaceRecognition, which makes any earlier one outdated.
Receive ==
    /\ link.down # <<>>
    /\ link' = [link EXCEPT !.down = Tail(@)]
    /\ frames' = Answered
    /\ lookup' = IF Head(link.down).type = "response" /\ cam.streaming /\ cam.scanning
                 THEN Recognition(Head(link.down)) ELSE lookup
    /\ UNCHANGED <<cam, waiting, open, scanned, group, applied, ready, shown, user, troubles>>

(***************************************************************************)
(* The results on display.                                                 *)
(***************************************************************************)
\* A seeded bug: only a newer recognition makes this one outdated.
OutdatedByNone == FALSE

\* isCurrentRequest: another group, or another cache of its members.
Outdated == lookup.group # group \/ lookup.stale

\* getMemberFromCache has answered.
MemberFound ==
    /\ lookup # None
    /\ lookup' = None
    /\ shown' = IF Outdated THEN shown ELSE [of |-> lookup.of, late |-> lookup.late]
    /\ UNCHANGED <<cam, waiting, open, frames, link, scanned, group, applied, ready, user, troubles>>

\* The cache of members is a new one.
WithNewCache == IF lookup = None THEN None ELSE [lookup EXCEPT !.stale = TRUE]

(***************************************************************************)
(* The group, the video, and who starts and stops.                         *)
(***************************************************************************)
\* setCurrentGroupWithCache; its effects come with the next render, before the
\* user can select again.
SelectGroup(g) ==
    /\ g # group
    /\ applied = group
    /\ Act
    /\ group' = g
    /\ ready' = FALSE
    /\ lookup' = WithNewCache
    /\ UNCHANGED <<cam, waiting, open, frames, link, scanned, applied, shown, screen, effects, troubles>>

\* The members of the selected group have come.
PanelLoaded ==
    /\ ~ready
    /\ ready' = TRUE
    /\ lookup' = WithNewCache
    /\ effects' = effects \cup {"auto"}
    /\ UNCHANGED <<cam, waiting, open, frames, link, scanned, group, applied, shown, screen, acts, troubles>>

\* The effects of a new group: the service is configured for it, the results of
\* the old one disappear, and the scan stops.
GroupEffects ==
    /\ applied # group
    /\ applied' = group
    /\ link' = Configured(link, group)
    /\ Stop(FALSE)
    /\ shown' = None
    /\ screen' = [screen EXCEPT !.recent = @ \/ cam.streaming]
    /\ UNCHANGED <<scanned, group, ready, lookup, effects, acts, troubles>>

\* The effect on websocketStatus takes the loop up again.
StatusEffect ==
    /\ "status" \in effects
    /\ effects' = effects \ {"status"}
    /\ frames' \in Processed(frames, cam, link)
    /\ UNCHANGED <<cam, waiting, open, link, scanned, group, applied, ready, lookup, shown, screen, acts, troubles>>

\* What a dialog of the group screens interrupts.
Interrupts == cam.streaming

\* An enrollment dialog pauses the scan, its end resumes it.
BlockingEffect ==
    /\ "blocking" \in effects
    /\ effects' = effects \ {"blocking"}
    /\ \/ /\ screen.blocked /\ Interrupts
          /\ StopCamera(FALSE)
          /\ screen' = [screen EXCEPT !.pausedFor = @ \cup {"dialog"}, !.recent = TRUE]
          /\ UNCHANGED link
       \/ /\ ~screen.blocked /\ "dialog" \in screen.pausedFor
          /\ StartCamera
          /\ screen' = [screen EXCEPT !.pausedFor = @ \ {"dialog"}]
          /\ UNCHANGED <<waiting, open, shown>>
       \/ /\ IF screen.blocked THEN ~Interrupts ELSE "dialog" \notin screen.pausedFor
          /\ UNCHANGED <<cam, waiting, open, frames, link, shown, screen>>
    /\ UNCHANGED <<scanned, group, applied, ready, lookup, acts, troubles>>

\* The scan starts by itself once, when everything is ready.
AutoStartEffect ==
    /\ "auto" \in effects
    /\ effects' = effects \ {"auto"}
    /\ IF screen.autoStart /\ CanStart /\ ~cam.streaming
       THEN StartCamera /\ screen' = [screen EXCEPT !.autoStart = FALSE]
       ELSE UNCHANGED <<cam, frames, link, screen>>
    /\ UNCHANGED <<waiting, open, scanned, group, applied, ready, lookup, shown, acts, troubles>>

\* The button, and the space bar.
Toggle ==
    /\ ~screen.blocked /\ ~screen.minimized
    /\ Act
    /\ \/ /\ cam.streaming
          /\ StopCamera(FALSE)
          /\ screen' = [screen EXCEPT !.recent = TRUE]
          /\ UNCHANGED link
       \/ /\ ~cam.streaming
          /\ StartCamera
          /\ UNCHANGED <<waiting, open, shown, screen>>
    /\ UNCHANGED <<scanned, group, applied, ready, lookup, effects, troubles>>

\* The time in which a start is ignored is over.
Later ==
    /\ screen.recent
    /\ screen' = [screen EXCEPT !.recent = FALSE]
    /\ UNCHANGED <<cam, waiting, open, frames, link, scanned, group, applied, ready, lookup, shown,
                   effects, acts, troubles>>

Minimize ==
    /\ ~screen.minimized
    /\ Act
    /\ StopCamera(FALSE)
    /\ screen' = [screen EXCEPT !.minimized = TRUE, !.recent = @ \/ cam.streaming,
                                !.pausedFor = IF cam.streaming THEN @ \cup {"minimize"} ELSE @ \ {"minimize"}]
    /\ UNCHANGED <<link, scanned, group, applied, ready, lookup, effects, troubles>>

Restore ==
    /\ screen.minimized
    /\ IF "minimize" \in screen.pausedFor THEN StartCamera ELSE UNCHANGED <<cam, frames, link>>
    /\ screen' = [screen EXCEPT !.minimized = FALSE, !.pausedFor = @ \ {"minimize"}]
    /\ UNCHANGED <<waiting, open, scanned, group, applied, ready, lookup, shown, effects, acts, troubles>>

\* A dialog that adds or edits a group or a member, or an enrollment, opens in
\* the settings, or closes.
Dialog ==
    /\ ~screen.minimized
    /\ IF screen.blocked THEN UNCHANGED acts ELSE Act
    /\ screen' = [screen EXCEPT !.blocked = ~@]
    /\ effects' = effects \cup {"blocking"}
    /\ UNCHANGED <<cam, waiting, open, frames, link, scanned, group, applied, ready, lookup, shown, troubles>>

\* The track ends, or the device is gone: a forced stop.
CameraLost ==
    /\ cam.stream # None
    /\ Trouble
    /\ StopCamera(TRUE)
    /\ screen' = [screen EXCEPT !.recent = TRUE]
    /\ UNCHANGED <<link, scanned, group, applied, ready, lookup, effects, acts>>

\* checkVideoState, when the video pauses or goes on: the stream of a video that
\* has paused stays open, and the scan does not resume with the video.
VideoState ==
    IF cam.playing
    THEN [cam EXCEPT !.playing = FALSE, !.streaming = FALSE, !.scanning = FALSE]
    ELSE [cam EXCEPT !.playing = TRUE, !.streaming = TRUE]

CheckVideoState ==
    /\ cam.stream # None /\ ~Starting
    /\ IF cam.playing THEN Trouble ELSE UNCHANGED troubles
    /\ cam' = VideoState
    /\ UNCHANGED <<waiting, open, frames, link, scanned, group, applied, ready, lookup, shown, user>>

Frames == NextFrame \/ CaptureFrame \/ Watchdog \/ Receive
Service == ServeConfig \/ ServeFrame
Render == GroupEffects \/ StatusEffect \/ BlockingEffect \/ AutoStartEffect
StartStep == GetCameraDevices \/ GetUserMedia \/ VideoReady

Next ==
    \/ StartStep \/ SupersededStart \/ VideoFails
    \/ Frames \/ Service \/ Render
    \/ WebSocketOpens \/ WebSocketFails \/ WebSocketCloses
    \/ MemberFound
    \/ \E g \in Groups : SelectGroup(g)
    \/ PanelLoaded
    \/ Toggle \/ Later \/ Minimize \/ Restore \/ Dialog
    \/ CameraLost \/ CheckVideoState

\* Callbacks are called, messages arrive, the service serves, and rendering
\* ends with its effects.  Users need not do anything.
Fairness ==
    /\ WF_vars(NextFrame) /\ WF_vars(CaptureFrame) /\ WF_vars(Watchdog) /\ WF_vars(Receive)
    /\ WF_vars(Service)
    /\ WF_vars(GroupEffects) /\ WF_vars(StatusEffect) /\ WF_vars(BlockingEffect)

Spec == Init /\ [][Next]_vars /\ Fairness

(***************************************************************************)
(* Properties.                                                             *)
(***************************************************************************)
\* At most one camera stream is open, and it is the one the next start or stop
\* closes: a start that is superseded while it waits for a camera leaves none.
CameraOwned == open = IF cam.stream = None THEN 0 ELSE 1

\* Once the effects of a selection have run, no face recognized among the members of
\* another group is on display, although the service was configured for that group,
\* and pictures, answers and recognitions of it may have been under way: only a late
\* answer (Recognition) shows one.
ResultsOfSelection == applied = group /\ shown # None /\ ~shown.late => shown.of = group

\* While a scan goes on and the service is connected, frames keep being taken:
\* no failed capture, late answer, error or new connection ends the loop.
FramesKeepFlowing == []<>(frames.capture \/ ~MayProcess(cam, link))
=============================================================================
