---------------------------- MODULE LiveScanProofs ----------------------------
(***************************************************************************)
(* Proofs about LiveScan: whatever is started, superseded, stopped or lost *)
(* in whatever order, one camera stream is open at most and the scan knows *)
(* it, and a result of another group is on display by a late answer only.  *)
(***************************************************************************)
EXTENDS LiveScan, TLAPS

(***************************************************************************)
(* The camera.                                                             *)
(***************************************************************************)
Starts == {"none", "socket", "devices", "acquire", "again", "video"}
Cameras == [streaming : BOOLEAN, start : Starts, scanning : BOOLEAN, stream : {None, "live"},
            playing : BOOLEAN]

\* A start that waits for a camera holds none yet.
HoldsNoneYet == cam.start \in {"acquire", "again"} => cam.stream = None

CameraInv == cam \in Cameras /\ open \in Nat /\ CameraOwned /\ HoldsNoneYet

\* What a step does to the camera, apart from a stop.
Begins == /\ ~Starting
          /\ \E start \in {"devices", "socket"} : cam' = [cam EXCEPT !.streaming = TRUE, !.start = start]
          /\ open' = open
Gives == Starting /\ FailedStart
Searches == /\ cam.start = "devices"
            /\ cam' = [cam EXCEPT !.start = "acquire", !.stream = None, !.playing = FALSE]
            /\ open' = IF cam.stream = None THEN open ELSE open - 1
Acquires == /\ cam.start \in {"acquire", "again"}
            /\ cam' = [cam EXCEPT !.start = "video", !.stream = "live", !.playing = TRUE]
            /\ open' = open + 1
Retries == cam.start = "acquire" /\ cam' = [cam EXCEPT !.start = "again"] /\ open' = open
Scans == cam.start = "video" /\ cam' = [cam EXCEPT !.start = "none", !.scanning = TRUE] /\ open' = open
Connects == cam.start = "socket" /\ cam' = [cam EXCEPT !.start = "devices"] /\ open' = open
Pauses == ~Starting /\ cam' = VideoState /\ open' = open

LEMMA StartSteps ==
    ASSUME StartCamera, open' = open
    PROVE  UNCHANGED <<cam, open>> \/ Begins
BY DEF StartCamera, Begins, Starting

\* Every step is one of these, a stop, or leaves the camera alone.
LEMMA CameraSteps ==
    ASSUME open \in Nat, [Next]_vars
    PROVE  \/ UNCHANGED <<cam, open>> \/ (\E force \in BOOLEAN : Stop(force))
           \/ Begins \/ Gives \/ Searches \/ Acquires \/ Retries \/ Scans \/ Connects \/ Pauses
<1> USE DEF user
<1>1. CASE \/ SupersededStart \/ NextFrame \/ CaptureFrame \/ Watchdog \/ Receive \/ Service
           \/ WebSocketCloses \/ MemberFound \/ (\E g \in Groups : SelectGroup(g)) \/ PanelLoaded
           \/ Later \/ Dialog \/ StatusEffect \/ UNCHANGED vars
  <2>1. CASE SupersededStart
    BY <2>1 DEF SupersededStart, LeftBySuperseded
  <2> QED
    BY <1>1, <2>1 DEF NextFrame, CaptureFrame, Watchdog, Receive, Service, ServeConfig, ServeFrame,
        WebSocketCloses, MemberFound, SelectGroup, PanelLoaded, Later, Dialog, StatusEffect, vars
<1>2. CASE GetCameraDevices \/ GetUserMedia \/ VideoReady \/ VideoFails
  BY <1>2 DEF GetCameraDevices, GetUserMedia, VideoReady, VideoFails, Gives, Searches, Acquires, Retries,
              Scans, Starting
<1>3. CASE WebSocketOpens \/ WebSocketFails
  BY <1>3 DEF WebSocketOpens, WebSocketFails, Connects, Gives, Starting
<1>4. CASE GroupEffects \/ Minimize \/ CameraLost
  BY <1>4 DEF GroupEffects, Minimize, CameraLost, StopCamera
<1>5. CASE BlockingEffect
  BY <1>5, StartSteps DEF BlockingEffect, StopCamera
<1>6. CASE AutoStartEffect
  BY <1>6, StartSteps DEF AutoStartEffect
<1>7. CASE Toggle
  BY <1>7, StartSteps DEF Toggle, StopCamera
<1>8. CASE Restore
  BY <1>8, StartSteps DEF Restore
<1>9. CASE CheckVideoState
  BY <1>9 DEF CheckVideoState, Pauses
<1> QED
  BY <1>1, <1>2, <1>3, <1>4, <1>5, <1>6, <1>7, <1>8, <1>9 DEF Next, StartStep, Frames, Render

LEMMA NoCameraOpen ==
    /\ NoCamera \in Cameras /\ NoCamera.start = "none" /\ NoCamera.stream = None
    /\ ~NoCamera.streaming /\ ~NoCamera.scanning
BY DEF NoCamera, Cameras, Starts

LEMMA CameraStep ==
    ASSUME CameraInv, [Next]_vars
    PROVE  CameraInv'
<1>0. /\ cam \in Cameras /\ open \in Nat /\ cam.start \in Starts /\ cam.stream \in {None, "live"}
      /\ open = IF cam.stream = None THEN 0 ELSE 1
      /\ cam.start \in {"acquire", "again"} => cam.stream = None
  BY DEF CameraInv, Cameras, CameraOwned, HoldsNoneYet
<1>1. CASE UNCHANGED <<cam, open>>
  BY <1>1 DEF CameraInv, CameraOwned, HoldsNoneYet
<1>2. CASE \E force \in BOOLEAN : Stop(force)
  <2>1. \/ UNCHANGED <<cam, open>>
        \/ cam' = NoCamera /\ open' = IF cam.stream = None THEN open ELSE open - 1
    BY <1>2 DEF Stop
  <2>2. CASE cam' = NoCamera /\ open' = IF cam.stream = None THEN open ELSE open - 1
    <3>1. open' = 0
      BY <1>0, <2>2
    <3> QED
      BY <2>2, <3>1, NoCameraOpen DEF CameraInv, CameraOwned, HoldsNoneYet
  <2> QED
    BY <1>1, <2>1, <2>2
<1>3. CASE Begins
  <2>1. /\ cam' \in Cameras /\ cam'.stream = cam.stream /\ cam'.start \in {"devices", "socket"}
        /\ open' = open
    BY <1>0, <1>3 DEF Begins, Cameras, Starts
  <2> QED
    BY <1>0, <2>1 DEF CameraInv, CameraOwned, HoldsNoneYet
<1>4. CASE Gives
  <2>1. CASE cam.start = "socket"
    <3>1. cam' = [NoCamera EXCEPT !.stream = cam.stream, !.playing = (cam.start = "socket" /\ cam.playing)]
          /\ open' = open
      BY <1>4, <2>1 DEF Gives, FailedStart
    <3>2. (cam.start = "socket" /\ cam.playing) \in BOOLEAN
      OBVIOUS
    <3>3. cam' \in Cameras /\ cam'.stream = cam.stream /\ cam'.start = "none"
      BY <1>0, <3>1, <3>2, NoCameraOpen DEF Cameras
    <3> QED
      BY <1>0, <3>1, <3>3 DEF CameraInv, CameraOwned, HoldsNoneYet
  <2>2. CASE cam.start # "socket"
    <3>1. cam' = [NoCamera EXCEPT !.stream = None, !.playing = (cam.start = "socket" /\ cam.playing)]
          /\ open' = IF cam.stream = None THEN open ELSE open - 1
      BY <1>4, <2>2 DEF Gives, FailedStart
    <3>2. (cam.start = "socket" /\ cam.playing) \in BOOLEAN
      OBVIOUS
    <3>3. cam' \in Cameras /\ cam'.stream = None /\ cam'.start = "none"
      BY <1>0, <3>1, <3>2, NoCameraOpen DEF Cameras
    <3>4. open' = 0
      BY <1>0, <3>1
    <3> QED
      BY <3>3, <3>4 DEF CameraInv, CameraOwned, HoldsNoneYet
  <2> QED
    BY <2>1, <2>2
<1>5. CASE Searches
  <2>1. cam' \in Cameras /\ cam'.stream = None
    BY <1>0, <1>5 DEF Searches, Cameras, Starts
  <2>2. open' = 0
    BY <1>0, <1>5 DEF Searches
  <2> QED
    BY <2>1, <2>2 DEF CameraInv, CameraOwned, HoldsNoneYet
<1>6. CASE Acquires
  <2>1. cam' \in Cameras /\ cam'.stream = "live" /\ cam'.start = "video"
    BY <1>0, <1>6 DEF Acquires, Cameras, Starts
  <2>2. open' = 1
    BY <1>0, <1>6 DEF Acquires
  <2> QED
    BY <2>1, <2>2, NoneAssumption DEF CameraInv, CameraOwned, HoldsNoneYet
<1>7. CASE Retries
  <2>1. cam' \in Cameras /\ cam'.stream = cam.stream /\ open' = open
    BY <1>0, <1>7 DEF Retries, Cameras, Starts
  <2> QED
    BY <1>0, <1>7, <2>1 DEF Retries, CameraInv, CameraOwned, HoldsNoneYet
<1>8. CASE Scans \/ Connects
  <2>1. cam' \in Cameras /\ cam'.stream = cam.stream /\ cam'.start \in {"none", "devices"} /\ open' = open
    BY <1>0, <1>8 DEF Scans, Connects, Cameras, Starts
  <2> QED
    BY <1>0, <2>1 DEF CameraInv, CameraOwned, HoldsNoneYet
<1>9. CASE Pauses
  <2>1. cam' \in Cameras /\ cam'.stream = cam.stream /\ cam'.start = "none" /\ open' = open
    BY <1>0, <1>9 DEF Pauses, VideoState, Starting, Cameras, Starts
  <2> QED
    BY <1>0, <2>1 DEF CameraInv, CameraOwned, HoldsNoneYet
<1> QED
  BY <1>0, <1>1, <1>2, <1>3, <1>4, <1>5, <1>6, <1>7, <1>8, <1>9, CameraSteps

\* At most one stream is open, and it is the one the next start or stop closes,
\* however starts are superseded, fail or are lost.
THEOREM OneStreamIsOpen == Spec => []CameraOwned
<1>1. Init => CameraInv
  BY NoCameraOpen DEF Init, CameraInv, CameraOwned, HoldsNoneYet
<1>2. CameraInv /\ [Next]_vars => CameraInv'
  BY CameraStep
<1>3. CameraInv => CameraOwned
  BY DEF CameraInv
<1> QED
  BY <1>1, <1>2, <1>3, PTL DEF Spec

(***************************************************************************)
(* The messages.  The service takes them in order, so a frame is scanned    *)
(* for the group whose configuration went last ahead of it; and what a scan *)
(* may be answered is of the group whose effects have run, or old.          *)
(***************************************************************************)
Messages == [type : {"config", "frame", "response", "error"}, group : Groups \cup {None}, old : BOOLEAN]
Links == [ws : {"disconnected", "connecting", "connected"}, up : Seq(Messages), down : Seq(Messages)]

\* The last configuration ahead of place i is at place j, or done with when j is 0.
LastConfig(up, i, j) ==
    /\ j = 0 \/ up[j].type = "config"
    /\ \A k \in j + 1..i - 1 : up[k].type # "config"

\* A service configured for a group is configured for g when it takes message i.
InForce(up, now, i, g) ==
    \A j \in 0..i - 1 : LastConfig(up, i, j) => g = IF j = 0 THEN now ELSE up[j].group

FramesFollow(up, now) ==
    \A i \in 1..Len(up) : up[i].type = "frame" => InForce(up, now, i, up[i].group)

FramesInOrder == FramesFollow(link.up, scanned)
NextInOrder == link.ws = "connected" => InForce(link.up, scanned, Len(link.up) + 1, applied)
Silent == link.ws # "connected" => link.up = <<>> /\ link.down = <<>>

\* Answers may be taken, now or once the scan has started.
Accepts == Starting \/ cam.scanning

\* A frame, or an answer, of the current scan is of a group.
OfScan(messages, g) ==
    \A i \in 1..Len(messages) :
        messages[i].type \in {"frame", "response"} /\ ~messages[i].old => messages[i].group = g
ScanToldApart == Accepts => OfScan(link.up, applied) /\ OfScan(link.down, applied)

ScanStreams == Accepts => cam.streaming

GroupsInv == group \in Groups /\ applied \in Groups /\ scanned \in Groups \cup {None}
LinkInv == link \in Links /\ FramesInOrder /\ NextInOrder /\ Silent /\ ScanToldApart

\* What a recognition shows unless its answer was late.
Lookups == [group : Groups, of : Groups \cup {None}, late : BOOLEAN, stale : BOOLEAN]
LookupInv == lookup # None => lookup \in Lookups /\ (~lookup.late => lookup.of = lookup.group)

ScanInv == CameraInv /\ ScanStreams /\ GroupsInv /\ LinkInv /\ LookupInv

\* The configurations ahead of a message stay what they were when one is sent.
LEMMA SentBehind ==
    ASSUME NEW up \in Seq(Messages), NEW m \in Messages, NEW now, NEW i \in 1..Len(up) + 1, NEW g,
           InForce(up, now, i, g)
    PROVE  InForce(Append(up, m), now, i, g)
<1>1. \A k \in 1..Len(up) : Append(up, m)[k] = up[k]
  OBVIOUS
<1> SUFFICES ASSUME NEW j \in 0..i - 1, LastConfig(Append(up, m), i, j)
             PROVE  g = IF j = 0 THEN now ELSE Append(up, m)[j].group
  BY DEF InForce
<1>2. LastConfig(up, i, j)
  BY <1>1 DEF LastConfig
<1> QED
  BY <1>1, <1>2 DEF InForce

\* A configuration that is sent is the last one for whatever follows.
LEMMA ConfigSent ==
    ASSUME NEW up \in Seq(Messages), NEW m \in Messages, m.type = "config", NEW now
    PROVE  InForce(Append(up, m), now, Len(Append(up, m)) + 1, m.group)
<1> DEFINE new == Append(up, m)
           n == Len(up) + 1
<1>1. n \in Nat /\ n > 0 /\ Len(new) = n /\ new[n] = m
  OBVIOUS
<1> SUFFICES ASSUME NEW j \in 0..n, LastConfig(new, n + 1, j)
             PROVE  m.group = IF j = 0 THEN now ELSE new[j].group
  BY <1>1 DEF InForce
<1>2. j < n => new[n].type # "config"
  BY <1>1 DEF LastConfig
<1>3. j = n
  BY <1>1, <1>2
<1> QED
  BY <1>1, <1>3

\* A message of another kind leaves the last configuration the last one.
LEMMA OtherSent ==
    ASSUME NEW up \in Seq(Messages), NEW m \in Messages, m.type # "config", NEW now, NEW g,
           InForce(up, now, Len(up) + 1, g)
    PROVE  InForce(Append(up, m), now, Len(Append(up, m)) + 1, g)
<1> DEFINE new == Append(up, m)
           n == Len(up) + 1
<1>1. n \in Nat /\ n > 0 /\ Len(new) = n /\ new[n] = m /\ \A k \in 1..n - 1 : new[k] = up[k]
  OBVIOUS
<1> SUFFICES ASSUME NEW j \in 0..n, LastConfig(new, n + 1, j)
             PROVE  g = IF j = 0 THEN now ELSE new[j].group
  BY <1>1 DEF InForce
<1>2. j # n
  BY <1>1 DEF LastConfig
<1>3. j \in 0..n - 1 /\ LastConfig(up, n, j)
  BY <1>1, <1>2 DEF LastConfig
<1> QED
  BY <1>1, <1>3 DEF InForce

LEMMA FramesSent ==
    ASSUME NEW up \in Seq(Messages), NEW m \in Messages, NEW now, FramesFollow(up, now),
           m.type = "frame" => InForce(up, now, Len(up) + 1, m.group)
    PROVE  FramesFollow(Append(up, m), now)
<1> DEFINE new == Append(up, m)
<1>1. Len(new) = Len(up) + 1 /\ new[Len(up) + 1] = m /\ \A k \in 1..Len(up) : new[k] = up[k]
  OBVIOUS
<1> SUFFICES ASSUME NEW i \in 1..Len(up) + 1, new[i].type = "frame"
             PROVE  InForce(new, now, i, new[i].group)
  BY <1>1 DEF FramesFollow
<1>2. InForce(up, now, i, new[i].group)
  BY <1>1 DEF FramesFollow
<1> QED
  BY <1>2, SentBehind

\* A message that is taken is no longer ahead of the others.
LEMMA Taken ==
    ASSUME NEW up \in Seq(Messages), up # <<>>, NEW now, NEW i \in 1..Len(up), NEW g,
           InForce(up, now, i + 1, g)
    PROVE  InForce(Tail(up), IF Head(up).type = "config" THEN Head(up).group ELSE now, i, g)
<1> DEFINE new == Tail(up)
           then == IF up[1].type = "config" THEN up[1].group ELSE now
<1>1. Head(up) = up[1] /\ Len(new) = Len(up) - 1 /\ Len(up) \in Nat /\ \A k \in 1..Len(up) - 1 : new[k] = up[k + 1]
  OBVIOUS
<1> SUFFICES ASSUME NEW j \in 0..i - 1, LastConfig(new, i, j)
             PROVE  g = IF j = 0 THEN then ELSE new[j].group
  BY <1>1 DEF InForce
<1>2. \A k \in j + 2..i : up[k].type # "config"
  <2> SUFFICES ASSUME NEW k \in j + 2..i PROVE up[k].type # "config"
    OBVIOUS
  <2>1. k - 1 \in j + 1..i - 1 /\ new[k - 1] = up[k]
    BY <1>1
  <2> QED
    BY <2>1 DEF LastConfig
<1>3. CASE j = 0 /\ up[1].type # "config"
  <2>1. LastConfig(up, i + 1, 0)
    BY <1>2, <1>3 DEF LastConfig
  <2> QED
    BY <1>3, <2>1 DEF InForce
<1>4. CASE j = 0 /\ up[1].type = "config"
  <2>1. LastConfig(up, i + 1, 1)
    BY <1>2, <1>4 DEF LastConfig
  <2> QED
    BY <1>4, <2>1 DEF InForce
<1>5. CASE j # 0
  <2>1. j \in 1..Len(up) - 1 /\ new[j] = up[j + 1]
    BY <1>1, <1>5
  <2>2. LastConfig(up, i + 1, j + 1)
    BY <1>2, <1>5, <2>1 DEF LastConfig
  <2> QED
    BY <1>5, <2>1, <2>2 DEF InForce
<1> QED
  BY <1>3, <1>4, <1>5

LEMMA FramesTaken ==
    ASSUME NEW up \in Seq(Messages), up # <<>>, NEW now, FramesFollow(up, now)
    PROVE  FramesFollow(Tail(up), IF Head(up).type = "config" THEN Head(up).group ELSE now)
<1> DEFINE new == Tail(up)
<1>1. Len(new) = Len(up) - 1 /\ Len(up) \in Nat /\ \A k \in 1..Len(up) - 1 : new[k] = up[k + 1]
  OBVIOUS
<1> SUFFICES ASSUME NEW i \in 1..Len(up) - 1, new[i].type = "frame"
             PROVE  InForce(new, IF Head(up).type = "config" THEN Head(up).group ELSE now, i, new[i].group)
  BY <1>1 DEF FramesFollow
<1>2. InForce(up, now, i + 1, new[i].group)
  BY <1>1 DEF FramesFollow
<1> QED
  BY <1>2, Taken

\* A message that is aged is a message still.
LEMMA AgedMessage ==
    ASSUME NEW m \in Messages, NEW b \in BOOLEAN
    PROVE  LET n == [m EXCEPT !.old = b]
           IN  n \in Messages /\ n.type = m.type /\ n.group = m.group /\ n.old = b
BY DEF Messages

\* A new scan changes the age of the messages only, and leaves none of an earlier one.
LEMMA AgedMessages ==
    ASSUME NEW m \in Seq(Messages)
    PROVE  /\ Aged(m) \in Seq(Messages) /\ Len(Aged(m)) = Len(m)
           /\ \A i \in 1..Len(m) : Aged(m)[i].type = m[i].type /\ Aged(m)[i].group = m[i].group
           /\ \A g : OfScan(Aged(m), g)
<1> DEFINE old(i) == m[i].type \in {"frame", "response"}
           aged(i) == [m[i] EXCEPT !.old = old(i)]
<1>1. DOMAIN m = 1..Len(m) /\ Len(m) \in Nat /\ \A i \in 1..Len(m) : m[i] \in Messages
  OBVIOUS
<1>0. \A i \in 1..Len(m) : /\ aged(i) \in Messages
                           /\ aged(i).type = m[i].type /\ aged(i).group = m[i].group
                           /\ aged(i).old = old(i)
  <2> SUFFICES ASSUME NEW i \in 1..Len(m)
               PROVE  /\ aged(i) \in Messages
                      /\ aged(i).type = m[i].type /\ aged(i).group = m[i].group
                      /\ aged(i).old = old(i)
    OBVIOUS
  <2>1. m[i] \in Messages
    BY <1>1
  <2>2. old(i) \in BOOLEAN
    OBVIOUS
  <2> HIDE DEF old
  <2> QED
    BY <2>1, <2>2, AgedMessage
<1>3. Aged(m) = [i \in 1..Len(m) |-> aged(i)]
  BY <1>1 DEF Aged
<1> HIDE DEF aged
<1>2. /\ \A i \in 1..Len(m) : Aged(m)[i] = aged(i)
      /\ Aged(m) \in [1..Len(m) -> Messages]
  BY <1>0, <1>3
<1>4. Aged(m) \in Seq(Messages) /\ Len(Aged(m)) = Len(m)
  BY <1>1, <1>2
<1>5. \A g : OfScan(Aged(m), g)
  BY <1>0, <1>2, <1>4 DEF OfScan
<1> QED
  BY <1>0, <1>2, <1>4, <1>5

LEMMA AgedInOrder ==
    ASSUME NEW up \in Seq(Messages), NEW now
    PROVE  /\ FramesFollow(up, now) => FramesFollow(Aged(up), now)
           /\ \A i \in 1..Len(up) + 1 : \A g : InForce(up, now, i, g) => InForce(Aged(up), now, i, g)
<1> DEFINE new == Aged(up)
<1>1. Len(new) = Len(up) /\ \A k \in 1..Len(up) : new[k].type = up[k].type /\ new[k].group = up[k].group
  BY AgedMessages
<1> HIDE DEF new
<1>2. ASSUME NEW i \in 1..Len(up) + 1, NEW g, InForce(up, now, i, g)
      PROVE  InForce(new, now, i, g)
  <2> SUFFICES ASSUME NEW j \in 0..i - 1, LastConfig(new, i, j)
               PROVE  g = IF j = 0 THEN now ELSE new[j].group
    BY DEF InForce
  <2>1. LastConfig(up, i, j)
    <3>1. \A k \in 1..Len(up) : new[k].type = up[k].type
      BY <1>1
    <3>2. j = 0 \/ j \in 1..Len(up)
      OBVIOUS
    <3>3. \A k \in j + 1..i - 1 : k \in 1..Len(up)
      OBVIOUS
    <3> QED
      BY <3>1, <3>2, <3>3, Zenon DEF LastConfig
  <2>2. g = IF j = 0 THEN now ELSE up[j].group
    BY <1>2, <2>1 DEF InForce
  <2>3. j = 0 \/ j \in 1..Len(up)
    OBVIOUS
  <2> QED
    BY <1>1, <2>2, <2>3
<1>3. FramesFollow(up, now) => FramesFollow(new, now)
  BY <1>1, <1>2 DEF FramesFollow
<1> QED
  BY <1>2, <1>3 DEF new

LEMMA ScanSent ==
    ASSUME NEW m \in Seq(Messages), NEW new \in Messages, NEW g, OfScan(m, g),
           new.type \in {"frame", "response"} /\ ~new.old => new.group = g
    PROVE  OfScan(Append(m, new), g)
<1>1. Len(Append(m, new)) = Len(m) + 1 /\ \A k \in 1..Len(m) + 1 : Append(m, new)[k] = IF k = Len(m) + 1 THEN new ELSE m[k]
  OBVIOUS
<1> QED
  BY <1>1 DEF OfScan

LEMMA ScanTaken ==
    ASSUME NEW m \in Seq(Messages), m # <<>>, NEW g, OfScan(m, g)
    PROVE  OfScan(Tail(m), g)
<1>1. Len(Tail(m)) = Len(m) - 1 /\ \A k \in 1..Len(m) - 1 : Tail(m)[k] = m[k + 1]
  OBVIOUS
<1> QED
  BY <1>1 DEF OfScan

(***************************************************************************)
(* What the steps do to the connection.                                     *)
(***************************************************************************)
\* The connection and who it serves stay, and no answer is taken that was not before.
Quiet == UNCHANGED <<link, scanned, applied>> /\ (Accepts' => Accepts)

StartsScan ==
    /\ ~cam.streaming /\ UNCHANGED <<scanned, applied>>
    /\ link' = IF IsWebSocketReady
               THEN Configured([link EXCEPT !.up = Aged(@), !.down = Aged(@)], applied)
               ELSE [link EXCEPT !.ws = "connecting"]

SendsFrame == IsWebSocketReady /\ link' = [link EXCEPT !.up = Append(@, Frame(applied))]
              /\ UNCHANGED <<scanned, applied, cam>>

LEMMA LinkSteps ==
    ASSUME cam \in Cameras, [Next]_vars
    PROVE  \/ Quiet \/ StartsScan \/ SendsFrame
           \/ WebSocketOpens \/ WebSocketFails \/ WebSocketCloses
           \/ ServeConfig \/ ServeFrame \/ Receive \/ GroupEffects
<1> USE DEF user, Accepts, Starting
<1>0. ASSUME Stop(FALSE) \/ Stop(TRUE) PROVE Accepts' => Accepts
  BY <1>0, NoCameraOpen DEF Stop
<1>s. ASSUME StartCamera, UNCHANGED <<scanned, applied>> PROVE Quiet \/ StartsScan
  BY <1>s DEF StartCamera, Quiet, StartsScan
<1>1. CASE SupersededStart \/ NextFrame \/ Watchdog \/ MemberFound \/ StatusEffect \/ PanelLoaded \/ Later \/ Dialog
           \/ (\E g \in Groups : SelectGroup(g)) \/ UNCHANGED vars
  BY <1>1 DEF SupersededStart, NextFrame, Watchdog, MemberFound, StatusEffect, PanelLoaded, Later, Dialog,
              SelectGroup, vars, Quiet
<1>2. CASE GetCameraDevices \/ GetUserMedia \/ VideoReady \/ VideoFails
  BY <1>2 DEF GetCameraDevices, GetUserMedia, VideoReady, VideoFails, Quiet
<1>3. CASE CaptureFrame
  BY <1>3 DEF CaptureFrame, SendsFrame, Quiet
<1>4. CASE Minimize \/ CameraLost
  BY <1>0, <1>4 DEF Minimize, CameraLost, StopCamera, Quiet
<1>5. CASE BlockingEffect
  BY <1>0, <1>s, <1>5 DEF BlockingEffect, StopCamera, Quiet
<1>6. CASE AutoStartEffect \/ Restore
  BY <1>s, <1>6 DEF AutoStartEffect, Restore, Quiet
<1>7. CASE Toggle
  BY <1>0, <1>s, <1>7 DEF Toggle, StopCamera, Quiet
<1>8. CASE CheckVideoState
  BY <1>8 DEF CheckVideoState, VideoState, Quiet, Cameras
<1> QED
  BY <1>1, <1>2, <1>3, <1>4, <1>5, <1>6, <1>7, <1>8 DEF Next, StartStep, Frames, Service, Render

\* What accepts answers streams.
LEMMA StreamsStep ==
    ASSUME CameraInv, ScanStreams, [Next]_vars
    PROVE  ScanStreams'
<1> USE DEF ScanStreams, Accepts, Starting
<1>0. cam \in Cameras /\ open \in Nat
  BY DEF CameraInv
<1>1. CASE UNCHANGED <<cam, open>>
  BY <1>1
<1>2. CASE \E force \in BOOLEAN : Stop(force)
  BY <1>2, NoCameraOpen DEF Stop
<1>3. CASE Begins
  BY <1>0, <1>3 DEF Begins, Cameras
<1>4. CASE Gives
  BY <1>0, <1>4 DEF Gives, FailedStart, NoCamera
<1>5. CASE Searches \/ Acquires \/ Retries \/ Scans \/ Connects
  BY <1>0, <1>5 DEF Searches, Acquires, Retries, Scans, Connects, Cameras, Starts
<1>6. CASE Pauses
  BY <1>0, <1>6 DEF Pauses, VideoState, Cameras
<1> QED
  BY <1>0, <1>1, <1>2, <1>3, <1>4, <1>5, <1>6, CameraSteps

LEMMA GroupsStep ==
    ASSUME GroupsInv, link \in Links, [Next]_vars
    PROVE  GroupsInv'
<1> USE DEF user, GroupsInv
<1>1. CASE ServeConfig
  <2>1. Head(link.up) \in Messages
    BY <1>1 DEF ServeConfig, Links
  <2> QED
    BY <1>1, <2>1 DEF ServeConfig, Messages
<1>2. CASE GroupEffects \/ (\E g \in Groups : SelectGroup(g)) \/ WebSocketOpens
  BY <1>2 DEF GroupEffects, SelectGroup, WebSocketOpens
<1>3. CASE SupersededStart \/ Frames \/ ServeFrame \/ StartStep \/ VideoFails \/ WebSocketFails \/ WebSocketCloses
           \/ MemberFound \/ PanelLoaded \/ UNCHANGED vars
  BY <1>3 DEF SupersededStart, Frames, NextFrame, CaptureFrame, Watchdog, Receive, ServeFrame, StartStep,
      GetCameraDevices, GetUserMedia, VideoReady, VideoFails, WebSocketFails, WebSocketCloses, MemberFound,
      PanelLoaded, vars
<1>4. CASE StatusEffect \/ BlockingEffect \/ AutoStartEffect \/ Toggle \/ Later \/ Minimize \/ Restore \/ Dialog
           \/ CameraLost \/ CheckVideoState
  BY <1>4 DEF StatusEffect, BlockingEffect, AutoStartEffect, Toggle, Later, Minimize, Restore, Dialog, CameraLost,
      CheckVideoState
<1> QED
  BY <1>1, <1>2, <1>3, <1>4 DEF Next, Service, Render

\* A connection that is not there carries nothing.
LEMMA NothingInOrder ==
    ASSUME NEW now, NEW g
    PROVE  FramesFollow(<<>>, now) /\ OfScan(<<>>, g)
BY DEF FramesFollow, OfScan

LEMMA LinkParts ==
    ASSUME link \in Links
    PROVE  /\ link.ws \in {"disconnected", "connecting", "connected"}
           /\ link.up \in Seq(Messages) /\ link.down \in Seq(Messages)
           /\ \A up \in Seq(Messages), down \in Seq(Messages) :
                  /\ [link EXCEPT !.up = up] \in Links
                  /\ [link EXCEPT !.up = up].ws = link.ws
                  /\ [link EXCEPT !.up = up].up = up
                  /\ [link EXCEPT !.up = up].down = link.down
                  /\ [link EXCEPT !.down = down] \in Links
                  /\ [link EXCEPT !.down = down].ws = link.ws
                  /\ [link EXCEPT !.down = down].up = link.up
                  /\ [link EXCEPT !.down = down].down = down
                  /\ [link EXCEPT !.up = up, !.down = down] \in Links
                  /\ [link EXCEPT !.up = up, !.down = down].ws = link.ws
                  /\ [link EXCEPT !.up = up, !.down = down].up = up
                  /\ [link EXCEPT !.up = up, !.down = down].down = down
BY DEF Links

LEMMA MessageParts ==
    /\ \A g \in Groups : /\ Config(g) \in Messages /\ Config(g).type = "config" /\ Config(g).group = g
                         /\ Frame(g) \in Messages /\ Frame(g).type = "frame" /\ Frame(g).group = g
    /\ Message("error", None) \in Messages /\ Message("error", None).type = "error"
BY DEF Config, Frame, Message, Messages

\* A connection that carries messages in order, for a group that is configured, and
\* a scan that can tell its own: what LinkInv asks, of one state.
InOrder(l, now, g) ==
    /\ l \in Links /\ l.ws = "connected"
    /\ FramesFollow(l.up, now) /\ InForce(l.up, now, Len(l.up) + 1, g)

LEMMA ConfiguredInOrder ==
    ASSUME NEW l \in Links, NEW now, NEW g \in Groups, l.ws = "connected", FramesFollow(l.up, now)
    PROVE  /\ InOrder(Configured(l, g), now, g) /\ Configured(l, g).down = l.down
           /\ \A h : OfScan(l.up, h) => OfScan(Configured(l, g).up, h)
<1>1. /\ Configured(l, g) = [l EXCEPT !.up = Append(@, Config(g))]
      /\ l.up \in Seq(Messages) /\ l.down \in Seq(Messages)
  BY DEF Configured, Links
<1>2. Append(l.up, Config(g)) \in Seq(Messages)
  BY <1>1, MessageParts
<1>3. /\ Configured(l, g).up = Append(l.up, Config(g)) /\ Configured(l, g).ws = l.ws
      /\ Configured(l, g).down = l.down /\ Configured(l, g) \in Links
  BY <1>1, <1>2 DEF Links
<1>4. FramesFollow(Append(l.up, Config(g)), now)
  BY <1>1, MessageParts, FramesSent
<1>5. InForce(Append(l.up, Config(g)), now, Len(Append(l.up, Config(g))) + 1, g)
  BY <1>1, MessageParts, ConfigSent
<1>6. \A h : OfScan(l.up, h) => OfScan(Append(l.up, Config(g)), h)
  BY <1>1, MessageParts, ScanSent
<1> QED
  BY <1>3, <1>4, <1>5, <1>6 DEF InOrder

LEMMA NoLinkParts ==
    \A ws \in {"disconnected", "connecting", "connected"} :
        LET l == [NoLink EXCEPT !.ws = ws]
        IN  l \in Links /\ l.ws = ws /\ l.up = <<>> /\ l.down = <<>>
<1>1. <<>> \in Seq(Messages)
  OBVIOUS
<1> QED
  BY <1>1 DEF NoLink, Links

\* Each way of changing the connection keeps it in order.
LEMMA StartsScanStep ==
    ASSUME GroupsInv, LinkInv, ScanStreams, StartsScan
    PROVE  LinkInv'
<1>1. /\ link \in Links /\ link.up \in Seq(Messages) /\ link.down \in Seq(Messages)
      /\ applied \in Groups /\ scanned' = scanned /\ applied' = applied
  BY LinkParts DEF LinkInv, GroupsInv, StartsScan
<1>2. CASE IsWebSocketReady
  <2> DEFINE old == [link EXCEPT !.up = Aged(@), !.down = Aged(@)]
  <2>1. /\ Aged(link.up) \in Seq(Messages) /\ Aged(link.down) \in Seq(Messages)
        /\ FramesFollow(Aged(link.up), scanned)
        /\ OfScan(Aged(link.up), applied) /\ OfScan(Aged(link.down), applied)
    BY <1>1, AgedMessages, AgedInOrder DEF LinkInv, FramesInOrder
  <2>2. /\ old \in Links /\ old.ws = "connected" /\ old.up = Aged(link.up) /\ old.down = Aged(link.down)
    BY <1>1, <1>2, <2>1, LinkParts DEF IsWebSocketReady
  <2>3. link' = Configured(old, applied)
    BY <1>2 DEF StartsScan
  <2> HIDE DEF old
  <2>4. /\ InOrder(link', scanned, applied) /\ link'.down = old.down /\ OfScan(link'.up, applied)
    BY <1>1, <2>1, <2>2, <2>3, ConfiguredInOrder
  <2> QED
    BY <1>1, <2>1, <2>2, <2>4 DEF LinkInv, InOrder, FramesInOrder, NextInOrder, Silent, ScanToldApart
<1>3. CASE ~IsWebSocketReady
  <2>1. link.up = <<>> /\ link.down = <<>> /\ link' = [link EXCEPT !.ws = "connecting"]
    BY <1>3 DEF LinkInv, Silent, IsWebSocketReady, StartsScan
  <2>2. link' \in Links /\ link'.ws = "connecting" /\ link'.up = <<>> /\ link'.down = <<>>
    BY <1>1, <2>1 DEF Links
  <2> QED
    BY <1>1, <2>2, NothingInOrder DEF LinkInv, FramesInOrder, NextInOrder, Silent, ScanToldApart
<1> QED
  BY <1>2, <1>3

LEMMA SendsFrameStep ==
    ASSUME GroupsInv, LinkInv, SendsFrame
    PROVE  LinkInv'
<1>1. /\ link \in Links /\ link.up \in Seq(Messages) /\ link.down \in Seq(Messages) /\ link.ws = "connected"
      /\ applied \in Groups /\ scanned' = scanned /\ applied' = applied /\ cam' = cam
      /\ FramesFollow(link.up, scanned) /\ InForce(link.up, scanned, Len(link.up) + 1, applied)
  BY LinkParts DEF LinkInv, GroupsInv, SendsFrame, IsWebSocketReady, FramesInOrder, NextInOrder
<1> DEFINE up == Append(link.up, Frame(applied))
<1>2. up \in Seq(Messages)
  BY <1>1, MessageParts
<1>3. FramesFollow(up, scanned)
  BY <1>1, MessageParts, FramesSent
<1>4. InForce(up, scanned, Len(up) + 1, applied)
  BY <1>1, MessageParts, OtherSent
<1>5. OfScan(link.up, applied) => OfScan(up, applied)
  BY <1>1, MessageParts, ScanSent
<1>6. link' \in Links /\ link'.ws = "connected" /\ link'.up = up /\ link'.down = link.down
  <2>1. link' = [link EXCEPT !.up = up]
    BY DEF SendsFrame
  <2> QED
    BY <1>1, <1>2, <2>1, LinkParts
<1>7. Accepts' <=> Accepts
  BY <1>1 DEF Accepts, Starting
<1> HIDE DEF up
<1> QED
  BY <1>1, <1>3, <1>4, <1>5, <1>6, <1>7 DEF LinkInv, FramesInOrder, NextInOrder, Silent, ScanToldApart

LEMMA OpensStep ==
    ASSUME GroupsInv, WebSocketOpens
    PROVE  LinkInv'
<1>1. link' = [NoLink EXCEPT !.ws = "connected", !.up = <<Config(applied)>>] /\ scanned' = None
      /\ applied' = applied /\ applied \in Groups
  BY DEF GroupsInv, WebSocketOpens, Opened
<1> DEFINE new == [NoLink EXCEPT !.ws = "connected"]
<1>2. new \in Links /\ new.ws = "connected" /\ new.up = <<>> /\ new.down = <<>>
  BY NoLinkParts
<1>3. Append(<<>>, Config(applied)) = <<Config(applied)>>
  OBVIOUS
<1>4. link' = Configured(new, applied)
  BY <1>1, <1>2, <1>3 DEF Configured, NoLink
<1> HIDE DEF new
<1>5. InOrder(link', None, applied) /\ link'.down = <<>> /\ OfScan(link'.up, applied)
  <2>1. FramesFollow(new.up, None) /\ OfScan(new.up, applied)
    BY <1>2, NothingInOrder
  <2>2. /\ InOrder(Configured(new, applied), None, applied) /\ Configured(new, applied).down = new.down
        /\ OfScan(Configured(new, applied).up, applied)
    BY <1>1, <1>2, <2>1, ConfiguredInOrder
  <2> QED
    BY <1>2, <1>4, <2>2
<1> QED
  BY <1>1, <1>5, NothingInOrder DEF LinkInv, InOrder, FramesInOrder, NextInOrder, Silent, ScanToldApart

LEMMA EndsStep ==
    ASSUME link' = NoLink
    PROVE  LinkInv'
<1>1. NoLink \in Links /\ NoLink.ws = "disconnected" /\ NoLink.up = <<>> /\ NoLink.down = <<>>
  BY DEF NoLink, Links
<1> QED
  BY <1>1, NothingInOrder DEF LinkInv, FramesInOrder, NextInOrder, Silent, ScanToldApart

LEMMA ServesStep ==
    ASSUME GroupsInv, LinkInv, ServeConfig \/ ServeFrame
    PROVE  LinkInv'
<1> USE DEF user
<1>1. /\ link \in Links /\ link.up \in Seq(Messages) /\ link.down \in Seq(Messages) /\ link.up # <<>>
      /\ link.ws = "connected" /\ applied' = applied /\ cam' = cam
      /\ FramesFollow(link.up, scanned) /\ InForce(link.up, scanned, Len(link.up) + 1, applied)
  BY LinkParts DEF LinkInv, FramesInOrder, NextInOrder, Silent, ServeConfig, ServeFrame
<1> DEFINE up == Tail(link.up)
           head == Head(link.up)
           now == IF head.type = "config" THEN head.group ELSE scanned
<1>2. up \in Seq(Messages) /\ Len(up) + 1 = Len(link.up) /\ Len(link.up) \in Nat /\ head \in Messages
      /\ head = link.up[1]
  BY <1>1
<1>3. FramesFollow(up, now)
  BY <1>1, FramesTaken
<1>4. InForce(up, now, Len(up) + 1, applied)
  BY <1>1, <1>2, Taken
<1>5. OfScan(link.up, applied) => OfScan(up, applied)
  BY <1>1, ScanTaken
<1>6. scanned' = now /\ link'.ws = "connected" /\ link'.up = up
  <2>1. CASE ServeConfig
    <3>1. link' = [link EXCEPT !.up = up]
      BY <2>1 DEF ServeConfig
    <3> QED
      BY <1>1, <1>2, <2>1, <3>1, LinkParts DEF ServeConfig
  <2>2. CASE ServeFrame
    <3>1. PICK answer : link' = [link EXCEPT !.up = up, !.down = Append(@, answer)]
      BY <2>2 DEF ServeFrame
    <3>2. link'.ws = link.ws /\ link'.up = up
      BY <1>1, <3>1 DEF Links
    <3>3. scanned' = scanned /\ head.type = "frame"
      BY <2>2 DEF ServeFrame
    <3> QED
      BY <1>1, <3>2, <3>3
  <2> QED
    BY <2>1, <2>2
<1>7. /\ link' \in Links
      /\ OfScan(link.up, applied) /\ OfScan(link.down, applied) => OfScan(link'.down, applied)
  <2>1. CASE ServeConfig
    <3>1. link' = [link EXCEPT !.up = up]
      BY <2>1 DEF ServeConfig
    <3> QED
      BY <1>1, <1>2, <3>1, LinkParts
  <2>2. CASE ServeFrame
    <3>1. PICK answer : /\ answer \in {[head EXCEPT !.type = "response", !.group = scanned], Message("error", None)}
                        /\ link' = [link EXCEPT !.up = up, !.down = Append(@, answer)]
      BY <2>2 DEF ServeFrame
    <3>2. head.type = "frame"
      BY <2>2 DEF ServeFrame
    <3>3. /\ answer \in Messages
          /\ answer.type \in {"frame", "response"} => answer.old = head.old /\ answer.group = scanned
      <4>1. CASE answer = [head EXCEPT !.type = "response", !.group = scanned]
        <5>1. head \in Messages /\ scanned \in Groups \cup {None}
          BY <1>2 DEF GroupsInv
        <5> HIDE DEF head
        <5> QED
          BY <4>1, <5>1 DEF Messages
      <4>2. CASE answer = Message("error", None)
        BY <4>2, MessageParts
      <4> QED
        BY <3>1, <4>1, <4>2
    <3>4. Append(link.down, answer) \in Seq(Messages)
      BY <1>1, <3>3
    <3>5. link' \in Links /\ link'.down = Append(link.down, answer)
      BY <1>1, <1>2, <3>1, <3>4, LinkParts
    <3>6. head.group = scanned
      <4>1. 1 \in 1..Len(link.up)
        BY <1>2
      <4>2. InForce(link.up, scanned, 1, head.group)
        BY <1>1, <1>2, <3>2, <4>1 DEF FramesFollow
      <4>3. 0 \in 0..1 - 1 /\ LastConfig(link.up, 1, 0)
        BY DEF LastConfig
      <4> QED
        BY <4>2, <4>3 DEF InForce
    <3>7. OfScan(link.up, applied) => (~head.old => head.group = applied)
      <4>1. 1 \in 1..Len(link.up)
        BY <1>2
      <4> QED
        BY <1>2, <3>2, <4>1 DEF OfScan
    <3> QED
      BY <1>1, <3>3, <3>5, <3>6, <3>7, ScanSent
  <2> QED
    BY <2>1, <2>2
<1>8. Accepts' <=> Accepts
  BY <1>1 DEF Accepts, Starting
<1> HIDE DEF up, now, head
<1> QED
  BY <1>1, <1>3, <1>4, <1>5, <1>6, <1>7, <1>8
     DEF LinkInv, FramesInOrder, NextInOrder, Silent, ScanToldApart

LEMMA ReceiveStep ==
    ASSUME LinkInv, Receive
    PROVE  LinkInv'
<1> USE DEF user
<1>1. /\ link \in Links /\ link.up \in Seq(Messages) /\ link.down \in Seq(Messages) /\ link.down # <<>>
      /\ link' = [link EXCEPT !.down = Tail(link.down)]
      /\ applied' = applied /\ cam' = cam /\ scanned' = scanned /\ link.ws = "connected"
  BY LinkParts DEF LinkInv, Silent, Receive
<1>2. Tail(link.down) \in Seq(Messages) /\ (OfScan(link.down, applied) => OfScan(Tail(link.down), applied))
  BY <1>1, ScanTaken
<1>3. /\ link' \in Links /\ link'.ws = "connected" /\ link'.up = link.up /\ link'.down = Tail(link.down)
  BY <1>1, <1>2, LinkParts
<1>4. Accepts' <=> Accepts
  BY <1>1 DEF Accepts, Starting
<1> QED
  BY <1>1, <1>2, <1>3, <1>4 DEF LinkInv, FramesInOrder, NextInOrder, Silent, ScanToldApart

\* A selection that takes effect ends the scan, so none of its answers is taken.
LEMMA AppliesStep ==
    ASSUME GroupsInv, LinkInv, ScanStreams, GroupEffects
    PROVE  LinkInv'
<1>1. /\ link \in Links /\ group \in Groups /\ applied' = group /\ scanned' = scanned
      /\ link' = Configured(link, group)
  BY DEF LinkInv, GroupsInv, GroupEffects
<1>2. ~Accepts'
  BY NoCameraOpen DEF GroupEffects, Stop, StopIgnored, ScanStreams, Accepts, Starting
<1>3. CASE link.ws = "connected"
  <2>1. InOrder(link', scanned, group)
    BY <1>1, <1>3, ConfiguredInOrder DEF LinkInv, FramesInOrder
  <2> QED
    BY <1>1, <1>2, <2>1 DEF LinkInv, InOrder, FramesInOrder, NextInOrder, Silent, ScanToldApart
<1>4. CASE link.ws # "connected"
  <2>1. link' = link
    BY <1>1, <1>4 DEF Configured
  <2> QED
    BY <1>1, <1>2, <1>4, <2>1 DEF LinkInv, FramesInOrder, NextInOrder, Silent, ScanToldApart
<1> QED
  BY <1>3, <1>4

LEMMA LinkStep ==
    ASSUME CameraInv, ScanStreams, GroupsInv, LinkInv, [Next]_vars
    PROVE  LinkInv'
<1>1. CASE Quiet
  BY <1>1 DEF Quiet, LinkInv, FramesInOrder, NextInOrder, Silent, ScanToldApart
<1>2. CASE WebSocketFails \/ WebSocketCloses
  BY <1>2, EndsStep DEF WebSocketFails, WebSocketCloses
<1>3. cam \in Cameras
  BY DEF CameraInv
<1> QED
  BY <1>1, <1>2, <1>3, LinkSteps, StartsScanStep, SendsFrameStep, OpensStep, ServesStep, ReceiveStep, AppliesStep

(***************************************************************************)
(* The results.                                                            *)
(***************************************************************************)
LEMMA RecognitionParts ==
    ASSUME GroupsInv, NEW m \in Messages
    PROVE  LET r == Recognition(m)
           IN  /\ r \in Lookups
               /\ r.group = group /\ r.of = m.group /\ (r.late <=> m.old \/ applied # group)
<1>1. m.old \in BOOLEAN /\ m.group \in Groups \cup {None} /\ group \in Groups
  BY DEF Messages, GroupsInv
<1> DEFINE late == m.old \/ applied # group
<1>2. late \in BOOLEAN
  BY <1>1
<1>3. Recognition(m) = [group |-> group, of |-> m.group, late |-> late, stale |-> FALSE]
  BY DEF Recognition
<1> HIDE DEF late
<1>4. /\ Recognition(m) \in Lookups /\ Recognition(m).group = group /\ Recognition(m).of = m.group
      /\ Recognition(m).late = late
  BY <1>1, <1>2, <1>3 DEF Lookups
<1> QED
  BY <1>4 DEF late

\* A recognition is of the answer of the current scan, unless that is late.
LEMMA LookupStep ==
    ASSUME GroupsInv, LinkInv, LookupInv, [Next]_vars
    PROVE  LookupInv'
<1> USE DEF user
<1>1. CASE UNCHANGED lookup \/ lookup' = None
  BY <1>1 DEF LookupInv
<1>2. CASE lookup' = WithNewCache
  <2>1. CASE lookup # None
    <3>1. lookup' = [lookup EXCEPT !.stale = TRUE]
      BY <1>2, <2>1 DEF WithNewCache
    <3>2. lookup' \in Lookups /\ lookup'.late = lookup.late /\ lookup'.of = lookup.of /\ lookup'.group = lookup.group
      BY <2>1, <3>1 DEF LookupInv, Lookups
    <3> QED
      BY <2>1, <3>2 DEF LookupInv
  <2> QED
    BY <1>1, <1>2, <2>1 DEF WithNewCache
<1>3. CASE Receive
  <2> DEFINE answer == Head(link.down)
  <2>1. CASE answer.type = "response" /\ cam.streaming /\ cam.scanning
    <3>1. link.down \in Seq(Messages) /\ link.down # <<>> /\ lookup' = Recognition(answer)
      BY <1>3, <2>1, LinkParts DEF LinkInv, Receive
    <3>2. answer \in Messages /\ answer = link.down[1] /\ 1 \in 1..Len(link.down)
      BY <3>1
    <3>3. ~answer.old => answer.group = applied
      BY <2>1, <3>2 DEF LinkInv, ScanToldApart, Accepts, OfScan
    <3> HIDE DEF answer
    <3> QED
      BY <3>1, <3>2, <3>3, RecognitionParts DEF LookupInv
  <2> QED
    BY <1>1, <1>3, <2>1 DEF Receive
<1>4. UNCHANGED lookup \/ lookup' = None \/ lookup' = WithNewCache \/ Receive
  <2>1. CASE MemberFound \/ (\E g \in Groups : SelectGroup(g)) \/ PanelLoaded
    BY <2>1 DEF MemberFound, SelectGroup, PanelLoaded
  <2>2. CASE SupersededStart \/ NextFrame \/ CaptureFrame \/ Watchdog \/ Service \/ StartStep \/ VideoFails
             \/ WebSocketOpens \/ WebSocketFails \/ WebSocketCloses \/ UNCHANGED vars
    BY <2>2 DEF SupersededStart, NextFrame, CaptureFrame, Watchdog, Service, ServeConfig, ServeFrame, StartStep,
        GetCameraDevices, GetUserMedia, VideoReady, VideoFails, WebSocketOpens, WebSocketFails, WebSocketCloses, vars
  <2>3. CASE Render \/ Toggle \/ Later \/ Minimize \/ Restore \/ Dialog \/ CameraLost \/ CheckVideoState
    BY <2>3 DEF Render, GroupEffects, StatusEffect, BlockingEffect, AutoStartEffect, Toggle, Later, Minimize,
        Restore, Dialog, CameraLost, CheckVideoState
  <2> QED
    BY <2>1, <2>2, <2>3 DEF Next, Frames
<1> QED
  BY <1>1, <1>2, <1>3, <1>4

\* A step shows what a recognition for the selected group found, or nothing, or leaves
\* the display; another selection has effects to come.
LEMMA ShownSteps ==
    ASSUME [Next]_vars
    PROVE  \/ UNCHANGED <<shown, group, applied>>
           \/ shown' = None
           \/ /\ lookup # None /\ lookup.group = group /\ shown' = [of |-> lookup.of, late |-> lookup.late]
              /\ UNCHANGED <<group, applied>>
           \/ applied' # group'
<1> USE DEF user
<1>1. CASE \/ SupersededStart \/ Frames \/ Service \/ StartStep \/ VideoFails
           \/ WebSocketOpens \/ WebSocketFails \/ WebSocketCloses
  BY <1>1 DEF SupersededStart, Frames, NextFrame, CaptureFrame, Watchdog, Receive, Service, ServeConfig,
      ServeFrame, StartStep, GetCameraDevices, GetUserMedia, VideoReady, VideoFails,
      WebSocketOpens, WebSocketFails, WebSocketCloses
<1>2. CASE MemberFound
  BY <1>2 DEF MemberFound, Outdated
<1>3. CASE \E g \in Groups : SelectGroup(g)
  BY <1>3 DEF SelectGroup
<1>4. CASE GroupEffects
  BY <1>4 DEF GroupEffects
<1>5. CASE StatusEffect \/ AutoStartEffect \/ PanelLoaded \/ Later \/ Restore \/ Dialog \/ CheckVideoState
  BY <1>5 DEF StatusEffect, AutoStartEffect, PanelLoaded, Later, Restore, Dialog, CheckVideoState
<1>6. CASE BlockingEffect \/ Toggle \/ Minimize \/ CameraLost
  BY <1>6 DEF BlockingEffect, Toggle, Minimize, CameraLost, StopCamera
<1>7. CASE UNCHANGED vars
  BY <1>7 DEF vars
<1> QED
  BY <1>1, <1>2, <1>3, <1>4, <1>5, <1>6, <1>7 DEF Next, Render

LEMMA ShownStep ==
    ASSUME LookupInv, ResultsOfSelection, [Next]_vars
    PROVE  ResultsOfSelection'
<1>1. CASE /\ lookup # None /\ lookup.group = group /\ shown' = [of |-> lookup.of, late |-> lookup.late]
           /\ UNCHANGED <<group, applied>>
  <2>1. shown'.of = lookup.of /\ shown'.late = lookup.late
    BY <1>1
  <2> QED
    BY <1>1, <2>1 DEF LookupInv, ResultsOfSelection
<1> QED
  BY <1>1, ShownSteps DEF ResultsOfSelection

LEMMA ScanInit ==
    ASSUME Init
    PROVE  ScanInv /\ ResultsOfSelection
<1>1. CameraInv
  BY NoCameraOpen DEF Init, CameraInv, CameraOwned, HoldsNoneYet
<1>2. ScanStreams /\ GroupsInv /\ LookupInv /\ ResultsOfSelection
  BY NoCameraOpen DEF Init, ScanStreams, Accepts, Starting, GroupsInv, LookupInv, ResultsOfSelection
<1>3. link \in Links /\ link.ws = "connecting" /\ link.up = <<>> /\ link.down = <<>>
  BY NoLinkParts DEF Init
<1>4. LinkInv
  BY <1>3, NothingInOrder DEF LinkInv, FramesInOrder, NextInOrder, Silent, ScanToldApart
<1> QED
  BY <1>1, <1>2, <1>4 DEF ScanInv

\* Once the effects of a selection have run, no face recognized among the members of
\* another group is on display, but one that a late answer brought: the service is
\* configured ahead of the frames of a scan, and answers that are taken are of that
\* scan's group, or late.
THEOREM ResultsAreOfSelection == Spec => []ResultsOfSelection
<1> DEFINE Inv == ScanInv /\ ResultsOfSelection
<1>1. Init => Inv
  BY ScanInit
<1>2. Inv /\ [Next]_vars => Inv'
  <2> SUFFICES ASSUME Inv, [Next]_vars PROVE Inv'
    OBVIOUS
  <2>1. link \in Links
    BY DEF ScanInv, LinkInv
  <2> QED
    BY <2>1, CameraStep, StreamsStep, GroupsStep, LinkStep, LookupStep, ShownStep DEF ScanInv
<1>3. Inv => ResultsOfSelection
  OBVIOUS
<1> QED
  BY <1>1, <1>2, <1>3, PTL DEF Spec
================================================================================
