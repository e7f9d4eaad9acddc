---------------------------- MODULE MediaSession ----------------------------
(***************************************************************************)
(* Voice rooms, push-to-talk, camera and screen sharing: the native states *)
(* (src-tauri/src/audio.rs, video.rs), their commands (src-tauri/src/      *)
(* lib.rs) and the functions of the user interface that call them and      *)
(* capture microphone and camera (apps/desktop/src/App.vue).               *)
(*                                                                         *)
(* The commands are synchronous: the webview hands them to the main thread *)
(* one after the other, and their replies arrive in the same order.  They  *)
(* do not fail (the rooms are those of the user interface).  Between a     *)
(* call and its reply the user can do anything, and a request for the      *)
(* microphone, the camera or the screen stays open as long as the browser  *)
(* or the user likes.                                                      *)
(*                                                                         *)
(* A runtime without mediaDevices ("unsupported") captures nothing and is  *)
(* left out.                                                               *)
(***************************************************************************)
EXTENDS Naturals, Sequences

CONSTANTS
  Rooms,      \* the voice rooms
  None,       \* no room, no status yet, no stream
  Users,      \* bound: the sets of controls that users make use of
  MaxPending  \* bound: calls and requests under way when the user acts

AllControls == {"mute", "deafen", "ptt", "key", "room", "camera", "screen", "lock"}

ASSUME MediaAssumption ==
  MaxPending \in Nat /\ None \notin Rooms /\ Users \subseteq SUBSET AllControls

VARIABLES
  (* the native side *)
  audio,        \* ManagedAudioState
  video,        \* ManagedVideoState
  calls,        \* commands sent and not executed yet, oldest first
  replies,      \* replies not taken up yet, oldest first
  (* the user interface *)
  audioStatus,
  videoStatus,
  pttHolding,
  capture,      \* its streams, and its requests for streams
  lock,         \* where quickLock is
  (* the user *)
  held,         \* the key V is down
  focused,      \* the window has the focus
  controls      \* bound: the controls this user makes use of

native == <<audio, video, calls, replies>>
user == <<held, focused, controls>>
vars == <<native, audioStatus, videoStatus, pttHolding, capture, lock, user>>

-----------------------------------------------------------------------------
(***************************************************************************)
(* AudioState and VideoState                                               *)
(***************************************************************************)
AudioState ==
  [muted : BOOLEAN, deafened : BOOLEAN, push_to_talk : BOOLEAN, ptt_pressed : BOOLEAN,
   joined_room : Rooms \cup {None}]

VideoState == [camera_enabled : BOOLEAN, screen_share_enabled : BOOLEAN]

ASSUME NoneAssumption == None \notin AudioState \cup VideoState \cup {"camera", "screen"}

NewAudio ==
  [muted |-> FALSE, deafened |-> FALSE, push_to_talk |-> FALSE, ptt_pressed |-> FALSE,
   joined_room |-> None]

NewVideo == [camera_enabled |-> FALSE, screen_share_enabled |-> FALSE]

(* AudioStatus: `muted' is what the microphone is, for whatever reason.    *)
Status(a) ==
  [a EXCEPT !.muted = a.deafened \/ a.muted \/ (a.push_to_talk /\ ~a.ptt_pressed),
            !.ptt_pressed = a.push_to_talk /\ a.ptt_pressed]

SetMuted(a, muted) == [a EXCEPT !.muted = muted]

SetDeafened(a, deafened) == [a EXCEPT !.deafened = deafened]

SetPushToTalk(a, enabled) ==
  [a EXCEPT !.push_to_talk = enabled, !.ptt_pressed = enabled /\ a.ptt_pressed]

SetPttPressed(a, pressed) == [a EXCEPT !.ptt_pressed = a.push_to_talk /\ pressed]

JoinRoom(a, room) == [a EXCEPT !.joined_room = room]

LeaveRoom(a) == [a EXCEPT !.joined_room = None, !.ptt_pressed = FALSE]

(* Faulty: a running screen share goes on.                                 *)
SetCameraOnly(v, enabled) == [v EXCEPT !.camera_enabled = enabled]

SetCameraEnabled(v, enabled) ==
  [camera_enabled |-> enabled, screen_share_enabled |-> ~enabled /\ v.screen_share_enabled]

SetScreenShareEnabled(v, enabled) ==
  [screen_share_enabled |-> enabled, camera_enabled |-> ~enabled /\ v.camera_enabled]

-----------------------------------------------------------------------------
(***************************************************************************)
(* Commands.  A call is the command, its argument, and `then', the place   *)
(* in the user interface where the caller goes on with the reply.          *)
(***************************************************************************)
AudioCommands ==
  {"audio_status", "audio_set_muted", "audio_set_deafened", "audio_set_push_to_talk",
   "audio_set_ptt_pressed", "audio_join_room", "audio_leave_room"}

Call(command, arg, then) == [command |-> command, arg |-> arg, then |-> then]

CameraOff(then) == Call("video_set_camera_enabled", FALSE, then)
ScreenOff(then) == Call("video_set_screen_share_enabled", FALSE, then)

Send(call) == calls' = Append(calls, call)

RunAudio(a, call) ==
  CASE call.command = "audio_set_muted" -> SetMuted(a, call.arg)
    [] call.command = "audio_set_deafened" -> SetDeafened(a, call.arg)
    [] call.command = "audio_set_push_to_talk" -> SetPushToTalk(a, call.arg)
    [] call.command = "audio_set_ptt_pressed" -> SetPttPressed(a, call.arg)
    [] call.command = "audio_join_room" -> JoinRoom(a, call.arg)
    [] call.command = "audio_leave_room" -> LeaveRoom(a)
    [] OTHER -> a

RunVideo(v, call) ==
  CASE call.command = "video_set_camera_enabled" -> SetCameraEnabled(v, call.arg)
    [] call.command = "video_set_screen_share_enabled" -> SetScreenShareEnabled(v, call.arg)
    [] OTHER -> v

(* The main thread executes the next command.                              *)
Execute ==
  /\ calls # << >>
  /\ audio' = RunAudio(audio, Head(calls))
  /\ video' = RunVideo(video, Head(calls))
  /\ calls' = Tail(calls)
  /\ replies' = Append(replies,
                  [then |-> Head(calls).then,
                   status |-> IF Head(calls).command \in AudioCommands
                              THEN Status(audio') ELSE video'])
  /\ UNCHANGED <<audioStatus, videoStatus, pttHolding, capture, lock, user>>

(* The next reply is one that its caller takes up at `then'.               *)
Returns(then) ==
  /\ replies # << >>
  /\ Head(replies).then = then
  /\ replies' = Tail(replies)
  /\ UNCHANGED <<audio, video, user>>

Reply == Head(replies).status

-----------------------------------------------------------------------------
(***************************************************************************)
(* Streams.  `asks' counts the requests that are open: for the microphone, *)
(* the same as part of toggleVoiceRoom, for the camera, for the screen.    *)
(* `lost' are the devices with a running stream that no variable refers to *)
(* any more, which nothing can stop.                                       *)
(*                                                                         *)
(* History: `late' are the devices that have been asked for again or       *)
(* switched off while a request for them was open, asked for again         *)
(* although they were given (MicDenied), or switched off for an earlier    *)
(* request's refusal (DeniedReturns).  The user interface does not look    *)
(* again at what is wanted, or what it has, when a request is granted.     *)
(***************************************************************************)
Asks == {"mic", "room", "camera", "screen"}
MicAsks == {"mic", "room"}

Capture ==
  [micStream : BOOLEAN, micCaptureState : {"idle", "active", "denied"},
   videoStream : {None, "camera", "screen"}, asks : [Asks -> Nat],
   lost : SUBSET {"mic", "camera", "screen"}, late : SUBSET {"mic", "video"}]

NoCapture ==
  [micStream |-> FALSE, micCaptureState |-> "idle", videoStream |-> None,
   asks |-> [a \in Asks |-> 0], lost |-> {}, late |-> {}]

Open(c, asks) == \E a \in asks : c.asks[a] > 0

LateMic(c) == IF Open(c, MicAsks) THEN c.late \cup {"mic"} ELSE c.late
LateVideo(c) == IF Open(c, Asks \ MicAsks) THEN c.late \cup {"video"} ELSE c.late

Ask(c, ask) == [c EXCEPT !.asks[ask] = @ + 1]

canMonitorMic(a) == a # None /\ a.joined_room # None /\ ~a.muted /\ ~a.deafened

canUseVideo(a) == a # None /\ a.joined_room # None

ensureMicMonitoring(c, ask) ==
  IF c.micCaptureState = "active" THEN c
  ELSE Ask([c EXCEPT !.late = IF c.micStream THEN @ \cup {"mic"} ELSE LateMic(c)], ask)

stopMicMonitoring(c) ==
  [c EXCEPT !.micStream = FALSE, !.micCaptureState = "idle", !.late = LateMic(c)]

(* What every function that has got a new audio status does next.          *)
SyncMic(c, a, ask) ==
  IF canMonitorMic(a) THEN ensureMicMonitoring(c, ask) ELSE stopMicMonitoring(c)

clearVideoCapture(c) == [c EXCEPT !.videoStream = None, !.late = LateVideo(c)]

(* ensureCameraCapture and ensureScreenShareCapture clear first.           *)
syncVideoCapture(c, a, v) ==
  LET cleared == clearVideoCapture(c) IN
  IF canUseVideo(a) /\ v # None /\ v.screen_share_enabled THEN Ask(cleared, "screen")
  ELSE IF canUseVideo(a) /\ v # None /\ v.camera_enabled THEN Ask(cleared, "camera")
  ELSE cleared

-----------------------------------------------------------------------------
(* onMounted has asked for both states.                                    *)
Init ==
  /\ audio = NewAudio
  /\ video = NewVideo
  /\ calls = <<Call("audio_status", None, "audio"), Call("video_status", None, "video")>>
  /\ replies = << >>
  /\ audioStatus = None
  /\ videoStatus = None
  /\ pttHolding = FALSE
  /\ capture = NoCapture
  /\ lock = "none"
  /\ held = FALSE
  /\ focused = TRUE
  /\ controls \in Users

Pending ==
  Len(calls) + Len(replies)
    + capture.asks["mic"] + capture.asks["room"] + capture.asks["camera"] + capture.asks["screen"]

Input(control) == control \in controls /\ Pending < MaxPending

-----------------------------------------------------------------------------
(***************************************************************************)
(* The user's buttons and keys                                             *)
(***************************************************************************)
(* A button that sends one command and changes nothing before the reply.   *)
Button(control, call) ==
  /\ Input(control)
  /\ Send(call)
  /\ UNCHANGED <<audio, video, replies, audioStatus, videoStatus, pttHolding, capture, lock, user>>

(* Without a status a button only asks for one (refreshAudioState).        *)
AudioButton(control, call) ==
  Button(control, IF audioStatus = None THEN Call("audio_status", None, "audio") ELSE call)

ToggleMute == AudioButton("mute", Call("audio_set_muted", ~audioStatus.muted, "audio"))

ToggleDeafened == AudioButton("deafen", Call("audio_set_deafened", ~audioStatus.deafened, "audio"))

TogglePushToTalk ==
  AudioButton("ptt", Call("audio_set_push_to_talk", ~audioStatus.push_to_talk, "ptt"))

ToggleVoiceRoom(room) ==
  IF audioStatus # None /\ audioStatus.joined_room = room
  THEN Button("room", Call("audio_leave_room", None, "room"))
  ELSE Button("room", Call("audio_join_room", room, "room"))

ToggleCamera ==
  /\ canUseVideo(audioStatus)
  /\ Button("camera", Call("video_set_camera_enabled",
                           ~(videoStatus # None /\ videoStatus.camera_enabled), "video"))

ToggleScreenShare ==
  /\ canUseVideo(audioStatus)
  /\ Button("screen", Call("video_set_screen_share_enabled",
                           ~(videoStatus # None /\ videoStatus.screen_share_enabled), "video"))

(* Faulty: what the key is taken for changes with the reply only.          *)
PressAfterReply(pressed) ==
  IF audioStatus # None /\ audioStatus.push_to_talk /\ audioStatus.ptt_pressed # pressed
  THEN /\ Send(Call("audio_set_ptt_pressed", pressed, "audio"))
       /\ pttHolding' = pressed
  ELSE UNCHANGED <<calls, pttHolding>>

(* setPttPressed                                                           *)
Press(pressed) ==
  IF audioStatus # None /\ audioStatus.push_to_talk /\ pttHolding # pressed
  THEN /\ pttHolding' = pressed
       /\ Send(Call("audio_set_ptt_pressed", pressed, "audio"))
  ELSE UNCHANGED <<calls, pttHolding>>

(* The handlers of key and window leave everything else alone.             *)
Handled == UNCHANGED <<audio, video, replies, audioStatus, videoStatus, capture, lock, controls>>

(* handleKeydown, unless the key is typed into a text field.               *)
KeyDown(editable) ==
  /\ Input("key") /\ focused /\ ~held
  /\ held' = TRUE
  /\ IF editable THEN UNCHANGED <<calls, pttHolding>> ELSE Press(TRUE)
  /\ UNCHANGED focused
  /\ Handled

(* handleKeyup; the window does not see it without the focus.              *)
KeyUp ==
  /\ Input("key") /\ held
  /\ held' = FALSE
  /\ IF focused THEN Press(FALSE) ELSE UNCHANGED <<calls, pttHolding>>
  /\ UNCHANGED focused
  /\ Handled

(* handleWindowBlur                                                        *)
Blur ==
  /\ Input("key") /\ focused
  /\ focused' = FALSE
  /\ IF pttHolding THEN Press(FALSE) ELSE UNCHANGED <<calls, pttHolding>>
  /\ UNCHANGED held
  /\ Handled

Focus ==
  /\ ~focused
  /\ focused' = TRUE
  /\ UNCHANGED <<calls, pttHolding, held>>
  /\ Handled

-----------------------------------------------------------------------------
(***************************************************************************)
(* Replies                                                                 *)
(***************************************************************************)
(* refreshAudioState, toggleMute, toggleDeafened, setPttPressed.           *)
AudioReturns ==
  /\ Returns("audio")
  /\ audioStatus' = Reply
  /\ capture' = SyncMic(capture, Reply, "mic")
  /\ UNCHANGED <<calls, videoStatus, pttHolding, lock>>

(* togglePushToTalk                                                        *)
PushToTalkReturns ==
  /\ Returns("ptt")
  /\ audioStatus' = Reply
  /\ pttHolding' = (pttHolding /\ Reply.push_to_talk)
  /\ capture' = SyncMic(capture, Reply, "mic")
  /\ UNCHANGED <<calls, videoStatus, lock>>

(* The end of toggleVoiceRoom.  The video is looked at after a request for *)
(* the microphone has been answered.                                       *)
SyncRoom(a, v) ==
  LET c == SyncMic(capture, a, "room") IN
  capture' = IF c.asks["room"] > capture.asks["room"] THEN c ELSE syncVideoCapture(c, a, v)

(* Faulty: a room is left with camera and screen sharing on.               *)
RoomReturnsOnly ==
  /\ Returns("room")
  /\ audioStatus' = Reply
  /\ SyncRoom(Reply, videoStatus)
  /\ UNCHANGED <<calls, videoStatus, pttHolding, lock>>

(* toggleVoiceRoom switches camera and screen sharing off without a room.  *)
RoomReturns ==
  /\ Returns("room")
  /\ audioStatus' = Reply
  /\ IF Reply.joined_room = None /\ videoStatus # None
     THEN Send(CameraOff("roomCamera")) /\ UNCHANGED capture
     ELSE SyncRoom(Reply, videoStatus) /\ UNCHANGED calls
  /\ UNCHANGED <<videoStatus, pttHolding, lock>>

RoomCameraReturns ==
  /\ Returns("roomCamera")
  /\ videoStatus' = Reply
  /\ Send(ScreenOff("roomScreen"))
  /\ UNCHANGED <<audioStatus, pttHolding, capture, lock>>

RoomScreenReturns ==
  /\ Returns("roomScreen")
  /\ videoStatus' = Reply
  /\ SyncRoom(audioStatus, Reply)
  /\ UNCHANGED <<calls, audioStatus, pttHolding, lock>>

(* refreshVideoState, toggleCamera, toggleScreenShare.                     *)
VideoReturns ==
  /\ Returns("video")
  /\ videoStatus' = Reply
  /\ capture' = syncVideoCapture(capture, audioStatus, Reply)
  /\ UNCHANGED <<calls, audioStatus, pttHolding, lock>>

(* The catch of ensureCameraCapture and ensureScreenShareCapture.  A later *)
(* request, or what it has given, stays.                                   *)
DeniedReturns ==
  /\ Returns("denied")
  /\ videoStatus' = Reply
  /\ capture' = [capture EXCEPT !.late = IF capture.videoStream # None THEN @ \cup {"video"}
                                         ELSE LateVideo(capture)]
  /\ UNCHANGED <<calls, audioStatus, pttHolding, lock>>

(* Faulty: the status that comes with the reply is not shown.              *)
EndedReturnsOnly ==
  /\ Returns("ended")
  /\ capture' = clearVideoCapture(capture)
  /\ UNCHANGED <<calls, audioStatus, videoStatus, pttHolding, lock>>

(* track.onended of a shared screen.                                       *)
EndedReturns ==
  /\ Returns("ended")
  /\ videoStatus' = Reply
  /\ capture' = clearVideoCapture(capture)
  /\ UNCHANGED <<calls, audioStatus, pttHolding, lock>>

-----------------------------------------------------------------------------
(***************************************************************************)
(* Answers to requests                                                     *)
(***************************************************************************)
Answered(c, ask) == [c EXCEPT !.asks[ask] = @ - 1]

Lose(c, device, running) == IF running THEN c.lost \cup {device} ELSE c.lost

(* After the request of toggleVoiceRoom its last step follows.             *)
Resume(c, ask) ==
  capture' = IF ask = "room" THEN syncVideoCapture(c, audioStatus, videoStatus) ELSE c

(* getUserMedia gives the microphone; the stream before it is dropped.     *)
MicGranted(ask) ==
  /\ capture.asks[ask] > 0
  /\ Resume([Answered(capture, ask) EXCEPT !.micStream = TRUE, !.micCaptureState = "active",
               !.lost = Lose(capture, "mic", capture.micStream)], ask)
  /\ UNCHANGED <<native, audioStatus, videoStatus, pttHolding, lock, user>>

(* It is refused; or it is given, and the level meter cannot be set up.    *)
MicDenied(ask) ==
  /\ capture.asks[ask] > 0
  /\ \E given \in BOOLEAN :
       Resume([Answered(capture, ask) EXCEPT
                 !.micStream = given \/ capture.micStream, !.micCaptureState = "denied",
                 !.lost = Lose(capture, "mic", given /\ capture.micStream)], ask)
  /\ UNCHANGED <<native, audioStatus, videoStatus, pttHolding, lock, user>>

VideoGranted(kind) ==
  /\ capture.asks[kind] > 0
  /\ capture' = [Answered(capture, kind) EXCEPT !.videoStream = kind,
                   !.lost = Lose(capture, capture.videoStream, capture.videoStream # None)]
  /\ UNCHANGED <<native, audioStatus, videoStatus, pttHolding, lock, user>>

(* The user interface switches off what was refused.                       *)
VideoDenied(kind) ==
  /\ capture.asks[kind] > 0
  /\ capture' = Answered(capture, kind)
  /\ IF kind = "camera"
     THEN IF videoStatus.camera_enabled THEN Send(CameraOff("denied")) ELSE UNCHANGED calls
     ELSE IF videoStatus.screen_share_enabled THEN Send(ScreenOff("denied")) ELSE UNCHANGED calls
  /\ UNCHANGED <<audio, video, replies, audioStatus, videoStatus, pttHolding, lock, user>>

(* The user stops sharing the screen outside the application.              *)
ScreenEnds ==
  /\ Input("screen")
  /\ \/ capture.videoStream = "screen" /\ UNCHANGED capture
     \/ "screen" \in capture.lost /\ capture' = [capture EXCEPT !.lost = @ \ {"screen"}]
  /\ Send(ScreenOff("ended"))
  /\ UNCHANGED <<audio, video, replies, audioStatus, videoStatus, pttHolding, lock, user>>

-----------------------------------------------------------------------------
(***************************************************************************)
(* quickLock switches camera and screen sharing off, then locks the vault, *)
(* then stops the microphone.                                              *)
(***************************************************************************)
(* The rest of it, after the camera.                                       *)
LockAfterCamera(v) ==
  IF v # None /\ v.screen_share_enabled
  THEN Send(ScreenOff("lockScreen")) /\ lock' = "video" /\ UNCHANGED capture
  ELSE UNCHANGED calls /\ lock' = "vault" /\ capture' = clearVideoCapture(capture)

QuickLock ==
  /\ Input("lock")
  /\ lock = "none"
  /\ IF videoStatus # None /\ videoStatus.camera_enabled
     THEN Send(CameraOff("lockCamera")) /\ lock' = "video" /\ UNCHANGED capture
     ELSE LockAfterCamera(videoStatus)
  /\ UNCHANGED <<audio, video, replies, audioStatus, videoStatus, pttHolding, user>>

LockCameraReturns ==
  /\ Returns("lockCamera")
  /\ videoStatus' = Reply
  /\ LockAfterCamera(Reply)
  /\ UNCHANGED <<audioStatus, pttHolding>>

LockScreenReturns ==
  /\ Returns("lockScreen")
  /\ videoStatus' = Reply
  /\ lock' = "vault"
  /\ capture' = clearVideoCapture(capture)
  /\ UNCHANGED <<calls, audioStatus, pttHolding>>

(* vault_lock succeeds or fails.                                           *)
LockReturns ==
  /\ lock = "vault"
  /\ lock' = "none"
  /\ capture' \in {stopMicMonitoring(capture), capture}
  /\ UNCHANGED <<native, audioStatus, videoStatus, pttHolding, user>>

-----------------------------------------------------------------------------
User ==
  \/ ToggleMute \/ ToggleDeafened \/ TogglePushToTalk
  \/ \E room \in Rooms : ToggleVoiceRoom(room)
  \/ ToggleCamera \/ ToggleScreenShare \/ QuickLock
  \/ \E editable \in BOOLEAN : KeyDown(editable)
  \/ KeyUp \/ Blur \/ Focus

Browser ==
  \/ \E ask \in MicAsks : MicGranted(ask) \/ MicDenied(ask)
  \/ \E kind \in Asks \ MicAsks : VideoGranted(kind) \/ VideoDenied(kind)
  \/ ScreenEnds

Continue ==
  \/ AudioReturns \/ PushToTalkReturns
  \/ RoomReturns \/ RoomCameraReturns \/ RoomScreenReturns
  \/ VideoReturns \/ DeniedReturns \/ EndedReturns
  \/ LockCameraReturns \/ LockScreenReturns \/ LockReturns

Next == User \/ Execute \/ Browser \/ Continue

Spec == Init /\ [][Next]_vars

-----------------------------------------------------------------------------
(***************************************************************************)
(* Properties                                                              *)
(***************************************************************************)
(* No command is under way.                                                *)
Quiet == calls = << >> /\ replies = << >> /\ lock = "none"

(* Nor any request for a stream.                                           *)
Settled == Quiet /\ ~Open(capture, Asks)

(* Type invariant.  Camera and screen sharing exclude each other.          *)
TypeOK ==
  /\ audio \in AudioState
  /\ video \in VideoState
  /\ ~(video.camera_enabled /\ video.screen_share_enabled)
  /\ audioStatus \in AudioState \cup {None}
  /\ videoStatus \in VideoState \cup {None}
  /\ pttHolding \in BOOLEAN
  /\ capture \in Capture
  /\ lock \in {"none", "video", "vault"}
  /\ held \in BOOLEAN
  /\ focused \in BOOLEAN
  /\ controls \in Users

(* Push-to-talk transmits only while the key is down in the focused        *)
(* window, in whatever order pressing, releasing, losing the focus,        *)
(* switching push-to-talk and changing rooms overlap with the replies.     *)
PressedOnlyWhileHeld == Quiet /\ ~(held /\ focused) => ~audio.ptt_pressed

(* What the user interface shows as audio and video status is the native   *)
(* state, whenever no command is under way.                                *)
StatusCurrent == Quiet => audioStatus = Status(audio) /\ videoStatus = video

(* Camera and screen sharing are on only in a voice room, and a running    *)
(* stream is wanted: the microphone in a room and not muted, the camera or *)
(* the screen when that is what is on.  Streams are so unless a device was *)
(* asked for again, or switched off, while a request for it was open.      *)
CaptureMatchesStatus ==
  /\ Quiet /\ (video.camera_enabled \/ video.screen_share_enabled) => audio.joined_room # None
  /\ Settled /\ "mic" \notin capture.late /\ (capture.micStream \/ "mic" \in capture.lost)
       => canMonitorMic(audioStatus)
  /\ Settled /\ "video" \notin capture.late =>
       /\ capture.lost \subseteq {"mic"}
       /\ capture.videoStream = "camera" => video.camera_enabled /\ canUseVideo(audioStatus)
       /\ capture.videoStream = "screen" => video.screen_share_enabled /\ canUseVideo(audioStatus)
=============================================================================
