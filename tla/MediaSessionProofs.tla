------------------------- MODULE MediaSessionProofs -------------------------
(***************************************************************************)
(* Proofs about MediaSession for any number of rooms and of calls and      *)
(* requests under way.                                                     *)
(*                                                                         *)
(* The user interface acts on the status it shows, which lags behind the   *)
(* native state by the calls and replies on their way.  The invariant says *)
(* how: the last reply is the native state (LastShown); only the replies   *)
(* of toggleVoiceRoom bring another room (RoomFollows), only those of      *)
(* togglePushToTalk another setting (TalkFollows); the last press on its   *)
(* way is what the key is taken for (PressFollows); without a room camera  *)
(* and screen are off or about to be (VideoNeedsRoom).  What is captured   *)
(* is wanted according to the status shown, or a function under way will   *)
(* look at it again (MicFits, VideoFits).                                  *)
(***************************************************************************)
EXTENDS MediaSession, SequenceTheorems, TLAPS

-----------------------------------------------------------------------------
(***************************************************************************)
(* Calls, replies, and what executing a call does.                         *)
(***************************************************************************)
AudioPlaces == {"audio", "ptt", "room"}

VideoPlaces ==
  {"video", "roomCamera", "roomScreen", "lockCamera", "lockScreen", "denied", "ended"}

Calls ==
  [command : {"audio_status"}, arg : {None}, then : {"audio"}]
    \cup [command : {"audio_set_muted", "audio_set_deafened", "audio_set_ptt_pressed"},
          arg : BOOLEAN, then : {"audio"}]
    \cup [command : {"audio_set_push_to_talk"}, arg : BOOLEAN, then : {"ptt"}]
    \cup [command : {"audio_join_room"}, arg : Rooms, then : {"room"}]
    \cup [command : {"audio_leave_room"}, arg : {None}, then : {"room"}]
    \cup [command : {"video_status"}, arg : {None}, then : {"video"}]
    \cup [command : {"video_set_camera_enabled", "video_set_screen_share_enabled"},
          arg : BOOLEAN, then : {"video"}]
    \cup [command : {"video_set_camera_enabled"}, arg : {FALSE},
          then : {"roomCamera", "lockCamera", "denied"}]
    \cup [command : {"video_set_screen_share_enabled"}, arg : {FALSE},
          then : {"roomScreen", "lockScreen", "denied", "ended"}]

ReplySet ==
  [then : AudioPlaces, status : AudioState] \cup [then : VideoPlaces, status : VideoState]

Camera == "video_set_camera_enabled"
Screen == "video_set_screen_share_enabled"

(* Call c switches camera or screen sharing on, or off.                    *)
On(c, command) == c.command = command /\ c.arg = TRUE
Off(c, command) == c.command = command /\ c.arg = FALSE

IsPress(c) == c.command = "audio_set_ptt_pressed"

LEMMA CallTypes ==
  ASSUME NEW c \in Calls
  PROVE  /\ c.then \in AudioPlaces \cup VideoPlaces
         /\ c.then \in AudioPlaces <=> c.command \in AudioCommands
         /\ c.then = "ptt" <=> c.command = "audio_set_push_to_talk"
         /\ c.then = "room" <=> c.command \in {"audio_join_room", "audio_leave_room"}
         /\ c.command \in {"audio_set_muted", "audio_set_deafened", "audio_set_ptt_pressed",
                           "audio_set_push_to_talk", Camera, Screen} => c.arg \in BOOLEAN
         /\ c.command = "audio_join_room" => c.arg \in Rooms
         /\ c.then = "roomCamera" => Off(c, Camera)
         /\ c.command \in AudioCommands \/ c.command \in {"video_status", Camera, Screen}
BY DEF Calls, AudioPlaces, VideoPlaces, AudioCommands, Camera, Screen, Off

LEMMA ReplyTypes ==
  ASSUME NEW r \in ReplySet
  PROVE  /\ r.then \in AudioPlaces \cup VideoPlaces
         /\ r.then \in AudioPlaces => r.status \in AudioState
         /\ r.then \notin AudioPlaces => r.then \in VideoPlaces /\ r.status \in VideoState
         /\ r.status # None
<1>1. /\ r.then \in AudioPlaces \cup VideoPlaces
      /\ r.then \in AudioPlaces => r.status \in AudioState
      /\ r.then \notin AudioPlaces => r.then \in VideoPlaces /\ r.status \in VideoState
  BY DEF ReplySet, AudioPlaces, VideoPlaces
<1> QED BY <1>1, NoneAssumption

LEMMA AudioTypes ==
  ASSUME NEW a \in AudioState
  PROVE  /\ a.muted \in BOOLEAN /\ a.deafened \in BOOLEAN /\ a.push_to_talk \in BOOLEAN
         /\ a.ptt_pressed \in BOOLEAN /\ a.joined_room \in Rooms \cup {None}
BY DEF AudioState

LEMMA StatusTypes ==
  ASSUME NEW a \in AudioState
  PROVE  /\ Status(a) \in AudioState
         /\ Status(a).push_to_talk = a.push_to_talk
         /\ Status(a).joined_room = a.joined_room
BY DEF AudioState, Status

LEMMA RunAudioEffect ==
  ASSUME NEW c \in Calls, NEW a \in AudioState, a.ptt_pressed => a.push_to_talk
  PROVE  /\ RunAudio(a, c) \in AudioState
         /\ RunAudio(a, c).ptt_pressed => RunAudio(a, c).push_to_talk
         /\ c.then \notin AudioPlaces => RunAudio(a, c) = a
         /\ c.then # "ptt" => RunAudio(a, c).push_to_talk = a.push_to_talk
         /\ c.then = "ptt" => RunAudio(a, c).push_to_talk = c.arg
         /\ c.then # "room" => RunAudio(a, c).joined_room = a.joined_room
         /\ IsPress(c) => (RunAudio(a, c).ptt_pressed <=> a.push_to_talk /\ c.arg)
         /\ ~IsPress(c) /\ RunAudio(a, c).ptt_pressed => a.ptt_pressed
<1> USE DEF AudioState, IsPress
<1>1. CASE c.command = "audio_set_muted"
  <2>1. RunAudio(a, c) = SetMuted(a, c.arg) /\ c.then = "audio" /\ c.arg \in BOOLEAN
    BY <1>1 DEF RunAudio, Calls
  <2> QED BY <1>1, <2>1 DEF SetMuted, AudioPlaces
<1>2. CASE c.command = "audio_set_deafened"
  <2>1. RunAudio(a, c) = SetDeafened(a, c.arg) /\ c.then = "audio" /\ c.arg \in BOOLEAN
    BY <1>2 DEF RunAudio, Calls
  <2> QED BY <1>2, <2>1 DEF SetDeafened, AudioPlaces
<1>3. CASE c.command = "audio_set_push_to_talk"
  <2>1. RunAudio(a, c) = SetPushToTalk(a, c.arg) /\ c.then = "ptt" /\ c.arg \in BOOLEAN
    BY <1>3 DEF RunAudio, Calls
  <2> QED BY <1>3, <2>1 DEF SetPushToTalk, AudioPlaces
<1>4. CASE c.command = "audio_set_ptt_pressed"
  <2>1. RunAudio(a, c) = SetPttPressed(a, c.arg) /\ c.then = "audio" /\ c.arg \in BOOLEAN
    BY <1>4 DEF RunAudio, Calls
  <2> QED BY <1>4, <2>1 DEF SetPttPressed, AudioPlaces
<1>5. CASE c.command = "audio_join_room"
  <2>1. RunAudio(a, c) = JoinRoom(a, c.arg) /\ c.then = "room" /\ c.arg \in Rooms
    BY <1>5 DEF RunAudio, Calls
  <2> QED BY <1>5, <2>1 DEF JoinRoom, AudioPlaces
<1>6. CASE c.command = "audio_leave_room"
  <2>1. RunAudio(a, c) = LeaveRoom(a) /\ c.then = "room"
    BY <1>6 DEF RunAudio, Calls
  <2> QED BY <1>6, <2>1 DEF LeaveRoom, AudioPlaces
<1>7. CASE c.command \in {"audio_status", "video_status", Camera, Screen}
  <2>1. RunAudio(a, c) = a /\ c.then # "ptt"
    BY <1>7 DEF RunAudio, Calls, Camera, Screen
  <2> QED BY <1>7, <2>1 DEF Camera, Screen
<1>8. c.command \in {"audio_set_muted", "audio_set_deafened", "audio_set_push_to_talk",
                     "audio_set_ptt_pressed", "audio_join_room", "audio_leave_room",
                     "audio_status", "video_status", Camera, Screen}
  BY DEF Calls, Camera, Screen
<1> QED BY <1>1, <1>2, <1>3, <1>4, <1>5, <1>6, <1>7, <1>8

LEMMA RunVideoEffect ==
  ASSUME NEW c \in Calls, NEW v \in VideoState, ~(v.camera_enabled /\ v.screen_share_enabled),
         NEW w, w = RunVideo(v, c)
  PROVE  /\ w \in VideoState
         /\ ~(w.camera_enabled /\ w.screen_share_enabled)
         /\ c.then \in AudioPlaces => w = v
         /\ w.camera_enabled => v.camera_enabled \/ On(c, Camera)
         /\ Off(c, Camera) => ~w.camera_enabled
         /\ w.screen_share_enabled => v.screen_share_enabled \/ On(c, Screen)
         /\ Off(c, Screen) => ~w.screen_share_enabled
         /\ v = NewVideo /\ ~On(c, Camera) /\ ~On(c, Screen) => w = NewVideo
<1>0. v = [camera_enabled |-> v.camera_enabled, screen_share_enabled |-> v.screen_share_enabled]
      /\ v.camera_enabled \in BOOLEAN /\ v.screen_share_enabled \in BOOLEAN
  BY DEF VideoState
<1>1. CASE c.command = Camera
  <2>1. w = [camera_enabled |-> c.arg, screen_share_enabled |-> ~c.arg /\ v.screen_share_enabled]
    BY <1>1 DEF RunVideo, Camera, SetCameraEnabled
  <2>2. c.then \notin AudioPlaces /\ c.arg \in BOOLEAN /\ c.command # Screen
    BY <1>1 DEF Calls, Camera, Screen, AudioPlaces
  <2>3. w.camera_enabled = c.arg /\ w.screen_share_enabled = (~c.arg /\ v.screen_share_enabled)
    BY <2>1
  <2>4. w \in VideoState
    BY <1>0, <2>1, <2>2 DEF VideoState
  <2>5. v = NewVideo /\ ~On(c, Camera) => w = NewVideo
    BY <1>0, <1>1, <2>1, <2>2 DEF On, NewVideo
  <2> QED BY <1>0, <1>1, <2>2, <2>3, <2>4, <2>5 DEF On, Off
<1>2. CASE c.command = Screen
  <2>1. w = [screen_share_enabled |-> c.arg, camera_enabled |-> ~c.arg /\ v.camera_enabled]
    BY <1>2 DEF RunVideo, Screen, SetScreenShareEnabled
  <2>2. c.then \notin AudioPlaces /\ c.arg \in BOOLEAN /\ c.command # Camera
    BY <1>2 DEF Calls, Camera, Screen, AudioPlaces
  <2>3. w.screen_share_enabled = c.arg /\ w.camera_enabled = (~c.arg /\ v.camera_enabled)
    BY <2>1
  <2>4. w \in VideoState
    BY <1>0, <2>1, <2>2 DEF VideoState
  <2>5. v = NewVideo /\ ~On(c, Screen) => w = NewVideo
    BY <1>0, <1>2, <2>1, <2>2 DEF On, NewVideo
  <2> QED BY <1>0, <1>2, <2>2, <2>3, <2>4, <2>5 DEF On, Off
<1>3. CASE c.command \notin {Camera, Screen}
  <2>1. w = v
    BY <1>3 DEF RunVideo, Camera, Screen
  <2> QED BY <1>3, <2>1 DEF On, Off
<1> QED BY <1>1, <1>2, <1>3

-----------------------------------------------------------------------------
(***************************************************************************)
(* Queues.  Sequence t is s with x at its end; t is s without its head x.  *)
(***************************************************************************)
Grows(s, x, t) ==
  /\ Len(s) \in Nat /\ Len(t) = Len(s) + 1
  /\ \A i \in 1 .. Len(s) : t[i] = s[i]
  /\ t[Len(s) + 1] = x

Shrinks(s, x, t) ==
  /\ Len(t) \in Nat /\ Len(s) = Len(t) + 1
  /\ s[1] = x
  /\ \A i \in 1 .. Len(t) : t[i] = s[i + 1]

LEMMA AppendGrows ==
  ASSUME NEW S, NEW s \in Seq(S), NEW x \in S
  PROVE  Append(s, x) \in Seq(S) /\ Grows(s, x, Append(s, x))
BY DEF Grows

LEMMA TailShrinks ==
  ASSUME NEW S, NEW s \in Seq(S), s # << >>
  PROVE  /\ Tail(s) \in Seq(S) /\ Head(s) \in S
         /\ Shrinks(s, Head(s), Tail(s))
BY DEF Shrinks

(* The last reply to one of `places' on its way, or else what is shown, is *)
(* the native state; before the first such reply nothing is shown.         *)
LastShown(R, C, places, native_state, shown) ==
  /\ \A i \in 1 .. Len(R) :
       R[i].then \in places /\ (\A j \in 1 .. Len(R) : j > i => R[j].then \notin places)
         => R[i].status = native_state
  /\ (\A i \in 1 .. Len(R) : R[i].then \notin places) =>
       \/ shown = native_state
       \/ shown = None /\ \E k \in 1 .. Len(C) : C[k].then \in places

LEMMA LastSend ==
  ASSUME NEW R, NEW C, NEW D, NEW c, Grows(C, c, D), NEW places, NEW x, NEW shown,
         LastShown(R, C, places, x, shown)
  PROVE  LastShown(R, D, places, x, shown)
BY DEF Grows, LastShown

LEMMA LastExecute ==
  ASSUME NEW R, NEW Q, NEW C, NEW D, NEW c, NEW r, Grows(R, r, Q), Shrinks(C, c, D),
         r.then = c.then, NEW places, NEW x, NEW y, NEW shown,
         c.then \in places => r.status = y,
         c.then \notin places => y = x,
         LastShown(R, C, places, x, shown)
  PROVE  LastShown(Q, D, places, y, shown)
<1>1. CASE c.then \in places
  BY <1>1 DEF Grows, Shrinks, LastShown
<1>2. CASE c.then \notin places
  <2>1. \A i \in 1 .. Len(Q) : Q[i].then \in places => i \in 1 .. Len(R) /\ Q[i] = R[i]
    BY <1>2 DEF Grows
  <2>2. \A i \in 1 .. Len(R) : i \in 1 .. Len(Q) /\ Q[i] = R[i]
    BY DEF Grows
  <2>3. (\E k \in 1 .. Len(C) : C[k].then \in places) => \E k \in 1 .. Len(D) : D[k].then \in places
    <3> SUFFICES ASSUME NEW k \in 1 .. Len(C), C[k].then \in places
                 PROVE  \E j \in 1 .. Len(D) : D[j].then \in places
      OBVIOUS
    <3>1. k # 1 /\ k - 1 \in 1 .. Len(D) /\ D[k - 1] = C[k]
      BY <1>2 DEF Shrinks
    <3> QED BY <3>1
  <2> QED BY <1>2, <2>1, <2>2, <2>3 DEF LastShown
<1> QED BY <1>1, <1>2

LEMMA LastTake ==
  ASSUME NEW R, NEW Q, NEW r, Shrinks(R, r, Q), NEW C, NEW places, NEW x, NEW shown, NEW now_shown,
         now_shown = IF r.then \in places THEN r.status ELSE shown,
         LastShown(R, C, places, x, shown)
  PROVE  LastShown(Q, C, places, x, now_shown)
<1>1. \A i \in 1 .. Len(Q) : i + 1 \in 1 .. Len(R) /\ Q[i] = R[i + 1]
  BY DEF Shrinks
<1>2. \A j \in 1 .. Len(R) : j > 1 => j - 1 \in 1 .. Len(Q) /\ Q[j - 1] = R[j]
  BY DEF Shrinks
<1>3. 1 \in 1 .. Len(R) /\ R[1] = r
  BY DEF Shrinks
<1>4. ASSUME NEW i \in 1 .. Len(Q), Q[i].then \in places,
             \A j \in 1 .. Len(Q) : j > i => Q[j].then \notin places
      PROVE  Q[i].status = x
  <2>1. \A j \in 1 .. Len(R) : j > i + 1 => R[j].then \notin places
    BY <1>2, <1>4
  <2> QED BY <1>1, <1>4, <2>1 DEF LastShown
<1>5. ASSUME \A i \in 1 .. Len(Q) : Q[i].then \notin places
      PROVE  now_shown = x \/ (now_shown = None /\ \E k \in 1 .. Len(C) : C[k].then \in places)
  <2>1. \A j \in 1 .. Len(R) : j > 1 => R[j].then \notin places
    BY <1>2, <1>5
  <2>2. CASE r.then \in places
    BY <1>3, <2>1, <2>2 DEF LastShown
  <2>3. CASE r.then \notin places
    <3>1. \A j \in 1 .. Len(R) : R[j].then \notin places
      BY <1>3, <2>1, <2>3
    <3> QED BY <2>3, <3>1 DEF LastShown
  <2> QED BY <2>2, <2>3
<1> QED BY <1>4, <1>5 DEF LastShown

-----------------------------------------------------------------------------
(***************************************************************************)
(* The room.  Only a reply to toggleVoiceRoom brings another one.          *)
(***************************************************************************)
ShownRoom(sa) == IF sa = None THEN None ELSE sa.joined_room

NoRoom(R, i, j) == \A k \in i .. j : R[k].then # "room"

RoomFollows(R, a, sa) ==
  /\ \A i \in 1 .. Len(R) : R[i].then \in AudioPlaces =>
       /\ NoRoom(R, 1, i) => R[i].status.joined_room = ShownRoom(sa)
       /\ NoRoom(R, i + 1, Len(R)) => R[i].status.joined_room = a.joined_room
       /\ \A j \in i + 1 .. Len(R) : R[j].then \in AudioPlaces /\ NoRoom(R, i + 1, j) =>
            R[i].status.joined_room = R[j].status.joined_room
  /\ NoRoom(R, 1, Len(R)) => a.joined_room = ShownRoom(sa)

LEMMA RoomExecute ==
  ASSUME NEW R, NEW Q, NEW r, Grows(R, r, Q), NEW a, NEW b, NEW sa,
         r.then \in AudioPlaces => r.status.joined_room = b.joined_room,
         r.then # "room" => b.joined_room = a.joined_room,
         RoomFollows(R, a, sa)
  PROVE  RoomFollows(Q, b, sa)
<1>1. /\ Len(R) \in Nat /\ Len(Q) = Len(R) + 1 /\ Q[Len(R) + 1] = r
      /\ \A i \in 1 .. Len(R) : Q[i] = R[i]
  BY DEF Grows
<1>2. \A i, j \in Nat : i >= 1 /\ j <= Len(R) => (NoRoom(Q, i, j) <=> NoRoom(R, i, j))
  BY <1>1 DEF NoRoom
<1>3. \A i \in Nat : i >= 1 /\ i <= Len(R) + 1 /\ NoRoom(Q, i, Len(Q)) =>
        r.then # "room" /\ NoRoom(R, i, Len(R))
  BY <1>1 DEF NoRoom
<1>4. ASSUME NEW i \in 1 .. Len(R), Q[i].then \in AudioPlaces
      PROVE  /\ NoRoom(Q, 1, i) => Q[i].status.joined_room = ShownRoom(sa)
             /\ NoRoom(Q, i + 1, Len(Q)) => Q[i].status.joined_room = b.joined_room
             /\ \A j \in i + 1 .. Len(Q) : Q[j].then \in AudioPlaces /\ NoRoom(Q, i + 1, j) =>
                  Q[i].status.joined_room = Q[j].status.joined_room
  <2>1. NoRoom(Q, 1, i) => Q[i].status.joined_room = ShownRoom(sa)
    BY <1>1, <1>2, <1>4 DEF RoomFollows
  <2>2. NoRoom(Q, i + 1, Len(Q)) => Q[i].status.joined_room = b.joined_room
    BY <1>1, <1>3, <1>4 DEF RoomFollows
  <2>3. ASSUME NEW j \in i + 1 .. Len(Q), Q[j].then \in AudioPlaces, NoRoom(Q, i + 1, j)
        PROVE  Q[i].status.joined_room = Q[j].status.joined_room
    <3>1. CASE j = Len(R) + 1
      BY <1>1, <2>2, <2>3, <3>1
    <3>2. CASE j # Len(R) + 1
      <4>1. j \in i + 1 .. Len(R) /\ j \in 1 .. Len(R) /\ i + 1 \in Nat /\ j \in Nat
        BY <1>1, <3>2
      <4>2. NoRoom(R, i + 1, j) /\ Q[i] = R[i] /\ Q[j] = R[j]
        BY <1>1, <1>2, <2>3, <4>1
      <4> QED BY <1>4, <2>3, <4>1, <4>2 DEF RoomFollows
    <3> QED BY <3>1, <3>2
  <2> QED BY <2>1, <2>2, <2>3
<1>5. NoRoom(Q, 1, Len(Q)) => b.joined_room = ShownRoom(sa)
  BY <1>1, <1>3 DEF RoomFollows
<1>6. ASSUME r.then \in AudioPlaces
      PROVE  NoRoom(Q, 1, Len(Q)) => r.status.joined_room = ShownRoom(sa)
  BY <1>5, <1>6
<1>7. \A i \in 1 .. Len(Q) : i \in 1 .. Len(R) \/ i = Len(R) + 1
  BY <1>1
<1>8. ASSUME NEW i \in 1 .. Len(Q), i = Len(R) + 1, Q[i].then \in AudioPlaces
      PROVE  /\ NoRoom(Q, 1, i) => Q[i].status.joined_room = ShownRoom(sa)
             /\ NoRoom(Q, i + 1, Len(Q)) => Q[i].status.joined_room = b.joined_room
             /\ \A j \in i + 1 .. Len(Q) : FALSE
  BY <1>1, <1>6, <1>8
<1> QED BY <1>4, <1>5, <1>7, <1>8 DEF RoomFollows

LEMMA RoomTake ==
  ASSUME NEW R, NEW Q, NEW r, Shrinks(R, r, Q), NEW a, NEW sa, NEW ta,
         ta = IF r.then \in AudioPlaces THEN r.status ELSE sa,
         r.then \in AudioPlaces => r.status # None,
         RoomFollows(R, a, sa)
  PROVE  /\ RoomFollows(Q, a, ta)
         /\ r.then # "room" => ShownRoom(ta) = ShownRoom(sa)
<1>1. /\ Len(Q) \in Nat /\ Len(R) = Len(Q) + 1 /\ R[1] = r
      /\ \A i \in 1 .. Len(Q) : Q[i] = R[i + 1]
  BY DEF Shrinks
<1>2. \A i, j \in Nat : i >= 1 /\ j <= Len(Q) => (NoRoom(Q, i, j) <=> NoRoom(R, i + 1, j + 1))
  <2> SUFFICES ASSUME NEW i \in Nat, NEW j \in Nat, i >= 1, j <= Len(Q)
               PROVE  NoRoom(Q, i, j) <=> NoRoom(R, i + 1, j + 1)
    OBVIOUS
  <2>1. ASSUME NoRoom(Q, i, j), NEW k \in i + 1 .. j + 1
        PROVE  R[k].then # "room"
    <3>1. k - 1 \in i .. j /\ k - 1 \in 1 .. Len(Q) /\ (k - 1) + 1 = k
      BY <1>1
    <3>2. Q[k - 1].then # "room"
      BY <2>1, <3>1 DEF NoRoom
    <3>3. Q[k - 1] = R[(k - 1) + 1]
      BY <1>1, <3>1
    <3> QED BY <3>1, <3>2, <3>3
  <2>2. ASSUME NoRoom(R, i + 1, j + 1), NEW k \in i .. j
        PROVE  Q[k].then # "room"
    BY <1>1, <2>2 DEF NoRoom
  <2> QED BY <2>1, <2>2 DEF NoRoom
<1>3. 1 \in 1 .. Len(R) /\ \A i \in 1 .. Len(Q) : i \in Nat /\ i + 1 \in Nat /\ i + 1 \in 1 .. Len(R) /\ i + 1 \in 1 + 1 .. Len(R)
  BY <1>1
<1>4. \A j \in Nat : NoRoom(R, 2, j) /\ r.then # "room" => NoRoom(R, 1, j)
  BY <1>1 DEF NoRoom
<1>5. r.then # "room" => ShownRoom(ta) = ShownRoom(sa)
  <2>1. CASE r.then \in AudioPlaces /\ r.then # "room"
    <3>1. NoRoom(R, 1, 1)
      BY <1>1, <2>1 DEF NoRoom
    <3> QED BY <1>1, <1>3, <2>1, <3>1 DEF RoomFollows, ShownRoom
  <2>2. CASE r.then \notin AudioPlaces
    BY <2>2
  <2> QED BY <2>1, <2>2
<1>6. ASSUME NEW i \in 1 .. Len(Q), Q[i].then \in AudioPlaces
      PROVE  NoRoom(Q, 1, i) => Q[i].status.joined_room = ShownRoom(ta)
  <2> SUFFICES ASSUME NoRoom(Q, 1, i)
               PROVE  Q[i].status.joined_room = ShownRoom(ta)
    OBVIOUS
  <2>1. NoRoom(R, 2, i + 1) /\ Q[i] = R[i + 1]
    BY <1>1, <1>2, <1>3
  <2>2. CASE r.then \in AudioPlaces
    <3>1. R[1].status.joined_room = R[i + 1].status.joined_room
      BY <1>1, <1>3, <1>6, <2>1, <2>2 DEF RoomFollows
    <3> QED BY <1>1, <2>1, <2>2, <3>1 DEF ShownRoom
  <2>3. CASE r.then \notin AudioPlaces
    <3>1. NoRoom(R, 1, i + 1)
      BY <1>3, <1>4, <2>1, <2>3 DEF AudioPlaces
    <3> QED BY <1>3, <1>6, <2>1, <2>3, <3>1 DEF RoomFollows
  <2> QED BY <2>2, <2>3
<1>7. ASSUME NEW i \in 1 .. Len(Q), Q[i].then \in AudioPlaces
      PROVE  NoRoom(Q, i + 1, Len(Q)) => Q[i].status.joined_room = a.joined_room
  <2>1. NoRoom(Q, i + 1, Len(Q)) => NoRoom(R, (i + 1) + 1, Len(R))
    BY <1>1, <1>2, <1>3
  <2> QED BY <1>1, <1>3, <1>7, <2>1 DEF RoomFollows
<1>8. ASSUME NEW i \in 1 .. Len(Q), Q[i].then \in AudioPlaces,
             NEW j \in i + 1 .. Len(Q), Q[j].then \in AudioPlaces, NoRoom(Q, i + 1, j)
      PROVE  Q[i].status.joined_room = Q[j].status.joined_room
  <2>1. j \in 1 .. Len(Q) /\ j + 1 \in (i + 1) + 1 .. Len(R)
    BY <1>1
  <2>2. NoRoom(R, (i + 1) + 1, j + 1) /\ Q[i] = R[i + 1] /\ Q[j] = R[j + 1]
    BY <1>1, <1>2, <1>3, <1>8, <2>1
  <2> QED BY <1>3, <1>8, <2>1, <2>2 DEF RoomFollows
<1>9. ASSUME NoRoom(Q, 1, Len(Q))
      PROVE  a.joined_room = ShownRoom(ta)
  <2>1. NoRoom(R, 2, Len(R))
    BY <1>1, <1>2, <1>9
  <2>2. CASE r.then \in AudioPlaces
    BY <1>1, <1>3, <2>1, <2>2 DEF RoomFollows, ShownRoom
  <2>3. CASE r.then \notin AudioPlaces
    <3>1. NoRoom(R, 1, Len(R))
      BY <1>1, <1>4, <2>1, <2>3 DEF AudioPlaces
    <3> QED BY <2>3, <3>1 DEF RoomFollows
  <2> QED BY <2>2, <2>3
<1> QED BY <1>5, <1>6, <1>7, <1>8, <1>9 DEF RoomFollows

-----------------------------------------------------------------------------
(***************************************************************************)
(* Push-to-talk.  T is what the user interface shows.  A toggle asks for   *)
(* the opposite of what is shown, so that of the replies under way those   *)
(* up to some place agree with what is shown, and the others do not.       *)
(***************************************************************************)
Talk(sa) == sa # None /\ sa.push_to_talk

Toggles(r, T) == r.then = "ptt" /\ r.status.push_to_talk # T

TalkTyped(R) == \A i \in 1 .. Len(R) :
                  R[i].then \in AudioPlaces => R[i].status.push_to_talk \in BOOLEAN

TalkFollows(R, C, p, T) ==
  /\ \A i \in 1 .. Len(R) : R[i].then \in AudioPlaces =>
       (R[i].status.push_to_talk # T <=> \E j \in 1 .. i : Toggles(R[j], T))
  /\ p # T <=> \E j \in 1 .. Len(R) : Toggles(R[j], T)
  /\ \A j \in 1 .. Len(R), k \in 1 .. Len(C) :
       Toggles(R[j], T) /\ C[k].then = "ptt" => C[k].arg # T
  /\ \A j, k \in 1 .. Len(C) :
       j < k /\ C[j].then = "ptt" /\ C[k].then = "ptt" /\ C[j].arg # T => C[k].arg # T

LEMMA TalkSend ==
  ASSUME NEW R, NEW C, NEW D, NEW c, Grows(C, c, D), NEW p, NEW T,
         c.then = "ptt" => c.arg # T,
         TalkFollows(R, C, p, T)
  PROVE  TalkFollows(R, D, p, T)
<1>1. \A k \in 1 .. Len(D) : D[k] = c \/ (k \in 1 .. Len(C) /\ D[k] = C[k])
  BY DEF Grows
<1>2. \A j, k \in 1 .. Len(D) : j < k => j \in 1 .. Len(C) /\ D[j] = C[j]
  BY DEF Grows
<1> QED BY <1>1, <1>2 DEF TalkFollows

LEMMA TalkExecute ==
  ASSUME NEW R, NEW Q, NEW C, NEW D, NEW c, NEW r, Grows(R, r, Q), Shrinks(C, c, D),
         r.then = c.then, NEW p, NEW q, NEW T,
         r.then \in AudioPlaces => r.status.push_to_talk = q,
         c.then = "ptt" => q = c.arg,
         c.then # "ptt" => q = p,
         TalkFollows(R, C, p, T)
  PROVE  TalkFollows(Q, D, q, T)
<1>1. /\ Len(R) \in Nat /\ Len(Q) = Len(R) + 1 /\ Q[Len(R) + 1] = r
      /\ \A i \in 1 .. Len(R) : Q[i] = R[i]
  BY DEF Grows
<1>2. /\ 1 \in 1 .. Len(C) /\ C[1] = c
      /\ \A k \in 1 .. Len(D) : k + 1 \in 1 .. Len(C) /\ D[k] = C[k + 1] /\ 1 < k + 1
      /\ \A j, k \in 1 .. Len(D) : j < k => j + 1 < k + 1
  BY DEF Shrinks
<1>3. \A j \in 1 .. Len(Q) : (j \in 1 .. Len(R) /\ Q[j] = R[j]) \/ (j = Len(R) + 1 /\ Q[j] = r)
  BY <1>1
<1>4. \A i \in 1 .. Len(R) : (\E j \in 1 .. i : Toggles(Q[j], T)) <=> (\E j \in 1 .. i : Toggles(R[j], T))
  BY <1>1
<1>5. (\E j \in 1 .. Len(Q) : Toggles(Q[j], T)) <=> (\E j \in 1 .. Len(R) : Toggles(R[j], T)) \/ Toggles(r, T)
  <2>1. Len(Q) \in 1 .. Len(Q) /\ \A j \in 1 .. Len(R) : j \in 1 .. Len(Q)
    BY <1>1
  <2> QED BY <1>1, <1>3, <2>1
<1>6. q # T <=> \E j \in 1 .. Len(Q) : Toggles(Q[j], T)
  <2>1. CASE c.then = "ptt"
    <3>1. Toggles(r, T) <=> q # T
      BY <2>1 DEF Toggles, AudioPlaces
    <3>2. (\E j \in 1 .. Len(R) : Toggles(R[j], T)) => q # T
      BY <1>2, <2>1 DEF TalkFollows
    <3> QED BY <1>5, <3>1, <3>2
  <2>2. CASE c.then # "ptt"
    <3>1. ~Toggles(r, T)
      BY <2>2 DEF Toggles
    <3> QED BY <1>5, <2>2, <3>1 DEF TalkFollows
  <2> QED BY <2>1, <2>2
<1>7. ASSUME NEW i \in 1 .. Len(Q), Q[i].then \in AudioPlaces
      PROVE  Q[i].status.push_to_talk # T <=> \E j \in 1 .. i : Toggles(Q[j], T)
  <2>1. CASE i \in 1 .. Len(R)
    BY <1>1, <1>4, <1>7, <2>1 DEF TalkFollows
  <2>2. CASE i = Len(R) + 1
    BY <1>1, <1>6, <1>7, <2>2
  <2> QED BY <1>3, <2>1, <2>2
<1>8. ASSUME NEW j \in 1 .. Len(Q), NEW k \in 1 .. Len(D), Toggles(Q[j], T), D[k].then = "ptt"
      PROVE  D[k].arg # T
  <2>1. CASE j \in 1 .. Len(R) /\ Q[j] = R[j]
    BY <1>2, <1>8, <2>1 DEF TalkFollows
  <2>2. CASE Q[j] = r
    <3>1. c.then = "ptt" /\ c.arg # T
      BY <1>8, <2>2 DEF Toggles, AudioPlaces
    <3> QED BY <1>2, <1>8, <3>1 DEF TalkFollows
  <2> QED BY <1>3, <2>1, <2>2
<1>9. \A j, k \in 1 .. Len(D) :
        j < k /\ D[j].then = "ptt" /\ D[k].then = "ptt" /\ D[j].arg # T => D[k].arg # T
  BY <1>2 DEF TalkFollows
<1> QED BY <1>6, <1>7, <1>8, <1>9 DEF TalkFollows

LEMMA TalkTake ==
  ASSUME NEW R, NEW Q, NEW r, Shrinks(R, r, Q), TalkTyped(R), NEW C,
         NEW p \in BOOLEAN, NEW T \in BOOLEAN, NEW U,
         U = IF r.then \in AudioPlaces THEN r.status.push_to_talk ELSE T,
         \A k \in 1 .. Len(C) : C[k].then = "ptt" => C[k].arg \in BOOLEAN,
         TalkFollows(R, C, p, T)
  PROVE  /\ TalkFollows(Q, C, p, U)
         /\ r.then # "ptt" => U = T
         /\ U # T => p = U /\ \A k \in 1 .. Len(C) : C[k].then = "ptt" => C[k].arg = U
<1>1. /\ Len(Q) \in Nat /\ Len(R) = Len(Q) + 1 /\ R[1] = r /\ 1 \in 1 .. Len(R)
      /\ \A i \in 1 .. Len(Q) : i + 1 \in 1 .. Len(R) /\ Q[i] = R[i + 1]
      /\ \A j \in 1 .. Len(R) : j = 1 \/ (j - 1 \in 1 .. Len(Q) /\ Q[j - 1] = R[j])
  BY DEF Shrinks
<1>2. r.then \in AudioPlaces => (r.status.push_to_talk # T <=> Toggles(r, T))
  <2>1. (\E j \in 1 .. 1 : Toggles(R[j], T)) <=> Toggles(r, T)
    BY <1>1
  <2> QED BY <1>1, <2>1 DEF TalkFollows
<1>3. U # T <=> Toggles(r, T)
  BY <1>2 DEF Toggles, AudioPlaces
<1>4. CASE U = T
  <2>1. ~Toggles(R[1], T)
    BY <1>1, <1>3, <1>4
  <2>2. \A i \in 1 .. Len(Q) : (\E j \in 1 .. i : Toggles(Q[j], T)) <=> (\E j \in 1 .. i + 1 : Toggles(R[j], T))
    <3> SUFFICES ASSUME NEW i \in 1 .. Len(Q)
                 PROVE  (\E j \in 1 .. i : Toggles(Q[j], T)) <=> (\E j \in 1 .. i + 1 : Toggles(R[j], T))
      OBVIOUS
    <3>1. ASSUME NEW j \in 1 .. i, Toggles(Q[j], T)
          PROVE  \E k \in 1 .. i + 1 : Toggles(R[k], T)
      <4>1. j + 1 \in 1 .. i + 1 /\ j \in 1 .. Len(Q)
        BY <1>1
      <4> QED BY <1>1, <3>1, <4>1
    <3>2. ASSUME NEW k \in 1 .. i + 1, Toggles(R[k], T)
          PROVE  \E j \in 1 .. i : Toggles(Q[j], T)
      <4>1. k # 1 /\ k \in 1 .. Len(R)
        BY <1>1, <2>1, <3>2
      <4>2. k - 1 \in 1 .. i /\ Q[k - 1] = R[k]
        BY <1>1, <4>1
      <4> QED BY <3>2, <4>2
    <3> QED BY <3>1, <3>2
  <2>3. (\E j \in 1 .. Len(Q) : Toggles(Q[j], T)) <=> (\E j \in 1 .. Len(R) : Toggles(R[j], T))
    BY <1>1, <2>1
  <2>4. TalkFollows(Q, C, p, T)
    <3>1. \A i \in 1 .. Len(Q) : Q[i].then \in AudioPlaces =>
            (Q[i].status.push_to_talk # T <=> \E j \in 1 .. i : Toggles(Q[j], T))
      <4> SUFFICES ASSUME NEW i \in 1 .. Len(Q), Q[i].then \in AudioPlaces
                   PROVE  Q[i].status.push_to_talk # T <=> \E j \in 1 .. i : Toggles(Q[j], T)
        OBVIOUS
      <4>1. R[i + 1].status.push_to_talk # T <=> \E j \in 1 .. i + 1 : Toggles(R[j], T)
        BY <1>1 DEF TalkFollows
      <4> QED BY <1>1, <2>2, <4>1
    <3>2. \A j \in 1 .. Len(Q), k \in 1 .. Len(C) :
            Toggles(Q[j], T) /\ C[k].then = "ptt" => C[k].arg # T
      BY <1>1 DEF TalkFollows
    <3>3. p # T <=> \E j \in 1 .. Len(Q) : Toggles(Q[j], T)
      BY <2>3 DEF TalkFollows
    <3> QED BY <3>1, <3>2, <3>3 DEF TalkFollows
  <2> QED BY <1>4, <2>4
<1>5. CASE U # T
  <2>1. Toggles(R[1], T) /\ r.then = "ptt" /\ U \in BOOLEAN
    BY <1>1, <1>3, <1>5 DEF Toggles, TalkTyped, AudioPlaces
  <2>2. p # T
    BY <1>1, <2>1 DEF TalkFollows
  <2>3. p = U
    BY <1>5, <2>1, <2>2
  <2>4. \A k \in 1 .. Len(C) : C[k].then = "ptt" => C[k].arg # T
    BY <1>1, <2>1 DEF TalkFollows
  <2>5. \A k \in 1 .. Len(C) : C[k].then = "ptt" => C[k].arg = U
    BY <1>5, <2>1, <2>4
  <2>6. \A i \in 1 .. Len(Q) : Q[i].then \in AudioPlaces => Q[i].status.push_to_talk # T
    <3> SUFFICES ASSUME NEW i \in 1 .. Len(Q), Q[i].then \in AudioPlaces
                 PROVE  Q[i].status.push_to_talk # T
      OBVIOUS
    <3>1. 1 \in 1 .. i + 1
      BY <1>1
    <3> QED BY <1>1, <2>1, <3>1 DEF TalkFollows
  <2>7. \A i \in 1 .. Len(Q) : Q[i].then \in AudioPlaces => Q[i].status.push_to_talk = U
    <3>1. \A i \in 1 .. Len(Q) : Q[i].then \in AudioPlaces => Q[i].status.push_to_talk \in BOOLEAN
      BY <1>1 DEF TalkTyped
    <3> QED BY <1>5, <2>1, <2>6, <3>1
  <2>8. \A i \in 1 .. Len(Q) : ~Toggles(Q[i], U)
    BY <2>7 DEF Toggles, AudioPlaces
  <2>9. \A i \in 1 .. Len(Q) : ~\E j \in 1 .. i : Toggles(Q[j], U)
    <3>1. \A i \in 1 .. Len(Q) : \A j \in 1 .. i : j \in 1 .. Len(Q)
      BY <1>1
    <3> QED BY <2>8, <3>1
  <2>10. TalkFollows(Q, C, p, U)
    BY <2>3, <2>5, <2>7, <2>8, <2>9 DEF TalkFollows
  <2> QED BY <1>5, <2>1, <2>3, <2>5, <2>10
<1> QED BY <1>4, <1>5

(* The key.  While push-to-talk is shown, the last press on its way is     *)
(* what the key is taken for; otherwise no press can have any effect.      *)
PressFollows(C, a, T, h) ==
  /\ T => /\ \A k \in 1 .. Len(C) :
               IsPress(C[k]) /\ (\A j \in 1 .. Len(C) : j > k => ~IsPress(C[j])) => C[k].arg = h
          /\ (\A k \in 1 .. Len(C) : ~IsPress(C[k])) /\ a.ptt_pressed => h
  /\ ~T => /\ ~a.ptt_pressed
           /\ \A k \in 1 .. Len(C) : IsPress(C[k]) =>
                /\ ~a.push_to_talk
                /\ \A j \in 1 .. k - 1 : C[j].then = "ptt" => ~C[j].arg

LEMMA PressSend ==
  ASSUME NEW C, NEW D, NEW c, Grows(C, c, D), NEW a, NEW T, NEW h, ~IsPress(c),
         PressFollows(C, a, T, h)
  PROVE  PressFollows(D, a, T, h)
<1>1. \A k \in 1 .. Len(D) : IsPress(D[k]) => k \in 1 .. Len(C) /\ D[k] = C[k]
  BY DEF Grows
<1>2. \A k \in 1 .. Len(C) : k \in 1 .. Len(D) /\ D[k] = C[k] /\ \A j \in 1 .. k - 1 : D[j] = C[j]
  BY DEF Grows
<1> QED BY <1>1, <1>2 DEF PressFollows

LEMMA PressPress ==
  ASSUME NEW C, NEW D, NEW c, Grows(C, c, D), NEW a, NEW T, T, NEW h, NEW g, IsPress(c), c.arg = g,
         PressFollows(C, a, T, h)
  PROVE  PressFollows(D, a, T, g)
<1>1. Len(D) \in 1 .. Len(D) /\ D[Len(D)] = c /\ \A k \in 1 .. Len(D) : k = Len(D) \/ Len(D) > k
  BY DEF Grows
<1> QED BY <1>1 DEF PressFollows

LEMMA PressExecute ==
  ASSUME NEW C, NEW D, NEW c, Shrinks(C, c, D), NEW a, NEW b, NEW T, NEW h,
         b.ptt_pressed => b.push_to_talk,
         c.then # "ptt" => b.push_to_talk = a.push_to_talk,
         c.then = "ptt" => b.push_to_talk = c.arg /\ ~IsPress(c),
         IsPress(c) => (b.ptt_pressed <=> a.push_to_talk /\ c.arg),
         ~IsPress(c) /\ b.ptt_pressed => a.ptt_pressed,
         PressFollows(C, a, T, h)
  PROVE  PressFollows(D, b, T, h)
<1>1. /\ 1 \in 1 .. Len(C) /\ C[1] = c /\ Len(D) \in Nat
      /\ \A k \in 1 .. Len(D) : k + 1 \in 1 .. Len(C) /\ D[k] = C[k + 1]
      /\ \A k \in 1 .. Len(C) : k = 1 \/ (k > 1 /\ k - 1 \in 1 .. Len(D) /\ D[k - 1] = C[k])
  BY DEF Shrinks
<1>2. CASE T
  <2>1. ASSUME NEW k \in 1 .. Len(D), IsPress(D[k]), \A j \in 1 .. Len(D) : j > k => ~IsPress(D[j])
        PROVE  D[k].arg = h
    <3>1. \A j \in 1 .. Len(C) : j > k + 1 => j - 1 > k /\ j # 1
      BY <1>1
    <3>2. \A j \in 1 .. Len(C) : j > k + 1 => ~IsPress(C[j])
      BY <1>1, <2>1, <3>1
    <3> QED BY <1>1, <1>2, <2>1, <3>2 DEF PressFollows
  <2>2. ASSUME \A k \in 1 .. Len(D) : ~IsPress(D[k]), b.ptt_pressed
        PROVE  h
    <3>1. \A j \in 1 .. Len(C) : j > 1 => ~IsPress(C[j])
      BY <1>1, <2>2
    <3>2. CASE IsPress(c)
      BY <1>1, <1>2, <2>2, <3>1, <3>2 DEF PressFollows
    <3>3. CASE ~IsPress(c)
      <4>1. \A j \in 1 .. Len(C) : ~IsPress(C[j])
        BY <1>1, <3>1, <3>3
      <4> QED BY <1>2, <2>2, <3>3, <4>1 DEF PressFollows
    <3> QED BY <3>2, <3>3
  <2> QED BY <1>2, <2>1, <2>2 DEF PressFollows
<1>3. CASE ~T
  <2>1. ~b.ptt_pressed
    BY <1>1, <1>3 DEF PressFollows
  <2>2. ASSUME NEW k \in 1 .. Len(D), IsPress(D[k])
        PROVE  /\ ~b.push_to_talk
               /\ \A j \in 1 .. k - 1 : D[j].then = "ptt" => ~D[j].arg
    <3>1. /\ ~a.push_to_talk
          /\ \A j \in 1 .. (k + 1) - 1 : C[j].then = "ptt" => ~C[j].arg
      BY <1>1, <1>3, <2>2 DEF PressFollows
    <3>2. 1 \in 1 .. (k + 1) - 1 /\ \A j \in 1 .. k - 1 : j + 1 \in 1 .. (k + 1) - 1 /\ j \in 1 .. Len(D)
      BY <1>1
    <3>3. ~b.push_to_talk
      BY <1>1, <3>1, <3>2
    <3> QED BY <1>1, <3>1, <3>2, <3>3
  <2> QED BY <1>3, <2>1, <2>2 DEF PressFollows
<1> QED BY <1>2, <1>3

(* Another setting of push-to-talk is shown, and the key taken for up.     *)
LEMMA PressShown ==
  ASSUME NEW C, NEW a, NEW T \in BOOLEAN, NEW U \in BOOLEAN, U # T, NEW h, NEW g,
         a.ptt_pressed => a.push_to_talk,
         a.push_to_talk = U,
         \A k \in 1 .. Len(C) : C[k].then = "ptt" => C[k].arg = U,
         Len(C) \in Nat,
         PressFollows(C, a, T, h)
  PROVE  PressFollows(C, a, U, g)
<1>1. CASE U
  <2>1. ~T
    BY <1>1
  <2> QED BY <1>1, <2>1 DEF PressFollows
<1>2. CASE ~U
  <2>1. \A k \in 1 .. Len(C) : \A j \in 1 .. k - 1 : j \in 1 .. Len(C)
    OBVIOUS
  <2> QED BY <1>2, <2>1 DEF PressFollows
<1> QED BY <1>1, <1>2

-----------------------------------------------------------------------------
(***************************************************************************)
(* Camera and screen sharing.                                              *)
(***************************************************************************)
(* A call to one of `places', or its reply, is on its way.                 *)
UnderWay(R, C, places) ==
  \/ \E k \in 1 .. Len(C) : C[k].then \in places
  \/ \E i \in 1 .. Len(R) : R[i].then \in places

LEMMA UnderWaySend ==
  ASSUME NEW R, NEW C, NEW D, NEW c, Grows(C, c, D), NEW places,
         UnderWay(R, C, places) \/ c.then \in places
  PROVE  UnderWay(R, D, places)
<1>1. Len(D) \in 1 .. Len(D) /\ D[Len(D)] = c
  BY DEF Grows
<1>2. \A k \in 1 .. Len(C) : k \in 1 .. Len(D) /\ D[k] = C[k]
  BY DEF Grows
<1> QED BY <1>1, <1>2 DEF UnderWay

LEMMA UnderWayExecute ==
  ASSUME NEW R, NEW Q, NEW C, NEW D, NEW c, NEW r, Grows(R, r, Q), Shrinks(C, c, D),
         r.then = c.then, NEW places, UnderWay(R, C, places)
  PROVE  UnderWay(Q, D, places)
<1>1. Len(Q) \in 1 .. Len(Q) /\ Q[Len(Q)] = r /\ \A k \in 1 .. Len(R) : k \in 1 .. Len(Q) /\ Q[k] = R[k]
  BY DEF Grows
<1>2. \A k \in 1 .. Len(C) : C[k] = c \/ (k - 1 \in 1 .. Len(D) /\ D[k - 1] = C[k])
  BY DEF Shrinks
<1> QED BY <1>1, <1>2 DEF UnderWay

LEMMA UnderWayTake ==
  ASSUME NEW R, NEW Q, NEW r, Shrinks(R, r, Q), NEW C, NEW places, r.then \notin places,
         UnderWay(R, C, places)
  PROVE  UnderWay(Q, C, places)
<1>1. \A k \in 1 .. Len(R) : R[k] = r \/ (k - 1 \in 1 .. Len(Q) /\ Q[k - 1] = R[k])
  BY DEF Shrinks
<1> QED BY <1>1 DEF UnderWay

(* It is off and stays off, or a call on its way switches it off for good. *)
GoesOff(C, command, running) ==
  \/ ~running /\ \A k \in 1 .. Len(C) : ~On(C[k], command)
  \/ \E i \in 1 .. Len(C) :
       Off(C[i], command) /\ \A k \in 1 .. Len(C) : k > i => ~On(C[k], command)

LEMMA GoesOffSend ==
  ASSUME NEW C, NEW D, NEW c, Grows(C, c, D), NEW command, NEW running,
         \/ ~On(c, command) /\ GoesOff(C, command, running)
         \/ Off(c, command)
  PROVE  GoesOff(D, command, running)
<1>1. /\ Len(D) \in 1 .. Len(D) /\ D[Len(D)] = c
      /\ \A k \in 1 .. Len(D) : ~(k > Len(D))
      /\ \A k \in 1 .. Len(D) : (k \in 1 .. Len(C) /\ D[k] = C[k]) \/ D[k] = c
      /\ \A k \in 1 .. Len(C) : k \in 1 .. Len(D) /\ D[k] = C[k]
  BY DEF Grows
<1> QED BY <1>1 DEF GoesOff

LEMMA GoesOffExecute ==
  ASSUME NEW C, NEW D, NEW c, Shrinks(C, c, D), NEW command, NEW before, NEW after,
         after => before \/ On(c, command),
         Off(c, command) => ~after,
         GoesOff(C, command, before)
  PROVE  GoesOff(D, command, after)
<1>1. /\ 1 \in 1 .. Len(C) /\ C[1] = c
      /\ \A k \in 1 .. Len(D) : k + 1 \in 1 .. Len(C) /\ D[k] = C[k + 1] /\ k + 1 > 1
  BY DEF Shrinks
<1>2. CASE ~before /\ \A k \in 1 .. Len(C) : ~On(C[k], command)
  BY <1>1, <1>2 DEF GoesOff
<1>3. ASSUME NEW i \in 1 .. Len(C), Off(C[i], command),
             \A k \in 1 .. Len(C) : k > i => ~On(C[k], command)
      PROVE  GoesOff(D, command, after)
  <2>1. CASE i = 1
    BY <1>1, <1>3, <2>1 DEF GoesOff
  <2>2. CASE i # 1
    <3>1. i - 1 \in 1 .. Len(D) /\ D[i - 1] = C[i] /\ \A k \in 1 .. Len(D) : k > i - 1 => k + 1 > i
      BY <2>2 DEF Shrinks
    <3> QED BY <1>1, <1>3, <3>1 DEF GoesOff
  <2> QED BY <2>1, <2>2
<1> QED BY <1>2, <1>3 DEF GoesOff

(* Without a room both are off or on their way to it; the screen after the *)
(* camera.                                                                 *)
VideoNeedsRoom(R, C, v, sa) ==
  ShownRoom(sa) = None =>
    /\ GoesOff(C, Camera, v.camera_enabled)
    /\ GoesOff(C, Screen, v.screen_share_enabled) \/ UnderWay(R, C, {"roomCamera"})

LEMMA NeedsRoomSend ==
  ASSUME NEW R, NEW C, NEW D, NEW c, Grows(C, c, D), NEW v, NEW sa,
         ShownRoom(sa) = None => ~On(c, Camera) /\ ~On(c, Screen),
         VideoNeedsRoom(R, C, v, sa)
  PROVE  VideoNeedsRoom(R, D, v, sa)
<1> SUFFICES ASSUME ShownRoom(sa) = None
             PROVE  /\ GoesOff(D, Camera, v.camera_enabled)
                    /\ GoesOff(D, Screen, v.screen_share_enabled) \/ UnderWay(R, D, {"roomCamera"})
  BY DEF VideoNeedsRoom
<1>1. /\ GoesOff(C, Camera, v.camera_enabled)
      /\ GoesOff(C, Screen, v.screen_share_enabled) \/ UnderWay(R, C, {"roomCamera"})
  BY DEF VideoNeedsRoom
<1>2. GoesOff(D, Camera, v.camera_enabled)
  BY <1>1, GoesOffSend
<1>3. GoesOff(C, Screen, v.screen_share_enabled) => GoesOff(D, Screen, v.screen_share_enabled)
  BY GoesOffSend
<1>4. UnderWay(R, C, {"roomCamera"}) => UnderWay(R, D, {"roomCamera"})
  BY UnderWaySend
<1> QED BY <1>1, <1>2, <1>3, <1>4

LEMMA NeedsRoomExecute ==
  ASSUME NEW R, NEW Q, NEW C, NEW D, NEW c, NEW r, Grows(R, r, Q), Shrinks(C, c, D),
         r.then = c.then, NEW v, NEW w, NEW sa,
         w.camera_enabled => v.camera_enabled \/ On(c, Camera),
         Off(c, Camera) => ~w.camera_enabled,
         w.screen_share_enabled => v.screen_share_enabled \/ On(c, Screen),
         Off(c, Screen) => ~w.screen_share_enabled,
         VideoNeedsRoom(R, C, v, sa)
  PROVE  VideoNeedsRoom(Q, D, w, sa)
<1> SUFFICES ASSUME ShownRoom(sa) = None
             PROVE  /\ GoesOff(D, Camera, w.camera_enabled)
                    /\ GoesOff(D, Screen, w.screen_share_enabled) \/ UnderWay(Q, D, {"roomCamera"})
  BY DEF VideoNeedsRoom
<1>1. /\ GoesOff(C, Camera, v.camera_enabled)
      /\ GoesOff(C, Screen, v.screen_share_enabled) \/ UnderWay(R, C, {"roomCamera"})
  BY DEF VideoNeedsRoom
<1>2. GoesOff(D, Camera, w.camera_enabled)
  BY <1>1, GoesOffExecute
<1>3. GoesOff(C, Screen, v.screen_share_enabled) => GoesOff(D, Screen, w.screen_share_enabled)
  BY GoesOffExecute
<1>4. UnderWay(R, C, {"roomCamera"}) => UnderWay(Q, D, {"roomCamera"})
  BY UnderWayExecute
<1> QED BY <1>1, <1>2, <1>3, <1>4

(* A reply of which no call follows.                                       *)
LEMMA NeedsRoomTake ==
  ASSUME NEW R, NEW Q, NEW r, Shrinks(R, r, Q), NEW C, NEW v, NEW sa, NEW ta,
         r.then # "roomCamera", ShownRoom(ta) = None => ShownRoom(sa) = None,
         VideoNeedsRoom(R, C, v, sa)
  PROVE  VideoNeedsRoom(Q, C, v, ta)
<1>1. UnderWay(R, C, {"roomCamera"}) => UnderWay(Q, C, {"roomCamera"})
  BY UnderWayTake
<1> QED BY <1>1 DEF VideoNeedsRoom

(* toggleVoiceRoom has left the room, and switches off the camera ...      *)
LEMMA NeedsRoomLeave ==
  ASSUME NEW R, NEW C, NEW D, NEW c, Grows(C, c, D), NEW v, NEW sa,
         Off(c, Camera), c.then = "roomCamera"
  PROVE  VideoNeedsRoom(R, D, v, sa)
<1>1. GoesOff(D, Camera, v.camera_enabled)
  BY GoesOffSend
<1>2. UnderWay(R, D, {"roomCamera"})
  BY UnderWaySend
<1> QED BY <1>1, <1>2 DEF VideoNeedsRoom

(* ... then the screen.                                                    *)
LEMMA NeedsRoomScreen ==
  ASSUME NEW R, NEW Q, NEW C, NEW D, NEW c, Grows(C, c, D), NEW v, NEW sa,
         Off(c, Screen), VideoNeedsRoom(R, C, v, sa)
  PROVE  VideoNeedsRoom(Q, D, v, sa)
<1>1. GoesOff(D, Screen, v.screen_share_enabled)
  BY GoesOffSend
<1>2. ~On(c, Camera)
  BY DEF On, Off, Camera, Screen
<1>3. GoesOff(C, Camera, v.camera_enabled) => GoesOff(D, Camera, v.camera_enabled)
  BY <1>2, GoesOffSend
<1> QED BY <1>1, <1>3 DEF VideoNeedsRoom

(* Before the first status of camera and screen is shown, no room has been *)
(* shown, neither is on, and no reply of toggleVoiceRoom overtakes it.     *)
VideoStarts(R, C, v, sa, sv) ==
  sv = None =>
    /\ v = NewVideo
    /\ ShownRoom(sa) = None
    /\ \A k \in 1 .. Len(C) : ~On(C[k], Camera) /\ ~On(C[k], Screen)
    /\ \/ \E n \in 1 .. Len(R) : R[n].then = "video" /\ NoRoom(R, 1, n - 1)
       \/ /\ NoRoom(R, 1, Len(R))
          /\ \E n \in 1 .. Len(C) : C[n].then = "video" /\ NoRoom(C, 1, n - 1)

LEMMA StartsSend ==
  ASSUME NEW R, NEW C, NEW D, NEW c, Grows(C, c, D), NEW v, NEW sa, NEW sv,
         ShownRoom(sa) = None => ~On(c, Camera) /\ ~On(c, Screen),
         VideoStarts(R, C, v, sa, sv)
  PROVE  VideoStarts(R, D, v, sa, sv)
<1>1. \A k \in 1 .. Len(D) : D[k] = c \/ (k \in 1 .. Len(C) /\ D[k] = C[k])
  BY DEF Grows
<1>2. \A n \in 1 .. Len(C) : n \in 1 .. Len(D) /\ D[n] = C[n] /\ (NoRoom(C, 1, n - 1) => NoRoom(D, 1, n - 1))
  BY DEF Grows, NoRoom
<1> QED BY <1>1, <1>2 DEF VideoStarts

LEMMA StartsExecute ==
  ASSUME NEW R, NEW Q, NEW C, NEW D, NEW c, NEW r, Grows(R, r, Q), Shrinks(C, c, D),
         r.then = c.then, NEW v, NEW w, NEW sa, NEW sv,
         v = NewVideo /\ ~On(c, Camera) /\ ~On(c, Screen) => w = NewVideo,
         VideoStarts(R, C, v, sa, sv)
  PROVE  VideoStarts(Q, D, w, sa, sv)
<1> SUFFICES ASSUME sv = None
             PROVE  VideoStarts(Q, D, w, sa, sv)
  BY DEF VideoStarts
<1>1. /\ 1 \in 1 .. Len(C) /\ C[1] = c
      /\ \A k \in 1 .. Len(D) : k + 1 \in 1 .. Len(C) /\ D[k] = C[k + 1]
      /\ Len(D) \in Nat /\ Len(C) = Len(D) + 1
  BY DEF Shrinks
<1>2. /\ Len(R) \in Nat /\ Len(Q) = Len(R) + 1 /\ Q[Len(R) + 1] = r
      /\ \A k \in 1 .. Len(R) : k \in 1 .. Len(Q) /\ Q[k] = R[k]
  BY DEF Grows
<1>3. w = NewVideo /\ \A k \in 1 .. Len(D) : ~On(D[k], Camera) /\ ~On(D[k], Screen)
  BY <1>1 DEF VideoStarts
<1>4. \A n \in 0 .. Len(R) : NoRoom(R, 1, n) => NoRoom(Q, 1, n)
  BY <1>2 DEF NoRoom
<1>5. ASSUME NEW n \in 1 .. Len(R), R[n].then = "video", NoRoom(R, 1, n - 1)
      PROVE  n \in 1 .. Len(Q) /\ Q[n].then = "video" /\ NoRoom(Q, 1, n - 1)
  BY <1>2, <1>4, <1>5
<1>6. ASSUME NoRoom(R, 1, Len(R)), NEW n \in 1 .. Len(C), C[n].then = "video", NoRoom(C, 1, n - 1)
      PROVE  \/ \E m \in 1 .. Len(Q) : Q[m].then = "video" /\ NoRoom(Q, 1, m - 1)
             \/ /\ NoRoom(Q, 1, Len(Q))
                /\ \E m \in 1 .. Len(D) : D[m].then = "video" /\ NoRoom(D, 1, m - 1)
  <2>1. CASE n = 1
    <3>1. Len(Q) \in 1 .. Len(Q) /\ Q[Len(Q)].then = "video" /\ Len(Q) - 1 = Len(R) /\ Len(R) \in 0 .. Len(R)
      BY <1>1, <1>2, <1>6, <2>1
    <3>2. NoRoom(Q, 1, Len(Q) - 1)
      BY <1>4, <1>6, <3>1
    <3> QED BY <3>1, <3>2
  <2>2. CASE n # 1
    <3>1. c.then # "room"
      BY <1>1, <1>6, <2>2 DEF NoRoom
    <3>2. NoRoom(Q, 1, Len(Q))
      BY <1>2, <1>6, <3>1 DEF NoRoom
    <3>3. n - 1 \in 1 .. Len(D) /\ (n - 1) + 1 = n
      BY <1>1, <2>2
    <3>4. D[n - 1].then = "video"
      BY <1>1, <1>6, <3>3
    <3>5. NoRoom(D, 1, (n - 1) - 1)
      BY <1>1, <1>6, <3>3 DEF NoRoom
    <3> QED BY <3>2, <3>3, <3>4, <3>5
  <2> QED BY <2>1, <2>2
<1> QED BY <1>3, <1>5, <1>6 DEF VideoStarts

LEMMA StartsTake ==
  ASSUME NEW R, NEW Q, NEW r, Shrinks(R, r, Q), NEW C, NEW v, NEW sa, NEW ta, NEW sv, NEW tv,
         r.then \notin AudioPlaces => tv # None,
         r.then \in AudioPlaces => tv = sv,
         r.then # "room" => ShownRoom(ta) = ShownRoom(sa),
         VideoStarts(R, C, v, sa, sv)
  PROVE  /\ VideoStarts(Q, C, v, ta, tv)
         /\ r.then = "room" => sv # None
<1>1. /\ Len(Q) \in Nat /\ Len(R) = Len(Q) + 1 /\ R[1] = r /\ 1 \in 1 .. Len(R)
      /\ \A i \in 1 .. Len(Q) : i + 1 \in 1 .. Len(R) /\ Q[i] = R[i + 1]
  BY DEF Shrinks
<1>2. ASSUME sv = None, r.then \in AudioPlaces
      PROVE  r.then # "room"
  <2>1. ASSUME NEW n \in 1 .. Len(R), R[n].then = "video", NoRoom(R, 1, n - 1)
        PROVE  r.then # "room"
    <3>1. n # 1 /\ 1 \in 1 .. n - 1
      BY <1>1, <1>2, <2>1 DEF AudioPlaces
    <3> QED BY <1>1, <2>1, <3>1 DEF NoRoom
  <2>2. NoRoom(R, 1, Len(R)) => r.then # "room"
    BY <1>1 DEF NoRoom
  <2> QED BY <1>2, <2>1, <2>2 DEF VideoStarts
<1>3. ASSUME tv = None
      PROVE  VideoStarts(Q, C, v, ta, tv)
  <2>1. sv = None /\ r.then \in AudioPlaces /\ r.then # "room"
    BY <1>2, <1>3
  <2>2. ASSUME NEW n \in 1 .. Len(R), R[n].then = "video", NoRoom(R, 1, n - 1)
        PROVE  n - 1 \in 1 .. Len(Q) /\ Q[n - 1].then = "video" /\ NoRoom(Q, 1, (n - 1) - 1)
    <3>1. n # 1
      BY <1>1, <2>1, <2>2 DEF AudioPlaces
    <3>2. n - 1 \in 1 .. Len(Q) /\ (n - 1) + 1 = n
      BY <1>1, <3>1
    <3>3. Q[n - 1].then = "video"
      BY <1>1, <2>2, <3>2
    <3>4. NoRoom(Q, 1, (n - 1) - 1)
      BY <1>1, <2>2, <3>2 DEF NoRoom
    <3> QED BY <3>2, <3>3, <3>4
  <2>3. NoRoom(R, 1, Len(R)) => NoRoom(Q, 1, Len(Q))
    BY <1>1 DEF NoRoom
  <2> QED BY <2>1, <2>2, <2>3 DEF VideoStarts
<1>4. r.then = "room" => sv # None
  BY <1>2 DEF AudioPlaces
<1> QED BY <1>3, <1>4 DEF VideoStarts

-----------------------------------------------------------------------------
(***************************************************************************)
(* Streams.                                                                *)
(***************************************************************************)
(* Microphone: one request at a time, none while there is a stream, and    *)
(* only while it is wanted or `wanted' says that this is being looked at.  *)
MicFits(c, sa, wanted) ==
  "mic" \notin c.late =>
    /\ "mic" \notin c.lost
    /\ c.asks["mic"] + c.asks["room"] <= 1
    /\ Open(c, MicAsks) => ~c.micStream
    /\ c.micStream \/ Open(c, MicAsks) => canMonitorMic(sa) \/ wanted

Enabled(kind, sa, sv) ==
  /\ canUseVideo(sa)
  /\ sv # None
  /\ IF kind = "camera" THEN sv.camera_enabled ELSE sv.screen_share_enabled

(* Camera and screen, likewise.                                            *)
VideoFits(c, sa, sv, wanted) ==
  "video" \notin c.late =>
    /\ c.lost \subseteq {"mic"}
    /\ c.asks["camera"] + c.asks["screen"] <= 1
    /\ \A kind \in {"camera", "screen"} :
         /\ c.asks[kind] > 0 => c.videoStream = None
         /\ c.videoStream = kind \/ c.asks[kind] > 0 =>
              Enabled(kind, sa, sv) \/ wanted \/ c.asks["room"] > 0

SameMic(c, d) ==
  /\ d.micStream = c.micStream
  /\ d.asks["mic"] = c.asks["mic"] /\ d.asks["room"] = c.asks["room"]
  /\ "mic" \in d.lost <=> "mic" \in c.lost
  /\ "mic" \in d.late <=> "mic" \in c.late

SameVideo(c, d) ==
  /\ d.videoStream = c.videoStream
  /\ d.asks["camera"] = c.asks["camera"] /\ d.asks["screen"] = c.asks["screen"]
  /\ d.lost \subseteq c.lost \cup {"mic"}
  /\ "video" \in d.late <=> "video" \in c.late

LEMMA CaptureTypes ==
  ASSUME NEW c \in Capture
  PROVE  /\ c.micStream \in BOOLEAN
         /\ c.micCaptureState \in {"idle", "active", "denied"}
         /\ c.videoStream \in {None, "camera", "screen"}
         /\ c.asks \in [Asks -> Nat]
         /\ c.lost \in SUBSET {"mic", "camera", "screen"}
         /\ c.late \in SUBSET {"mic", "video"}
         /\ c.asks["mic"] \in Nat /\ c.asks["room"] \in Nat
         /\ c.asks["camera"] \in Nat /\ c.asks["screen"] \in Nat
BY DEF Capture, Asks

LEMMA CaptureRecord ==
  ASSUME NEW d,
         d = [micStream |-> d.micStream, micCaptureState |-> d.micCaptureState,
              videoStream |-> d.videoStream, asks |-> d.asks, lost |-> d.lost, late |-> d.late],
         d.micStream \in BOOLEAN, d.micCaptureState \in {"idle", "active", "denied"},
         d.videoStream \in {None, "camera", "screen"}, d.asks \in [Asks -> Nat],
         d.lost \in SUBSET {"mic", "camera", "screen"}, d.late \in SUBSET {"mic", "video"}
  PROVE  d \in Capture
BY DEF Capture

LEMMA OpenAsks ==
  ASSUME NEW c
  PROVE  /\ Open(c, MicAsks) <=> c.asks["mic"] > 0 \/ c.asks["room"] > 0
         /\ Open(c, Asks \ MicAsks) <=> c.asks["camera"] > 0 \/ c.asks["screen"] > 0
BY DEF Open, Asks, MicAsks

LEMMA MicUnchanged ==
  ASSUME NEW c, NEW d, SameMic(c, d), NEW sa, NEW ta, NEW u, NEW w,
         canMonitorMic(sa) \/ u => canMonitorMic(ta) \/ w,
         MicFits(c, sa, u)
  PROVE  MicFits(d, ta, w)
BY OpenAsks DEF SameMic, MicFits

LEMMA VideoUnchanged ==
  ASSUME NEW c, NEW d, SameVideo(c, d), NEW sa, NEW sv, NEW u, NEW ta, NEW tv, NEW w,
         \A kind \in {"camera", "screen"} :
           Enabled(kind, sa, sv) \/ u \/ c.asks["room"] > 0
             => Enabled(kind, ta, tv) \/ w \/ d.asks["room"] > 0,
         VideoFits(c, sa, sv, u)
  PROVE  VideoFits(d, ta, tv, w)
BY DEF SameVideo, VideoFits

LEMMA AskEffect ==
  ASSUME NEW c \in Capture, NEW ask \in Asks
  PROVE  /\ Ask(c, ask) \in Capture
         /\ Ask(c, ask).asks[ask] = c.asks[ask] + 1
         /\ \A other \in Asks \ {ask} : Ask(c, ask).asks[other] = c.asks[other]
         /\ Ask(c, ask).micStream = c.micStream
         /\ Ask(c, ask).videoStream = c.videoStream
         /\ Ask(c, ask).lost = c.lost
         /\ Ask(c, ask).late = c.late
BY DEF Ask, Capture

LEMMA StopMicEffect ==
  ASSUME NEW c \in Capture, NEW d, d = stopMicMonitoring(c), NEW sa, NEW u, MicFits(c, sa, u), NEW ta, NEW w
  PROVE  /\ d \in Capture
         /\ MicFits(d, ta, w)
         /\ SameVideo(c, d)
         /\ d.asks = c.asks
<1>1. LateMic(c) \in SUBSET {"mic", "video"} /\ ("video" \in LateMic(c) <=> "video" \in c.late)
      /\ ("mic" \notin LateMic(c) => "mic" \notin c.late /\ ~Open(c, MicAsks))
  BY CaptureTypes DEF LateMic
<1>2. d \in Capture
  BY <1>1 DEF stopMicMonitoring, Capture
<1>3. /\ d.micStream = FALSE /\ d.late = LateMic(c) /\ d.videoStream = c.videoStream
      /\ d.asks = c.asks /\ d.lost = c.lost
  BY DEF stopMicMonitoring, Capture
<1>4. MicFits(d, ta, w)
  BY <1>1, <1>3, OpenAsks DEF MicFits
<1>5. SameVideo(c, d)
  BY <1>1, <1>3 DEF SameVideo
<1> QED BY <1>2, <1>3, <1>4, <1>5

LEMMA SyncMicEffect ==
  ASSUME NEW c \in Capture, NEW ask \in MicAsks, NEW ta, NEW d, d = SyncMic(c, ta, ask),
         NEW sa, NEW u, MicFits(c, sa, u), NEW w
  PROVE  /\ d \in Capture
         /\ MicFits(d, ta, w)
         /\ SameVideo(c, d)
         /\ d.asks["room"] >= c.asks["room"]
<1>1. CASE ~canMonitorMic(ta)
  <2>1. d = stopMicMonitoring(c)
    BY <1>1 DEF SyncMic
  <2> QED BY <2>1, StopMicEffect, CaptureTypes
<1>2. CASE canMonitorMic(ta) /\ c.micCaptureState = "active"
  <2>1. d = c
    BY <1>2 DEF SyncMic, ensureMicMonitoring
  <2> QED BY <1>2, <2>1, CaptureTypes DEF MicFits, SameVideo
<1>3. CASE canMonitorMic(ta) /\ c.micCaptureState # "active"
  <2> DEFINE late == IF c.micStream THEN c.late \cup {"mic"} ELSE LateMic(c)
             e == [c EXCEPT !.late = late]
  <2>1. d = Ask(e, ask) /\ ask \in Asks
    BY <1>3 DEF SyncMic, ensureMicMonitoring, MicAsks, Asks
  <2>2. /\ late \in SUBSET {"mic", "video"} /\ ("video" \in late <=> "video" \in c.late)
        /\ "mic" \notin late => "mic" \notin c.late /\ ~Open(c, MicAsks) /\ ~c.micStream
    BY CaptureTypes DEF LateMic
  <2> HIDE DEF late
  <2>3. /\ e \in Capture /\ e.late = late /\ e.asks = c.asks /\ e.lost = c.lost
        /\ e.micStream = c.micStream /\ e.videoStream = c.videoStream
    BY <2>2 DEF Capture
  <2> HIDE DEF e
  <2>4. /\ d \in Capture /\ d.late = late /\ d.lost = c.lost
        /\ d.micStream = c.micStream /\ d.videoStream = c.videoStream
        /\ d.asks[ask] = c.asks[ask] + 1
        /\ \A other \in Asks \ {ask} : d.asks[other] = c.asks[other]
    BY <2>1, <2>3, AskEffect
  <2>5. SameVideo(c, d)
    BY <2>2, <2>4 DEF SameVideo, Asks, MicAsks
  <2>6. /\ d.asks["room"] >= c.asks["room"]
        /\ d.asks["mic"] + d.asks["room"] = c.asks["mic"] + c.asks["room"] + 1
    <3>1. CASE ask = "mic"
      BY <2>4, <3>1, CaptureTypes DEF Asks
    <3>2. CASE ask = "room"
      BY <2>4, <3>2, CaptureTypes DEF Asks
    <3> QED BY <3>1, <3>2 DEF MicAsks
  <2>7. MicFits(d, ta, w)
    <3> SUFFICES ASSUME "mic" \notin d.late
                 PROVE  /\ "mic" \notin d.lost
                        /\ d.asks["mic"] + d.asks["room"] <= 1
                        /\ Open(d, MicAsks) => ~d.micStream
                        /\ d.micStream \/ Open(d, MicAsks) => canMonitorMic(ta) \/ w
      BY DEF MicFits
    <3>1. "mic" \notin c.late /\ ~Open(c, MicAsks) /\ ~c.micStream
      BY <2>2, <2>4
    <3>2. c.asks["mic"] = 0 /\ c.asks["room"] = 0
      BY <3>1, OpenAsks, CaptureTypes
    <3> QED BY <1>3, <2>4, <2>6, <3>1, <3>2 DEF MicFits
  <2> QED BY <2>4, <2>5, <2>6, <2>7
<1> QED BY <1>1, <1>2, <1>3

LEMMA ClearEffect ==
  ASSUME NEW c \in Capture, NEW d, d = clearVideoCapture(c),
         NEW sa, NEW sv, NEW u, VideoFits(c, sa, sv, u), NEW ta, NEW tv, NEW w
  PROVE  /\ d \in Capture
         /\ SameMic(c, d)
         /\ VideoFits(d, ta, tv, w)
         /\ d.asks = c.asks /\ d.videoStream = None
         /\ "video" \notin d.late =>
              d.lost \subseteq {"mic"} /\ c.asks["camera"] = 0 /\ c.asks["screen"] = 0
<1>1. /\ LateVideo(c) \in SUBSET {"mic", "video"} /\ ("mic" \in LateVideo(c) <=> "mic" \in c.late)
      /\ "video" \notin LateVideo(c) => "video" \notin c.late /\ ~Open(c, Asks \ MicAsks)
  BY CaptureTypes DEF LateVideo
<1>2. /\ d \in Capture /\ d.late = LateVideo(c) /\ d.videoStream = None /\ d.asks = c.asks
      /\ d.lost = c.lost /\ d.micStream = c.micStream
  BY <1>1 DEF clearVideoCapture, Capture
<1>3. "video" \notin d.late =>
        d.lost \subseteq {"mic"} /\ c.asks["camera"] = 0 /\ c.asks["screen"] = 0
  <2> SUFFICES ASSUME "video" \notin d.late
               PROVE  d.lost \subseteq {"mic"} /\ c.asks["camera"] = 0 /\ c.asks["screen"] = 0
    OBVIOUS
  <2>1. "video" \notin c.late /\ ~Open(c, Asks \ MicAsks)
    BY <1>1, <1>2
  <2>2. c.lost \subseteq {"mic"}
    BY <2>1 DEF VideoFits
  <2>3. c.asks["camera"] \in Nat /\ c.asks["screen"] \in Nat
    BY CaptureTypes
  <2>4. ~(c.asks["camera"] > 0) /\ ~(c.asks["screen"] > 0)
    BY <2>1, OpenAsks
  <2> QED BY <1>2, <2>2, <2>3, <2>4
<1>4. VideoFits(d, ta, tv, w)
  BY <1>2, <1>3, NoneAssumption DEF VideoFits
<1>5. SameMic(c, d)
  BY <1>1, <1>2 DEF SameMic
<1> QED BY <1>2, <1>3, <1>4, <1>5

LEMMA SyncVideoEffect ==
  ASSUME NEW c \in Capture, NEW ta, NEW tv, NEW d, d = syncVideoCapture(c, ta, tv),
         NEW sa, NEW sv, NEW u, VideoFits(c, sa, sv, u), NEW w
  PROVE  /\ d \in Capture
         /\ SameMic(c, d)
         /\ VideoFits(d, ta, tv, w)
         /\ d.asks["room"] = c.asks["room"]
<1> DEFINE e == clearVideoCapture(c)
<1>1. /\ e \in Capture /\ SameMic(c, e) /\ VideoFits(e, ta, tv, w)
      /\ e.asks = c.asks /\ e.videoStream = None
      /\ "video" \notin e.late => e.lost \subseteq {"mic"} /\ c.asks["camera"] = 0 /\ c.asks["screen"] = 0
  BY ClearEffect
<1>2. \/ d = e
      \/ \E kind \in {"camera", "screen"} : d = Ask(e, kind) /\ Enabled(kind, ta, tv)
  BY DEF syncVideoCapture, Enabled
<1> HIDE DEF e
<1>3. CASE d = e
  BY <1>1, <1>3
<1>4. ASSUME NEW kind \in {"camera", "screen"}, d = Ask(e, kind), Enabled(kind, ta, tv)
      PROVE  /\ d \in Capture /\ SameMic(c, d) /\ VideoFits(d, ta, tv, w)
             /\ d.asks["room"] = c.asks["room"]
  <2>1. /\ d \in Capture /\ d.late = e.late /\ d.lost = e.lost
        /\ d.micStream = e.micStream /\ d.videoStream = None
        /\ d.asks[kind] = e.asks[kind] + 1
        /\ \A other \in Asks \ {kind} : d.asks[other] = e.asks[other]
    BY <1>1, <1>4, AskEffect DEF Asks
  <2>2. d.asks["mic"] = c.asks["mic"] /\ d.asks["room"] = c.asks["room"]
    BY <1>1, <2>1 DEF Asks
  <2>3. SameMic(c, d)
    BY <1>1, <2>1, <2>2 DEF SameMic
  <2>4. VideoFits(d, ta, tv, w)
    <3>1. None \notin {"camera", "screen"}
      BY NoneAssumption
    <3>2. CASE kind = "camera"
      <4>1. d.asks["camera"] = c.asks["camera"] + 1 /\ d.asks["screen"] = c.asks["screen"]
        BY <1>1, <2>1, <3>2 DEF Asks
      <4> QED BY <1>1, <1>4, <2>1, <3>1, <3>2, <4>1 DEF VideoFits
    <3>3. CASE kind = "screen"
      <4>1. d.asks["screen"] = c.asks["screen"] + 1 /\ d.asks["camera"] = c.asks["camera"]
        BY <1>1, <2>1, <3>3 DEF Asks
      <4> QED BY <1>1, <1>4, <2>1, <3>1, <3>3, <4>1 DEF VideoFits
    <3> QED BY <3>2, <3>3
  <2> QED BY <2>1, <2>2, <2>3, <2>4
<1> QED BY <1>2, <1>3, <1>4

-----------------------------------------------------------------------------
(***************************************************************************)
(* The wires between user interface and native side, as a whole.           *)
(***************************************************************************)
Typed(R, C, a, v, sa, sv) ==
  /\ R \in Seq(ReplySet) /\ C \in Seq(Calls)
  /\ a \in AudioState /\ (a.ptt_pressed => a.push_to_talk)
  /\ v \in VideoState /\ ~(v.camera_enabled /\ v.screen_share_enabled)
  /\ sa \in AudioState \cup {None} /\ sv \in VideoState \cup {None}

Linked(R, C, a, v, sa, sv, h) ==
  /\ LastShown(R, C, AudioPlaces, Status(a), sa)
  /\ LastShown(R, C, VideoPlaces, v, sv)
  /\ RoomFollows(R, a, sa)
  /\ TalkFollows(R, C, a.push_to_talk, Talk(sa))
  /\ PressFollows(C, a, Talk(sa), h)
  /\ VideoStarts(R, C, v, sa, sv)

LEMMA PlacesApart ==
  /\ \A x : x \in VideoPlaces => x \notin AudioPlaces
  /\ "room" \in AudioPlaces /\ "ptt" \in AudioPlaces /\ "audio" \in AudioPlaces
BY DEF AudioPlaces, VideoPlaces

LEMMA LinkedSend ==
  ASSUME NEW R, NEW C, NEW D, NEW c, Grows(C, c, D), NEW a, NEW v, NEW sa, NEW sv, NEW h,
         ~IsPress(c), c.then = "ptt" => c.arg # Talk(sa),
         ShownRoom(sa) = None => ~On(c, Camera) /\ ~On(c, Screen),
         Linked(R, C, a, v, sa, sv, h)
  PROVE  Linked(R, D, a, v, sa, sv, h)
<1>1. LastShown(R, D, AudioPlaces, Status(a), sa) /\ LastShown(R, D, VideoPlaces, v, sv)
  BY LastSend DEF Linked
<1>2. TalkFollows(R, D, a.push_to_talk, Talk(sa))
  BY TalkSend DEF Linked
<1>3. PressFollows(D, a, Talk(sa), h)
  BY PressSend DEF Linked
<1>4. VideoStarts(R, D, v, sa, sv)
  BY StartsSend DEF Linked
<1> QED BY <1>1, <1>2, <1>3, <1>4 DEF Linked

LEMMA LinkedPress ==
  ASSUME NEW R, NEW C, NEW D, NEW c, Grows(C, c, D), NEW a, NEW v, NEW sa, NEW sv, NEW h,
         IsPress(c), c.then = "audio", Talk(sa),
         Linked(R, C, a, v, sa, sv, h)
  PROVE  Linked(R, D, a, v, sa, sv, c.arg)
<1>1. LastShown(R, D, AudioPlaces, Status(a), sa) /\ LastShown(R, D, VideoPlaces, v, sv)
  BY LastSend DEF Linked
<1>2. TalkFollows(R, D, a.push_to_talk, Talk(sa))
  BY TalkSend DEF Linked
<1>3. PressFollows(D, a, Talk(sa), c.arg)
  BY PressPress DEF Linked
<1>4. ~On(c, Camera) /\ ~On(c, Screen)
  BY DEF IsPress, On, Camera, Screen
<1>5. VideoStarts(R, D, v, sa, sv)
  BY <1>4, StartsSend DEF Linked
<1> QED BY <1>1, <1>2, <1>3, <1>5 DEF Linked

LEMMA LinkedExecute ==
  ASSUME NEW R, NEW Q, NEW C, NEW D, NEW c, NEW r, Grows(R, r, Q), Shrinks(C, c, D), c \in Calls,
         NEW a, NEW b, NEW v, NEW w, NEW sa, NEW sv, NEW h,
         Typed(R, C, a, v, sa, sv),
         b = RunAudio(a, c), w = RunVideo(v, c),
         r = [then |-> c.then,
              status |-> IF c.command \in AudioCommands THEN Status(b) ELSE w],
         Linked(R, C, a, v, sa, sv, h), VideoNeedsRoom(R, C, v, sa)
  PROVE  /\ Linked(Q, D, b, w, sa, sv, h) /\ VideoNeedsRoom(Q, D, w, sa)
         /\ b \in AudioState /\ (b.ptt_pressed => b.push_to_talk)
         /\ w \in VideoState /\ ~(w.camera_enabled /\ w.screen_share_enabled)
         /\ r \in ReplySet
<1>1. /\ c.then \in AudioPlaces \cup VideoPlaces
      /\ c.then \in AudioPlaces <=> c.command \in AudioCommands
      /\ c.then = "ptt" => ~IsPress(c)
  BY CallTypes DEF IsPress
<1>2. /\ b \in AudioState
      /\ b.ptt_pressed => b.push_to_talk
      /\ c.then \notin AudioPlaces => b = a
      /\ c.then # "ptt" => b.push_to_talk = a.push_to_talk
      /\ c.then = "ptt" => b.push_to_talk = c.arg
      /\ c.then # "room" => b.joined_room = a.joined_room
      /\ IsPress(c) => (b.ptt_pressed <=> a.push_to_talk /\ c.arg)
      /\ ~IsPress(c) /\ b.ptt_pressed => a.ptt_pressed
  BY RunAudioEffect DEF Typed
<1>3. /\ w \in VideoState
      /\ ~(w.camera_enabled /\ w.screen_share_enabled)
      /\ c.then \in AudioPlaces => w = v
      /\ w.camera_enabled => v.camera_enabled \/ On(c, Camera)
      /\ Off(c, Camera) => ~w.camera_enabled
      /\ w.screen_share_enabled => v.screen_share_enabled \/ On(c, Screen)
      /\ Off(c, Screen) => ~w.screen_share_enabled
      /\ v = NewVideo /\ ~On(c, Camera) /\ ~On(c, Screen) => w = NewVideo
  BY RunVideoEffect DEF Typed
<1>4. /\ Status(b) \in AudioState
      /\ Status(b).push_to_talk = b.push_to_talk
      /\ Status(b).joined_room = b.joined_room
  BY <1>2, StatusTypes
<1>5. /\ r.then = c.then
      /\ c.then \in AudioPlaces => r.status = Status(b)
      /\ c.then \notin AudioPlaces => r.status = w
  BY <1>1
<1>6. r \in ReplySet
  BY <1>1, <1>3, <1>4, PlacesApart DEF ReplySet
<1>7. LastShown(Q, D, AudioPlaces, Status(b), sa)
  BY <1>2, <1>5, LastExecute DEF Linked
<1>8. LastShown(Q, D, VideoPlaces, w, sv)
  BY <1>1, <1>3, <1>5, LastExecute, PlacesApart DEF Linked
<1>9. RoomFollows(Q, b, sa)
  BY <1>2, <1>4, <1>5, RoomExecute DEF Linked
<1>10. TalkFollows(Q, D, b.push_to_talk, Talk(sa))
  BY <1>2, <1>4, <1>5, TalkExecute DEF Linked
<1>11. PressFollows(D, b, Talk(sa), h)
  BY <1>1, <1>2, PressExecute DEF Linked
<1>12. VideoStarts(Q, D, w, sa, sv)
  BY <1>3, <1>5, StartsExecute DEF Linked
<1>13. VideoNeedsRoom(Q, D, w, sa)
  BY <1>3, <1>5, NeedsRoomExecute
<1> QED BY <1>2, <1>3, <1>6, <1>7, <1>8, <1>9, <1>10, <1>11, <1>12, <1>13 DEF Linked

LEMMA LinkedTake ==
  ASSUME NEW R, NEW Q, NEW r, Shrinks(R, r, Q), r \in ReplySet, NEW C,
         NEW a, NEW v, NEW sa, NEW sv, NEW ta, NEW tv, NEW h \in BOOLEAN, NEW g,
         Typed(R, C, a, v, sa, sv),
         ta = IF r.then \in AudioPlaces THEN r.status ELSE sa,
         tv = IF r.then \in VideoPlaces THEN r.status ELSE sv,
         g = IF r.then = "ptt" THEN h /\ r.status.push_to_talk ELSE h,
         h => Talk(sa),
         Linked(R, C, a, v, sa, sv, h)
  PROVE  /\ Linked(Q, C, a, v, ta, tv, g)
         /\ ta \in AudioState \cup {None} /\ tv \in VideoState \cup {None}
         /\ g \in BOOLEAN /\ (g => h /\ Talk(ta))
         /\ r.then # "room" => ShownRoom(ta) = ShownRoom(sa)
         /\ r.then = "room" => sv # None
<1>1. /\ r.then \in AudioPlaces \cup VideoPlaces
      /\ r.then \in AudioPlaces => r.status \in AudioState
      /\ r.then \notin AudioPlaces => r.then \in VideoPlaces /\ r.status \in VideoState
      /\ r.status # None
  BY ReplyTypes
<1>2. ta \in AudioState \cup {None} /\ tv \in VideoState \cup {None}
  BY <1>1, PlacesApart DEF Typed
<1>3. LastShown(Q, C, AudioPlaces, Status(a), ta) /\ LastShown(Q, C, VideoPlaces, v, tv)
  BY LastTake DEF Linked
<1>4. RoomFollows(Q, a, ta) /\ (r.then # "room" => ShownRoom(ta) = ShownRoom(sa))
  BY <1>1, RoomTake DEF Linked
<1>5. Talk(sa) \in BOOLEAN /\ a.push_to_talk \in BOOLEAN
  BY AudioTypes DEF Typed, Talk
<1>6. Talk(ta) = IF r.then \in AudioPlaces THEN r.status.push_to_talk ELSE Talk(sa)
  <2>1. r.then \in AudioPlaces => r.status.push_to_talk \in BOOLEAN
    BY <1>1, AudioTypes
  <2> QED BY <1>1, <2>1 DEF Talk
<1>7. TalkTyped(R)
  <2>1. \A i \in 1 .. Len(R) : R[i] \in ReplySet
    BY DEF Typed
  <2> QED BY <2>1, ReplyTypes, AudioTypes DEF TalkTyped
<1>8. Len(C) \in Nat /\ \A k \in 1 .. Len(C) : C[k].then = "ptt" => C[k].arg \in BOOLEAN
  <2>1. Len(C) \in Nat /\ \A k \in 1 .. Len(C) : C[k] \in Calls
    BY DEF Typed
  <2>2. \A c \in Calls : c.then = "ptt" => c.arg \in BOOLEAN
    BY CallTypes
  <2> QED BY <2>1, <2>2
<1>9. /\ TalkFollows(Q, C, a.push_to_talk, Talk(ta))
      /\ r.then # "ptt" => Talk(ta) = Talk(sa)
      /\ Talk(ta) # Talk(sa) =>
           /\ a.push_to_talk = Talk(ta)
           /\ \A k \in 1 .. Len(C) : C[k].then = "ptt" => C[k].arg = Talk(ta)
  BY <1>5, <1>6, <1>7, <1>8, TalkTake DEF Linked
<1>10. /\ r.then = "ptt" => g = (h /\ Talk(ta))
       /\ r.then # "ptt" => g = h
  BY <1>6, PlacesApart
<1>11. g \in BOOLEAN /\ (g => h /\ Talk(ta)) /\ (Talk(ta) = Talk(sa) => g = h)
  <2>1. Talk(ta) \in BOOLEAN
    BY <1>1, <1>5, <1>6, AudioTypes
  <2>2. CASE r.then = "ptt"
    BY <1>10, <2>1, <2>2
  <2>3. CASE r.then # "ptt"
    BY <1>9, <1>10, <2>1, <2>3
  <2> QED BY <2>2, <2>3
<1>12. PressFollows(C, a, Talk(ta), g)
  <2>1. CASE Talk(ta) = Talk(sa)
    BY <1>11, <2>1 DEF Linked
  <2>2. CASE Talk(ta) # Talk(sa)
    <3>1. Talk(ta) \in BOOLEAN
      BY <1>1, <1>5, <1>6, AudioTypes
    <3> QED BY <1>5, <1>8, <1>9, <2>2, <3>1, PressShown DEF Linked, Typed
  <2> QED BY <2>1, <2>2
<1>13. VideoStarts(Q, C, v, ta, tv) /\ (r.then = "room" => sv # None)
  <2>1. /\ r.then \notin AudioPlaces => tv # None
        /\ r.then \in AudioPlaces => tv = sv
    BY <1>1, PlacesApart
  <2> QED BY <1>4, <2>1, StartsTake DEF Linked
<1> QED BY <1>2, <1>3, <1>4, <1>9, <1>11, <1>12, <1>13 DEF Linked

-----------------------------------------------------------------------------
(* toggleVoiceRoom goes on with a microphone request or with the video.    *)
LEMMA SyncRoomEffect ==
  ASSUME NEW c \in Capture, NEW ta, NEW tv, NEW e, e = SyncMic(c, ta, "room"), NEW d,
         d = IF e.asks["room"] > c.asks["room"] THEN e ELSE syncVideoCapture(e, ta, tv),
         NEW sa, NEW sv, NEW u, NEW x, MicFits(c, sa, u), VideoFits(c, sa, sv, x), NEW w, NEW y
  PROVE  d \in Capture /\ MicFits(d, ta, w) /\ VideoFits(d, ta, tv, y)
<1>1. /\ e \in Capture /\ MicFits(e, ta, w) /\ SameVideo(c, e)
      /\ e.asks["room"] >= c.asks["room"]
  BY SyncMicEffect DEF MicAsks
<1>2. c.asks["room"] \in Nat /\ e.asks["room"] \in Nat
  BY <1>1, CaptureTypes
<1>3. CASE e.asks["room"] > c.asks["room"]
  <2>1. d = e /\ e.asks["room"] > 0
    BY <1>2, <1>3
  <2> QED BY <1>1, <2>1, VideoUnchanged
<1>4. CASE ~(e.asks["room"] > c.asks["room"])
  <2>1. d = syncVideoCapture(e, ta, tv)
    BY <1>4
  <2>2. VideoFits(e, ta, tv, TRUE)
    BY <1>1, VideoUnchanged
  <2>3. d \in Capture /\ SameMic(e, d) /\ VideoFits(d, ta, tv, y)
    BY <1>1, <2>1, <2>2, SyncVideoEffect
  <2> QED BY <1>1, <2>3, MicUnchanged
<1> QED BY <1>3, <1>4

(* A request for the microphone has been answered.                         *)
WithMic(c, ask, given, state) ==
  [Answered(c, ask) EXCEPT !.micStream = given \/ c.micStream, !.micCaptureState = state,
     !.lost = Lose(c, "mic", given /\ c.micStream)]

LEMMA MicAnswered ==
  ASSUME NEW c \in Capture, NEW ask \in MicAsks, c.asks[ask] > 0,
         NEW given \in BOOLEAN, NEW state \in {"active", "denied"}, NEW d,
         d = WithMic(c, ask, given, state),
         NEW sa, NEW u, MicFits(c, sa, u)
  PROVE  /\ d \in Capture
         /\ MicFits(d, sa, u)
         /\ SameVideo(c, d)
         /\ ask = "mic" => d.asks["room"] = c.asks["room"]
<1> DEFINE lost == Lose(c, "mic", given /\ c.micStream)
           asks == [c.asks EXCEPT ![ask] = @ - 1]
<1>1. /\ c.micStream \in BOOLEAN /\ c.asks \in [Asks -> Nat] /\ ask \in Asks
      /\ c.asks["mic"] \in Nat /\ c.asks["room"] \in Nat
      /\ c.lost \in SUBSET {"mic", "camera", "screen"}
  BY CaptureTypes DEF Asks, MicAsks
<1>2. /\ asks \in [Asks -> Nat]
      /\ asks["camera"] = c.asks["camera"] /\ asks["screen"] = c.asks["screen"]
      /\ asks["mic"] + asks["room"] = c.asks["mic"] + c.asks["room"] - 1
      /\ ask = "mic" => asks["room"] = c.asks["room"]
  <2>1. c.asks[ask] \in Nat /\ c.asks[ask] - 1 \in Nat
    BY <1>1
  <2>2. CASE ask = "mic"
    BY <1>1, <2>1, <2>2 DEF Asks
  <2>3. CASE ask = "room"
    BY <1>1, <2>1, <2>3 DEF Asks
  <2> QED BY <2>2, <2>3 DEF MicAsks
<1>3. /\ lost \in SUBSET {"mic", "camera", "screen"} /\ lost \subseteq c.lost \cup {"mic"}
      /\ ~c.micStream => lost = c.lost
  BY <1>1 DEF Lose
<1>4. /\ d.micStream = (given \/ c.micStream) /\ d.videoStream = c.videoStream
      /\ d.asks = asks /\ d.lost = lost /\ d.late = c.late /\ d \in Capture
  <2>1. d = [micStream |-> given \/ c.micStream, micCaptureState |-> state,
             videoStream |-> c.videoStream, asks |-> asks, lost |-> lost, late |-> c.late]
    BY DEF WithMic, Answered, Capture
  <2>2. c.videoStream \in {None, "camera", "screen"} /\ c.late \in SUBSET {"mic", "video"}
        /\ (given \/ c.micStream) \in BOOLEAN
    BY CaptureTypes
  <2> HIDE DEF lost, asks
  <2>3. lost \in SUBSET {"mic", "camera", "screen"} /\ asks \in [Asks -> Nat]
    BY <1>2, <1>3
  <2>4. /\ d.micStream = (given \/ c.micStream) /\ d.micCaptureState = state /\ d.videoStream = c.videoStream
        /\ d.asks = asks /\ d.lost = lost /\ d.late = c.late
    BY <2>1
  <2>5. d = [micStream |-> d.micStream, micCaptureState |-> d.micCaptureState,
             videoStream |-> d.videoStream, asks |-> d.asks, lost |-> d.lost, late |-> d.late]
    BY <2>1
  <2>6. d \in Capture
    <3>1. /\ d.micStream \in BOOLEAN /\ d.micCaptureState \in {"idle", "active", "denied"}
          /\ d.videoStream \in {None, "camera", "screen"} /\ d.late \in SUBSET {"mic", "video"}
      BY <2>2, <2>4
    <3>2. d.asks \in [Asks -> Nat] /\ d.lost \in SUBSET {"mic", "camera", "screen"}
      BY <2>3, <2>4
    <3> QED BY <2>5, <3>1, <3>2, CaptureRecord
  <2> QED BY <2>4, <2>6
<1> HIDE DEF lost, asks
<1>5. SameVideo(c, d)
  BY <1>2, <1>3, <1>4 DEF SameVideo
<1>6. ASSUME "mic" \notin d.late
      PROVE  /\ "mic" \notin d.lost
             /\ d.asks["mic"] + d.asks["room"] <= 1
             /\ ~Open(d, MicAsks)
             /\ canMonitorMic(sa) \/ u
  <2>1. /\ "mic" \notin c.lost /\ c.asks["mic"] + c.asks["room"] <= 1
        /\ ~c.micStream /\ (canMonitorMic(sa) \/ u)
    <3>1. Open(c, MicAsks)
      BY DEF Open
    <3> QED BY <1>4, <1>6, <3>1 DEF MicFits
  <2>2. asks["mic"] \in Nat /\ asks["room"] \in Nat
    BY <1>2 DEF Asks
  <2>3. asks["mic"] = 0 /\ asks["room"] = 0
    BY <1>1, <1>2, <2>1, <2>2
  <2>4. ~Open(d, MicAsks)
    <3>1. ~(d.asks["mic"] > 0) /\ ~(d.asks["room"] > 0)
      BY <1>4, <2>3
    <3> QED BY <3>1, OpenAsks
  <2>5. "mic" \notin d.lost
    BY <1>3, <1>4, <2>1
  <2> QED BY <1>4, <2>1, <2>3, <2>4, <2>5
<1> QED BY <1>2, <1>4, <1>5, <1>6 DEF MicFits

(* Camera or screen is given.                                              *)
WithVideo(c, kind) ==
  [Answered(c, kind) EXCEPT !.videoStream = kind,
     !.lost = Lose(c, c.videoStream, c.videoStream # None)]

LEMMA VideoGiven ==
  ASSUME NEW c \in Capture, NEW kind \in {"camera", "screen"}, c.asks[kind] > 0, NEW d,
         d = WithVideo(c, kind),
         NEW sa, NEW sv, NEW u, VideoFits(c, sa, sv, u)
  PROVE  d \in Capture /\ VideoFits(d, sa, sv, u) /\ SameMic(c, d)
<1> DEFINE lost == Lose(c, c.videoStream, c.videoStream # None)
           asks == [c.asks EXCEPT ![kind] = @ - 1]
<1>1. /\ c.asks \in [Asks -> Nat] /\ kind \in Asks
      /\ c.asks["camera"] \in Nat /\ c.asks["screen"] \in Nat
      /\ c.lost \in SUBSET {"mic", "camera", "screen"} /\ c.videoStream \in {None, "camera", "screen"}
  BY CaptureTypes DEF Asks
<1>2. /\ asks \in [Asks -> Nat]
      /\ asks["mic"] = c.asks["mic"] /\ asks["room"] = c.asks["room"]
      /\ asks["camera"] + asks["screen"] = c.asks["camera"] + c.asks["screen"] - 1
  <2>1. c.asks[kind] \in Nat /\ c.asks[kind] - 1 \in Nat
    BY <1>1
  <2>2. CASE kind = "camera"
    BY <1>1, <2>1, <2>2 DEF Asks
  <2>3. CASE kind = "screen"
    BY <1>1, <2>1, <2>3 DEF Asks
  <2> QED BY <2>2, <2>3
<1>3. /\ lost \in SUBSET {"mic", "camera", "screen"} /\ ("mic" \in lost <=> "mic" \in c.lost)
      /\ c.videoStream = None => lost = c.lost
  BY <1>1 DEF Lose
<1>4. /\ d.micStream = c.micStream /\ d.videoStream = kind
      /\ d.asks = asks /\ d.lost = lost /\ d.late = c.late /\ d \in Capture
  <2>1. d = [micStream |-> c.micStream, micCaptureState |-> c.micCaptureState,
             videoStream |-> kind, asks |-> asks, lost |-> lost, late |-> c.late]
    BY DEF WithVideo, Answered, Capture
  <2>2. c.micStream \in BOOLEAN /\ c.micCaptureState \in {"idle", "active", "denied"}
        /\ c.late \in SUBSET {"mic", "video"}
    BY CaptureTypes
  <2> HIDE DEF lost, asks
  <2>3. lost \in SUBSET {"mic", "camera", "screen"} /\ asks \in [Asks -> Nat]
    BY <1>2, <1>3
  <2>4. /\ d.micStream = (c.micStream) /\ d.micCaptureState = c.micCaptureState /\ d.videoStream = kind
        /\ d.asks = asks /\ d.lost = lost /\ d.late = c.late
    BY <2>1
  <2>5. d = [micStream |-> d.micStream, micCaptureState |-> d.micCaptureState,
             videoStream |-> d.videoStream, asks |-> d.asks, lost |-> d.lost, late |-> d.late]
    BY <2>1
  <2>6. d \in Capture
    <3>1. /\ d.micStream \in BOOLEAN /\ d.micCaptureState \in {"idle", "active", "denied"}
          /\ d.videoStream \in {None, "camera", "screen"} /\ d.late \in SUBSET {"mic", "video"}
      BY <2>2, <2>4
    <3>2. d.asks \in [Asks -> Nat] /\ d.lost \in SUBSET {"mic", "camera", "screen"}
      BY <2>3, <2>4
    <3> QED BY <2>5, <3>1, <3>2, CaptureRecord
  <2> QED BY <2>4, <2>6
<1> HIDE DEF lost, asks
<1>5. SameMic(c, d)
  BY <1>2, <1>3, <1>4 DEF SameMic
<1>6. ASSUME "video" \notin d.late
      PROVE  /\ d.lost \subseteq {"mic"}
             /\ d.asks["camera"] = 0 /\ d.asks["screen"] = 0
             /\ Enabled(kind, sa, sv) \/ u \/ d.asks["room"] > 0
  <2>1. /\ c.lost \subseteq {"mic"} /\ c.asks["camera"] + c.asks["screen"] <= 1
        /\ c.videoStream = None
        /\ Enabled(kind, sa, sv) \/ u \/ c.asks["room"] > 0
    BY <1>4, <1>6 DEF VideoFits
  <2>2. asks["camera"] \in Nat /\ asks["screen"] \in Nat
    BY <1>2 DEF Asks
  <2>3. asks["camera"] = 0 /\ asks["screen"] = 0
    BY <1>1, <1>2, <2>1, <2>2
  <2> QED BY <1>2, <1>3, <1>4, <2>1, <2>3
<1>7. VideoFits(d, sa, sv, u)
  <2> SUFFICES ASSUME "video" \notin d.late
               PROVE  /\ d.lost \subseteq {"mic"}
                      /\ d.asks["camera"] + d.asks["screen"] <= 1
                      /\ \A k \in {"camera", "screen"} :
                           /\ d.asks[k] > 0 => d.videoStream = None
                           /\ d.videoStream = k \/ d.asks[k] > 0 =>
                                Enabled(k, sa, sv) \/ u \/ d.asks["room"] > 0
    BY DEF VideoFits
  <2> QED BY <1>4, <1>6
<1> QED BY <1>4, <1>5, <1>7

(* ... or refused.                                                         *)
LEMMA VideoRefused ==
  ASSUME NEW c \in Capture, NEW kind \in {"camera", "screen"}, c.asks[kind] > 0, NEW d,
         d = Answered(c, kind),
         NEW sa, NEW sv, NEW u, VideoFits(c, sa, sv, u)
  PROVE  d \in Capture /\ VideoFits(d, sa, sv, u) /\ SameMic(c, d)
<1> DEFINE asks == [c.asks EXCEPT ![kind] = @ - 1]
<1>1. /\ c.asks \in [Asks -> Nat] /\ kind \in Asks
      /\ c.asks["camera"] \in Nat /\ c.asks["screen"] \in Nat
  BY CaptureTypes DEF Asks
<1>2. /\ asks \in [Asks -> Nat]
      /\ asks["mic"] = c.asks["mic"] /\ asks["room"] = c.asks["room"]
      /\ asks["camera"] <= c.asks["camera"] /\ asks["screen"] <= c.asks["screen"]
  <2>1. c.asks[kind] \in Nat /\ c.asks[kind] - 1 \in Nat
    BY <1>1
  <2>2. CASE kind = "camera"
    BY <1>1, <2>1, <2>2 DEF Asks
  <2>3. CASE kind = "screen"
    BY <1>1, <2>1, <2>3 DEF Asks
  <2> QED BY <2>2, <2>3
<1>3. asks["camera"] \in Nat /\ asks["screen"] \in Nat
  BY <1>2 DEF Asks
<1>4. /\ d.micStream = c.micStream /\ d.videoStream = c.videoStream
      /\ d.asks = asks /\ d.lost = c.lost /\ d.late = c.late /\ d \in Capture
  <2> HIDE DEF asks
  <2>1. d = [c EXCEPT !.asks = asks]
    BY DEF Answered, asks
  <2> QED BY <1>2, <2>1 DEF Capture
<1> HIDE DEF asks
<1>5. SameMic(c, d)
  BY <1>2, <1>4 DEF SameMic
<1>6. VideoFits(d, sa, sv, u)
  <2>1. \A k \in {"camera", "screen"} : d.asks[k] > 0 => c.asks[k] > 0
    BY <1>1, <1>2, <1>3, <1>4
  <2>2. c.asks["camera"] + c.asks["screen"] <= 1 => d.asks["camera"] + d.asks["screen"] <= 1
    BY <1>1, <1>2, <1>3, <1>4
  <2> QED BY <1>2, <1>4, <2>1, <2>2 DEF VideoFits
<1> QED BY <1>4, <1>5, <1>6

-----------------------------------------------------------------------------
(***************************************************************************)
(* The inductive invariant.                                                *)
(***************************************************************************)
(* Calls after whose replies microphone and video are looked at again.     *)
MicPlaces == {"roomCamera", "roomScreen"}
CamPlaces == {"roomCamera", "roomScreen", "lockScreen"}

Wires ==
  /\ Typed(replies, calls, audio, video, audioStatus, videoStatus)
  /\ Linked(replies, calls, audio, video, audioStatus, videoStatus, pttHolding)
  /\ VideoNeedsRoom(replies, calls, video, audioStatus)

HoldingIsHeld == pttHolding => Talk(audioStatus) /\ held /\ focused

Streams ==
  /\ MicFits(capture, audioStatus, UnderWay(replies, calls, MicPlaces))
  /\ VideoFits(capture, audioStatus, videoStatus, UnderWay(replies, calls, CamPlaces))

MediaInv == TypeOK /\ Wires /\ HoldingIsHeld /\ Streams

-----------------------------------------------------------------------------
(* One more call.                                                          *)
LEMMA SendWires ==
  ASSUME NEW R, NEW C, NEW D, NEW c \in Calls, D = Append(C, c),
         NEW a, NEW v, NEW sa, NEW sv, NEW h,
         Typed(R, C, a, v, sa, sv), Linked(R, C, a, v, sa, sv, h),
         ~IsPress(c), c.then = "ptt" => c.arg # Talk(sa),
         ShownRoom(sa) = None => ~On(c, Camera) /\ ~On(c, Screen)
  PROVE  /\ Grows(C, c, D)
         /\ Typed(R, D, a, v, sa, sv) /\ Linked(R, D, a, v, sa, sv, h)
         /\ VideoNeedsRoom(R, C, v, sa) => VideoNeedsRoom(R, D, v, sa)
         /\ \A places : UnderWay(R, C, places) \/ c.then \in places => UnderWay(R, D, places)
<1>1. Grows(C, c, D) /\ D \in Seq(Calls)
  BY AppendGrows DEF Typed
<1>2. Typed(R, D, a, v, sa, sv)
  BY <1>1 DEF Typed
<1> QED BY <1>1, <1>2, LinkedSend, NeedsRoomSend, UnderWaySend

(* Nothing but the user's calls and inputs changes.                        *)
LEMMA SameStreams ==
  ASSUME MediaInv, UNCHANGED <<audioStatus, videoStatus, capture>>,
         UnderWay(replies, calls, MicPlaces) => UnderWay(replies', calls', MicPlaces),
         UnderWay(replies, calls, CamPlaces) => UnderWay(replies', calls', CamPlaces)
  PROVE  Streams'
<1>1. SameMic(capture, capture') /\ SameVideo(capture, capture') /\ capture' = capture
  BY DEF SameMic, SameVideo
<1>2. MicFits(capture', audioStatus', UnderWay(replies', calls', MicPlaces))
  BY <1>1, MicUnchanged DEF MediaInv, Streams
<1>3. VideoFits(capture', audioStatus', videoStatus', UnderWay(replies', calls', CamPlaces))
  <2>1. \A kind : Enabled(kind, audioStatus', videoStatus') <=> Enabled(kind, audioStatus, videoStatus)
    OBVIOUS
  <2> QED BY <1>1, <2>1, VideoUnchanged DEF MediaInv, Streams
<1> QED BY <1>2, <1>3 DEF Streams

LEMMA TypesFollow ==
  ASSUME Typed(replies', calls', audio', video', audioStatus', videoStatus'),
         pttHolding' \in BOOLEAN, capture' \in Capture, lock' \in {"none", "video", "vault"},
         held' \in BOOLEAN, focused' \in BOOLEAN, controls' \in Users
  PROVE  TypeOK'
BY DEF Typed, TypeOK

(* A button, a refusal or the end of sharing sends a call.                 *)
LEMMA SendStep ==
  ASSUME MediaInv, NEW c \in Calls, Send(c),
         ~IsPress(c), c.then = "ptt" => c.arg # Talk(audioStatus),
         ShownRoom(audioStatus) = None => ~On(c, Camera) /\ ~On(c, Screen),
         UNCHANGED <<audio, video, replies, audioStatus, videoStatus, pttHolding, user>>,
         lock' \in {"none", "video", "vault"}, capture' \in Capture
  PROVE  /\ TypeOK' /\ Wires' /\ HoldingIsHeld'
         /\ \A places : UnderWay(replies, calls, places) \/ c.then \in places =>
              UnderWay(replies', calls', places)
<1>1. /\ Typed(replies, calls', audio, video, audioStatus, videoStatus)
      /\ Linked(replies, calls', audio, video, audioStatus, videoStatus, pttHolding)
      /\ VideoNeedsRoom(replies, calls', video, audioStatus)
      /\ \A places : UnderWay(replies, calls, places) \/ c.then \in places =>
           UnderWay(replies, calls', places)
  BY SendWires DEF Send, MediaInv, Wires
<1>2. Wires'
  BY <1>1 DEF Wires
<1>3. TypeOK'
  BY <1>2, TypesFollow DEF MediaInv, TypeOK, user, Wires
<1>4. HoldingIsHeld'
  BY DEF MediaInv, HoldingIsHeld, user
<1> QED BY <1>1, <1>2, <1>3, <1>4

LEMMA ButtonStep ==
  ASSUME MediaInv, NEW control, NEW c \in Calls, Button(control, c),
         ~IsPress(c), c.then = "ptt" => c.arg # Talk(audioStatus),
         ShownRoom(audioStatus) = None => ~On(c, Camera) /\ ~On(c, Screen)
  PROVE  MediaInv'
<1>1. /\ Send(c)
      /\ UNCHANGED <<audio, video, replies, audioStatus, videoStatus, pttHolding, capture, lock, user>>
  BY DEF Button
<1>2. lock' \in {"none", "video", "vault"} /\ capture' \in Capture
  BY <1>1 DEF MediaInv, TypeOK
<1>3. /\ TypeOK' /\ Wires' /\ HoldingIsHeld'
      /\ \A places : UnderWay(replies, calls, places) => UnderWay(replies', calls', places)
  BY <1>1, <1>2, SendStep
<1>4. Streams'
  BY <1>1, <1>3, SameStreams
<1> QED BY <1>3, <1>4 DEF MediaInv

LEMMA ButtonsInv ==
  ASSUME MediaInv,
         \/ ToggleMute \/ ToggleDeafened \/ TogglePushToTalk
         \/ \E room \in Rooms : ToggleVoiceRoom(room)
         \/ ToggleCamera \/ ToggleScreenShare
  PROVE  MediaInv'
<1>1. audioStatus \in AudioState \cup {None} /\ videoStatus \in VideoState \cup {None}
  BY DEF MediaInv, TypeOK
<1>2. ASSUME NEW control, NEW c, AudioButton(control, c),
             audioStatus # None => c \in Calls /\ ~IsPress(c) /\ (c.then = "ptt" => c.arg # Talk(audioStatus))
                                   /\ ~On(c, Camera) /\ ~On(c, Screen)
      PROVE  MediaInv'
  <2>1. CASE audioStatus = None
    <3> DEFINE d == Call("audio_status", None, "audio")
    <3>1. d \in Calls /\ ~IsPress(d) /\ d.then # "ptt" /\ ~On(d, Camera) /\ ~On(d, Screen)
      BY DEF Call, Calls, IsPress, On, Camera, Screen
    <3>2. Button(control, d)
      BY <1>2, <2>1 DEF AudioButton
    <3> HIDE DEF d
    <3> QED BY <3>1, <3>2, ButtonStep
  <2>2. CASE audioStatus # None
    <3>1. Button(control, c)
      BY <1>2, <2>2 DEF AudioButton
    <3> QED BY <1>2, <2>2, <3>1, ButtonStep
  <2> QED BY <2>1, <2>2
<1>3. CASE ToggleMute
  <2> DEFINE c == Call("audio_set_muted", ~audioStatus.muted, "audio")
  <2>1. AudioButton("mute", c)
    BY <1>3 DEF ToggleMute
  <2>2. audioStatus # None => c \in Calls /\ ~IsPress(c) /\ c.then # "ptt" /\ ~On(c, Camera) /\ ~On(c, Screen)
    BY <1>1, AudioTypes DEF Call, Calls, IsPress, On, Camera, Screen
  <2> HIDE DEF c
  <2> QED BY <1>2, <2>1, <2>2
<1>4. CASE ToggleDeafened
  <2> DEFINE c == Call("audio_set_deafened", ~audioStatus.deafened, "audio")
  <2>1. AudioButton("deafen", c)
    BY <1>4 DEF ToggleDeafened
  <2>2. audioStatus # None => c \in Calls /\ ~IsPress(c) /\ c.then # "ptt" /\ ~On(c, Camera) /\ ~On(c, Screen)
    BY <1>1, AudioTypes DEF Call, Calls, IsPress, On, Camera, Screen
  <2> HIDE DEF c
  <2> QED BY <1>2, <2>1, <2>2
<1>5. CASE TogglePushToTalk
  <2> DEFINE c == Call("audio_set_push_to_talk", ~audioStatus.push_to_talk, "ptt")
  <2>1. AudioButton("ptt", c)
    BY <1>5 DEF TogglePushToTalk
  <2>2. audioStatus # None => c \in Calls /\ ~IsPress(c) /\ ~On(c, Camera) /\ ~On(c, Screen)
    BY <1>1, AudioTypes DEF Call, Calls, IsPress, On, Camera, Screen
  <2>3. audioStatus # None => c.arg # Talk(audioStatus)
    <3>1. audioStatus # None => audioStatus.push_to_talk \in BOOLEAN
      BY <1>1, AudioTypes
    <3> QED BY <3>1 DEF Call, Talk
  <2> HIDE DEF c
  <2> QED BY <1>2, <2>1, <2>2, <2>3
<1>6. ASSUME NEW room \in Rooms, ToggleVoiceRoom(room)
      PROVE  MediaInv'
  <2>1. PICK c \in {Call("audio_leave_room", None, "room"), Call("audio_join_room", room, "room")} :
          Button("room", c)
    BY <1>6 DEF ToggleVoiceRoom
  <2>2. c \in [command : {"audio_join_room"}, arg : Rooms, then : {"room"}]
        \/ c \in [command : {"audio_leave_room"}, arg : {None}, then : {"room"}]
    BY DEF Call
  <2>3. c \in Calls
    BY <2>2 DEF Calls
  <2>4. ~IsPress(c) /\ c.then # "ptt" /\ ~On(c, Camera) /\ ~On(c, Screen)
    BY <2>2 DEF IsPress, On, Camera, Screen
  <2> QED BY <2>1, <2>3, <2>4, ButtonStep
<1>7. CASE ToggleCamera
  <2>1. PICK c : c = Call(Camera, ~(videoStatus # None /\ videoStatus.camera_enabled), "video")
                 /\ Button("camera", c) /\ canUseVideo(audioStatus)
    BY <1>7 DEF ToggleCamera, Camera
  <2>2. c \in Calls /\ ~IsPress(c) /\ c.then # "ptt"
    BY <2>1 DEF Call, Calls, IsPress, Camera
  <2>3. ShownRoom(audioStatus) # None
    BY <2>1 DEF canUseVideo, ShownRoom
  <2> QED BY <2>1, <2>2, <2>3, ButtonStep
<1>8. CASE ToggleScreenShare
  <2>1. PICK c : c = Call(Screen, ~(videoStatus # None /\ videoStatus.screen_share_enabled), "video")
                 /\ Button("screen", c) /\ canUseVideo(audioStatus)
    BY <1>8 DEF ToggleScreenShare, Screen
  <2>2. c \in Calls /\ ~IsPress(c) /\ c.then # "ptt"
    BY <2>1 DEF Call, Calls, IsPress, Screen
  <2>3. ShownRoom(audioStatus) # None
    BY <2>1 DEF canUseVideo, ShownRoom
  <2> QED BY <2>1, <2>2, <2>3, ButtonStep
<1> QED BY <1>3, <1>4, <1>5, <1>6, <1>7, <1>8


(* The key and the window.                                                 *)
LEMMA PressStep ==
  ASSUME MediaInv, NEW pressed \in BOOLEAN, Press(pressed),
         UNCHANGED <<audio, video, replies, audioStatus, videoStatus>>
  PROVE  /\ Wires'
         /\ UnderWay(replies, calls, MicPlaces) => UnderWay(replies', calls', MicPlaces)
         /\ UnderWay(replies, calls, CamPlaces) => UnderWay(replies', calls', CamPlaces)
         /\ pttHolding' \in BOOLEAN
         /\ pttHolding' => Talk(audioStatus) /\ (pressed \/ pttHolding)
         /\ ~pressed => ~pttHolding'
<1>1. pttHolding \in BOOLEAN /\ (pttHolding => Talk(audioStatus)) /\ Wires
  BY DEF MediaInv, TypeOK, HoldingIsHeld
<1>2. CASE Talk(audioStatus) /\ pttHolding # pressed
  <2> DEFINE c == Call("audio_set_ptt_pressed", pressed, "audio")
  <2>1. pttHolding' = pressed /\ calls' = Append(calls, c)
    BY <1>2 DEF Press, Send, Talk
  <2>2. c \in Calls /\ IsPress(c) /\ c.then = "audio" /\ c.arg = pressed /\ ~On(c, Camera) /\ ~On(c, Screen)
    BY DEF Call, Calls, IsPress, On, Camera, Screen
  <2> HIDE DEF c
  <2>3. Grows(calls, c, calls') /\ calls' \in Seq(Calls)
    BY <1>1, <2>1, <2>2, AppendGrows DEF Wires, Typed
  <2>4. Typed(replies', calls', audio', video', audioStatus', videoStatus')
    BY <1>1, <2>3 DEF Wires, Typed
  <2>5. Linked(replies', calls', audio', video', audioStatus', videoStatus', pttHolding')
    BY <1>1, <1>2, <2>1, <2>2, <2>3, LinkedPress DEF Wires
  <2>6. VideoNeedsRoom(replies', calls', video', audioStatus')
    BY <1>1, <2>2, <2>3, NeedsRoomSend DEF Wires
  <2>7. \A places : UnderWay(replies, calls, places) => UnderWay(replies', calls', places)
    BY <2>3, UnderWaySend
  <2> QED BY <1>2, <2>1, <2>4, <2>5, <2>6, <2>7 DEF Wires
<1>3. CASE ~(Talk(audioStatus) /\ pttHolding # pressed)
  <2>1. UNCHANGED <<calls, pttHolding>>
    BY <1>3 DEF Press, Talk
  <2>2. Wires'
    BY <1>1, <2>1 DEF Wires
  <2>3. ~pressed => ~pttHolding
    BY <1>1, <1>3
  <2> QED BY <1>1, <2>1, <2>2, <2>3
<1> QED BY <1>2, <1>3

LEMMA KeyInv ==
  ASSUME MediaInv,
         \/ \E editable \in BOOLEAN : KeyDown(editable)
         \/ KeyUp \/ Blur \/ Focus
  PROVE  MediaInv'
<1>1. /\ Handled /\ controls' \in Users /\ held' \in BOOLEAN /\ focused' \in BOOLEAN
      /\ capture' \in Capture /\ lock' \in {"none", "video", "vault"}
  BY DEF KeyDown, KeyUp, Blur, Focus, Handled, MediaInv, TypeOK
<1>2. /\ UNCHANGED <<audio, video, replies, audioStatus, videoStatus, capture>>
      /\ pttHolding \in BOOLEAN /\ (pttHolding => Talk(audioStatus) /\ held /\ focused)
      /\ held \in BOOLEAN /\ focused \in BOOLEAN
  BY <1>1 DEF Handled, MediaInv, TypeOK, HoldingIsHeld
<1>3. ASSUME UNCHANGED <<calls, pttHolding>>
      PROVE  /\ Wires' /\ pttHolding' \in BOOLEAN
             /\ UnderWay(replies, calls, MicPlaces) => UnderWay(replies', calls', MicPlaces)
             /\ UnderWay(replies, calls, CamPlaces) => UnderWay(replies', calls', CamPlaces)
  BY <1>2, <1>3 DEF MediaInv, Wires
<1>4. ASSUME NEW pressed \in BOOLEAN, Press(pressed)
      PROVE  /\ Wires' /\ pttHolding' \in BOOLEAN
             /\ UnderWay(replies, calls, MicPlaces) => UnderWay(replies', calls', MicPlaces)
             /\ UnderWay(replies, calls, CamPlaces) => UnderWay(replies', calls', CamPlaces)
  BY <1>2, <1>4, PressStep
<1>5. ASSUME /\ Wires' /\ pttHolding' \in BOOLEAN
             /\ UnderWay(replies, calls, MicPlaces) => UnderWay(replies', calls', MicPlaces)
             /\ UnderWay(replies, calls, CamPlaces) => UnderWay(replies', calls', CamPlaces),
             HoldingIsHeld'
      PROVE  MediaInv'
  <2>1. Streams'
    BY <1>2, <1>5, SameStreams
  <2>2. TypeOK'
    BY <1>1, <1>5, TypesFollow DEF Wires
  <2> QED BY <1>5, <2>1, <2>2 DEF MediaInv
<1>6. ASSUME NEW editable \in BOOLEAN, KeyDown(editable)
      PROVE  MediaInv'
  <2>1. focused' /\ held'
    BY <1>2, <1>6 DEF KeyDown
  <2>2. CASE editable
    <3>1. UNCHANGED <<calls, pttHolding>>
      BY <1>6, <2>2 DEF KeyDown
    <3>2. HoldingIsHeld'
      BY <1>2, <2>1, <3>1 DEF HoldingIsHeld
    <3> QED BY <1>3, <1>5, <3>1, <3>2
  <2>3. CASE ~editable
    <3>1. Press(TRUE)
      BY <1>6, <2>3 DEF KeyDown
    <3>2. HoldingIsHeld'
      BY <1>2, <2>1, <3>1, PressStep DEF HoldingIsHeld
    <3> QED BY <1>4, <1>5, <3>1, <3>2
  <2> QED BY <2>2, <2>3
<1>7. CASE KeyUp
  <2>1. CASE focused
    <3>1. Press(FALSE)
      BY <1>7, <2>1 DEF KeyUp
    <3>2. HoldingIsHeld'
      BY <1>2, <3>1, PressStep DEF HoldingIsHeld
    <3> QED BY <1>4, <1>5, <3>1, <3>2
  <2>2. CASE ~focused
    <3>1. UNCHANGED <<calls, pttHolding>>
      BY <1>7, <2>2 DEF KeyUp
    <3>2. HoldingIsHeld'
      BY <1>2, <2>2, <3>1 DEF HoldingIsHeld
    <3> QED BY <1>3, <1>5, <3>1, <3>2
  <2> QED BY <2>1, <2>2
<1>8. CASE Blur
  <2>1. CASE pttHolding
    <3>1. Press(FALSE)
      BY <1>8, <2>1 DEF Blur
    <3>2. HoldingIsHeld'
      BY <1>2, <3>1, PressStep DEF HoldingIsHeld
    <3> QED BY <1>4, <1>5, <3>1, <3>2
  <2>2. CASE ~pttHolding
    <3>1. UNCHANGED <<calls, pttHolding>>
      BY <1>8, <2>2 DEF Blur
    <3>2. HoldingIsHeld'
      BY <2>2, <3>1 DEF HoldingIsHeld
    <3> QED BY <1>3, <1>5, <3>1, <3>2
  <2> QED BY <2>1, <2>2
<1>9. CASE Focus
  <2>1. UNCHANGED <<calls, pttHolding>> /\ ~focused
    BY <1>9 DEF Focus
  <2>2. HoldingIsHeld'
    BY <1>2, <2>1 DEF HoldingIsHeld
  <2> QED BY <1>3, <1>5, <2>1, <2>2
<1> QED BY <1>6, <1>7, <1>8, <1>9

(* The native side executes a call.                                        *)
LEMMA ExecuteInv ==
  ASSUME MediaInv, Execute
  PROVE  MediaInv'
<1> DEFINE c == Head(calls)
           r == [then |-> c.then,
                 status |-> IF c.command \in AudioCommands THEN Status(audio') ELSE video']
<1>1. /\ calls # << >> /\ calls' = Tail(calls) /\ replies' = Append(replies, r)
      /\ audio' = RunAudio(audio, c) /\ video' = RunVideo(video, c)
      /\ UNCHANGED <<audioStatus, videoStatus, pttHolding, capture, lock, user>>
  BY DEF Execute
<1>2. /\ Typed(replies, calls, audio, video, audioStatus, videoStatus)
      /\ Linked(replies, calls, audio, video, audioStatus, videoStatus, pttHolding)
      /\ VideoNeedsRoom(replies, calls, video, audioStatus)
  BY DEF MediaInv, Wires
<1>3. c \in Calls /\ Shrinks(calls, c, calls') /\ calls' \in Seq(Calls)
  BY <1>1, <1>2, TailShrinks DEF Typed
<1>4. r \in ReplySet
  <2>1. c.then \in AudioPlaces \cup VideoPlaces /\ (c.then \in AudioPlaces <=> c.command \in AudioCommands)
    BY <1>3, CallTypes
  <2>2. audio' \in AudioState /\ video' \in VideoState
    BY <1>1, <1>2, <1>3, RunAudioEffect, RunVideoEffect DEF Typed
  <2>3. Status(audio') \in AudioState
    BY <2>2, StatusTypes
  <2> QED BY <2>1, <2>2, <2>3, PlacesApart DEF ReplySet
<1>5. r.then = c.then
  OBVIOUS
<1>6. r = [then |-> c.then,
           status |-> IF c.command \in AudioCommands THEN Status(audio') ELSE video']
  OBVIOUS
<1> HIDE DEF r, c
<1>7. Grows(replies, r, replies') /\ replies' \in Seq(ReplySet)
  BY <1>1, <1>2, <1>4, AppendGrows DEF Typed
<1>8. /\ Linked(replies', calls', audio', video', audioStatus, videoStatus, pttHolding)
      /\ VideoNeedsRoom(replies', calls', video', audioStatus)
      /\ audio' \in AudioState /\ (audio'.ptt_pressed => audio'.push_to_talk)
      /\ video' \in VideoState /\ ~(video'.camera_enabled /\ video'.screen_share_enabled)
  BY <1>1, <1>2, <1>3, <1>6, <1>7, LinkedExecute
<1>9. Wires'
  BY <1>1, <1>2, <1>3, <1>7, <1>8 DEF Wires, Typed
<1>10. \A places : UnderWay(replies, calls, places) => UnderWay(replies', calls', places)
  BY <1>3, <1>5, <1>7, UnderWayExecute
<1>11. Streams'
  BY <1>1, <1>10, SameStreams
<1>12. TypeOK'
  BY <1>1, <1>9, TypesFollow DEF MediaInv, TypeOK, user, Wires
<1>13. HoldingIsHeld'
  BY <1>1 DEF MediaInv, HoldingIsHeld, user
<1> QED BY <1>9, <1>11, <1>12, <1>13 DEF MediaInv


-----------------------------------------------------------------------------
(* The user interface takes up a reply.                                    *)
LEMMA TakeStep ==
  ASSUME MediaInv, NEW then, Returns(then),
         audioStatus' = IF then \in AudioPlaces THEN Reply ELSE audioStatus,
         videoStatus' = IF then \in VideoPlaces THEN Reply ELSE videoStatus,
         pttHolding' = IF then = "ptt" THEN pttHolding /\ Reply.push_to_talk ELSE pttHolding
  PROVE  /\ Typed(replies', calls, audio', video', audioStatus', videoStatus')
         /\ Linked(replies', calls, audio', video', audioStatus', videoStatus', pttHolding')
         /\ then # "room" => ShownRoom(audioStatus') = ShownRoom(audioStatus)
         /\ then = "room" => videoStatus # None /\ (ShownRoom(audioStatus') = None <=> Reply.joined_room = None)
         /\ then \notin {"room", "roomCamera"} => VideoNeedsRoom(replies', calls, video', audioStatus')
         /\ \A places : then \notin places /\ UnderWay(replies, calls, places) => UnderWay(replies', calls, places)
         /\ pttHolding' \in BOOLEAN
         /\ HoldingIsHeld'
         /\ controls' \in Users /\ held' \in BOOLEAN /\ focused' \in BOOLEAN
<1> DEFINE r == Head(replies)
<1>1. /\ replies # << >> /\ replies' = Tail(replies) /\ r.then = then /\ Reply = r.status
      /\ UNCHANGED <<audio, video, user>>
  BY DEF Returns, Reply
<1>2. /\ Typed(replies, calls, audio, video, audioStatus, videoStatus)
      /\ Linked(replies, calls, audio, video, audioStatus, videoStatus, pttHolding)
      /\ VideoNeedsRoom(replies, calls, video, audioStatus)
      /\ pttHolding \in BOOLEAN /\ (pttHolding => Talk(audioStatus) /\ held /\ focused)
  BY DEF MediaInv, Wires, TypeOK, HoldingIsHeld
<1>3. r \in ReplySet /\ Shrinks(replies, r, replies') /\ replies' \in Seq(ReplySet)
  BY <1>1, <1>2, TailShrinks DEF Typed
<1> HIDE DEF r
<1>4. /\ Linked(replies', calls, audio, video, audioStatus', videoStatus', pttHolding')
      /\ audioStatus' \in AudioState \cup {None} /\ videoStatus' \in VideoState \cup {None}
      /\ pttHolding' \in BOOLEAN /\ (pttHolding' => pttHolding /\ Talk(audioStatus'))
      /\ then # "room" => ShownRoom(audioStatus') = ShownRoom(audioStatus)
      /\ then = "room" => videoStatus # None
  BY <1>1, <1>2, <1>3, LinkedTake
<1>5. Typed(replies', calls, audio', video', audioStatus', videoStatus')
  BY <1>1, <1>2, <1>3, <1>4 DEF Typed
<1>6. then \notin {"room", "roomCamera"} => VideoNeedsRoom(replies', calls, video, audioStatus')
  BY <1>1, <1>2, <1>3, <1>4, NeedsRoomTake
<1>7. \A places : then \notin places /\ UnderWay(replies, calls, places) => UnderWay(replies', calls, places)
  BY <1>1, <1>3, UnderWayTake
<1>8. then = "room" => (ShownRoom(audioStatus') = None <=> Reply.joined_room = None)
  <2>1. then = "room" => audioStatus' = Reply /\ Reply # None
    BY <1>1, <1>3, ReplyTypes, PlacesApart
  <2> QED BY <2>1 DEF ShownRoom
<1>9. HoldingIsHeld'
  BY <1>1, <1>2, <1>4 DEF HoldingIsHeld, user
<1>10. controls' \in Users /\ held' \in BOOLEAN /\ focused' \in BOOLEAN
  BY <1>1 DEF MediaInv, TypeOK, user
<1>11. audio' = audio /\ video' = video
  BY <1>1
<1> QED BY <1>4, <1>5, <1>6, <1>7, <1>8, <1>9, <1>10, <1>11

(* What is left to show of a step that takes up a reply and sends nothing. *)
LEMMA Concludes ==
  ASSUME Typed(replies', calls', audio', video', audioStatus', videoStatus'),
         Linked(replies', calls', audio', video', audioStatus', videoStatus', pttHolding'),
         VideoNeedsRoom(replies', calls', video', audioStatus'),
         pttHolding' \in BOOLEAN, HoldingIsHeld',
         controls' \in Users, held' \in BOOLEAN, focused' \in BOOLEAN,
         lock' \in {"none", "video", "vault"}, capture' \in Capture,
         MicFits(capture', audioStatus', UnderWay(replies', calls', MicPlaces)),
         VideoFits(capture', audioStatus', videoStatus', UnderWay(replies', calls', CamPlaces))
  PROVE  MediaInv'
<1>1. Wires' /\ Streams'
  BY DEF Wires, Streams
<1>2. TypeOK'
  BY TypesFollow
<1> QED BY <1>1, <1>2 DEF MediaInv

LEMMA CaptureNow ==
  ASSUME MediaInv
  PROVE  /\ capture \in Capture /\ lock \in {"none", "video", "vault"}
         /\ MicFits(capture, audioStatus, UnderWay(replies, calls, MicPlaces))
         /\ VideoFits(capture, audioStatus, videoStatus, UnderWay(replies, calls, CamPlaces))
BY DEF MediaInv, TypeOK, Streams

LEMMA SyncRoomStep ==
  ASSUME MediaInv, SyncRoom(audioStatus', videoStatus'), NEW w, NEW y
  PROVE  /\ capture' \in Capture
         /\ MicFits(capture', audioStatus', w)
         /\ VideoFits(capture', audioStatus', videoStatus', y)
<1>1. PICK e : /\ e = SyncMic(capture, audioStatus', "room")
               /\ capture' = IF e.asks["room"] > capture.asks["room"] THEN e
                             ELSE syncVideoCapture(e, audioStatus', videoStatus')
  BY DEF SyncRoom
<1> QED BY <1>1, CaptureNow, SyncRoomEffect

(* The microphone follows a new audio status; the room is the same.        *)
LEMMA AudioInv ==
  ASSUME MediaInv, AudioReturns \/ PushToTalkReturns
  PROVE  MediaInv'
<1>1. PICK then \in {"audio", "ptt"} :
        /\ Returns(then) /\ audioStatus' = Reply
        /\ capture' = SyncMic(capture, Reply, "mic")
        /\ pttHolding' = IF then = "ptt" THEN pttHolding /\ Reply.push_to_talk ELSE pttHolding
        /\ UNCHANGED <<calls, videoStatus, lock>>
  BY DEF AudioReturns, PushToTalkReturns
<1>2. /\ Typed(replies', calls, audio', video', audioStatus', videoStatus')
      /\ Linked(replies', calls, audio', video', audioStatus', videoStatus', pttHolding')
      /\ ShownRoom(audioStatus') = ShownRoom(audioStatus)
      /\ VideoNeedsRoom(replies', calls, video', audioStatus')
      /\ \A places : then \notin places /\ UnderWay(replies, calls, places) => UnderWay(replies', calls, places)
      /\ pttHolding' \in BOOLEAN /\ HoldingIsHeld'
      /\ controls' \in Users /\ held' \in BOOLEAN /\ focused' \in BOOLEAN
  <2>1. /\ audioStatus' = IF then \in AudioPlaces THEN Reply ELSE audioStatus
        /\ videoStatus' = IF then \in VideoPlaces THEN Reply ELSE videoStatus
    BY <1>1 DEF AudioPlaces, VideoPlaces
  <2> QED BY <1>1, <2>1, TakeStep
<1>3. /\ capture' \in Capture
      /\ MicFits(capture', audioStatus', UnderWay(replies', calls', MicPlaces))
      /\ SameVideo(capture, capture')
      /\ capture'.asks["room"] >= capture.asks["room"]
  BY <1>1, CaptureNow, SyncMicEffect DEF MicAsks
<1>4. VideoFits(capture', audioStatus', videoStatus', UnderWay(replies', calls', CamPlaces))
  <2>1. UnderWay(replies, calls, CamPlaces) => UnderWay(replies', calls', CamPlaces)
    BY <1>1, <1>2 DEF CamPlaces
  <2>2. canUseVideo(audioStatus) => canUseVideo(audioStatus')
    BY <1>2 DEF canUseVideo, ShownRoom
  <2>3. \A kind : Enabled(kind, audioStatus, videoStatus) => Enabled(kind, audioStatus', videoStatus')
    BY <1>1, <2>2 DEF Enabled
  <2>4. capture.asks["room"] > 0 => capture'.asks["room"] > 0
    <3>1. capture.asks["room"] \in Nat /\ capture'.asks["room"] \in Nat
      BY <1>3, CaptureNow, CaptureTypes
    <3> QED BY <1>3, <3>1
  <2> QED BY <1>3, <2>1, <2>3, <2>4, CaptureNow, VideoUnchanged
<1> QED BY <1>1, <1>2, <1>3, <1>4, CaptureNow, Concludes

(* Another room, or none: then the camera is switched off first.           *)
LEMMA RoomInv ==
  ASSUME MediaInv, RoomReturns
  PROVE  MediaInv'
<1>1. /\ Returns("room") /\ audioStatus' = Reply
      /\ UNCHANGED <<videoStatus, pttHolding, lock>>
  BY DEF RoomReturns
<1>2. /\ Typed(replies', calls, audio', video', audioStatus', videoStatus')
      /\ Linked(replies', calls, audio', video', audioStatus', videoStatus', pttHolding')
      /\ videoStatus # None /\ (ShownRoom(audioStatus') = None <=> Reply.joined_room = None)
      /\ pttHolding' \in BOOLEAN /\ HoldingIsHeld'
      /\ controls' \in Users /\ held' \in BOOLEAN /\ focused' \in BOOLEAN
  <2>1. /\ audioStatus' = IF "room" \in AudioPlaces THEN Reply ELSE audioStatus
        /\ videoStatus' = IF "room" \in VideoPlaces THEN Reply ELSE videoStatus
        /\ pttHolding' = IF "room" = "ptt" THEN pttHolding /\ Reply.push_to_talk ELSE pttHolding
    BY <1>1 DEF AudioPlaces, VideoPlaces
  <2> QED BY <1>1, <2>1, TakeStep
<1>3. CASE Reply.joined_room = None
  <2> DEFINE c == CameraOff("roomCamera")
  <2>1. calls' = Append(calls, c) /\ UNCHANGED capture
    BY <1>2, <1>3 DEF RoomReturns, Send
  <2>2. c \in Calls /\ Off(c, Camera) /\ c.then = "roomCamera" /\ c.then # "ptt" /\ ~IsPress(c) /\ ~On(c, Camera) /\ ~On(c, Screen)
    BY DEF CameraOff, Call, Calls, Off, On, Camera, Screen, IsPress
  <2> HIDE DEF c
  <2>3. /\ Grows(calls, c, calls')
        /\ Typed(replies', calls', audio', video', audioStatus', videoStatus')
        /\ Linked(replies', calls', audio', video', audioStatus', videoStatus', pttHolding')
        /\ \A places : c.then \in places => UnderWay(replies', calls', places)
    BY <1>2, <2>1, <2>2, SendWires
  <2>4. VideoNeedsRoom(replies', calls', video', audioStatus')
    BY <2>2, <2>3, NeedsRoomLeave
  <2>5. UnderWay(replies', calls', MicPlaces) /\ UnderWay(replies', calls', CamPlaces)
    BY <2>2, <2>3 DEF MicPlaces, CamPlaces
  <2>6. MicFits(capture', audioStatus', UnderWay(replies', calls', MicPlaces))
    BY <2>1, <2>5, CaptureNow DEF MicFits
  <2>7. VideoFits(capture', audioStatus', videoStatus', UnderWay(replies', calls', CamPlaces))
    BY <2>1, <2>5, CaptureNow DEF VideoFits
  <2> QED BY <1>1, <1>2, <2>1, <2>3, <2>4, <2>6, <2>7, CaptureNow, Concludes
<1>4. CASE Reply.joined_room # None
  <2>1. SyncRoom(audioStatus', videoStatus') /\ UNCHANGED calls
    BY <1>1, <1>4 DEF RoomReturns
  <2>2. /\ capture' \in Capture
        /\ MicFits(capture', audioStatus', UnderWay(replies', calls', MicPlaces))
        /\ VideoFits(capture', audioStatus', videoStatus', UnderWay(replies', calls', CamPlaces))
    BY <2>1, SyncRoomStep
  <2>3. VideoNeedsRoom(replies', calls', video', audioStatus')
    BY <1>2, <1>4 DEF VideoNeedsRoom
  <2> QED BY <1>1, <1>2, <2>1, <2>2, <2>3, CaptureNow, Concludes
<1> QED BY <1>3, <1>4

(* The camera is off, and the screen follows.                              *)
LEMMA RoomCameraInv ==
  ASSUME MediaInv, RoomCameraReturns
  PROVE  MediaInv'
<1> DEFINE c == ScreenOff("roomScreen")
<1>1. /\ Returns("roomCamera") /\ videoStatus' = Reply /\ calls' = Append(calls, c)
      /\ UNCHANGED <<audioStatus, pttHolding, capture, lock>>
  BY DEF RoomCameraReturns, Send
<1>2. /\ Typed(replies', calls, audio', video', audioStatus', videoStatus')
      /\ Linked(replies', calls, audio', video', audioStatus', videoStatus', pttHolding')
      /\ pttHolding' \in BOOLEAN /\ HoldingIsHeld'
      /\ controls' \in Users /\ held' \in BOOLEAN /\ focused' \in BOOLEAN
  <2>1. /\ audioStatus' = IF "roomCamera" \in AudioPlaces THEN Reply ELSE audioStatus
        /\ videoStatus' = IF "roomCamera" \in VideoPlaces THEN Reply ELSE videoStatus
        /\ pttHolding' = IF "roomCamera" = "ptt" THEN pttHolding /\ Reply.push_to_talk ELSE pttHolding
    BY <1>1 DEF AudioPlaces, VideoPlaces
  <2> QED BY <1>1, <2>1, TakeStep
<1>3. c \in Calls /\ Off(c, Screen) /\ c.then = "roomScreen" /\ c.then # "ptt" /\ ~IsPress(c) /\ ~On(c, Camera) /\ ~On(c, Screen)
  BY DEF ScreenOff, Call, Calls, Off, On, Camera, Screen, IsPress
<1> HIDE DEF c
<1>4. /\ Grows(calls, c, calls')
      /\ Typed(replies', calls', audio', video', audioStatus', videoStatus')
      /\ Linked(replies', calls', audio', video', audioStatus', videoStatus', pttHolding')
      /\ \A places : c.then \in places => UnderWay(replies', calls', places)
  BY <1>1, <1>2, <1>3, SendWires
<1>5. VideoNeedsRoom(replies', calls', video', audioStatus')
  <2>1. VideoNeedsRoom(replies, calls, video, audioStatus) /\ video' = video
    BY <1>1 DEF MediaInv, Wires, Returns
  <2> QED BY <1>1, <1>3, <1>4, <2>1, NeedsRoomScreen
<1>6. UnderWay(replies', calls', MicPlaces) /\ UnderWay(replies', calls', CamPlaces)
  BY <1>3, <1>4 DEF MicPlaces, CamPlaces
<1>7. MicFits(capture', audioStatus', UnderWay(replies', calls', MicPlaces))
  BY <1>1, <1>6, CaptureNow DEF MicFits
<1>8. VideoFits(capture', audioStatus', videoStatus', UnderWay(replies', calls', CamPlaces))
  BY <1>1, <1>6, CaptureNow DEF VideoFits
<1> QED BY <1>1, <1>2, <1>4, <1>5, <1>7, <1>8, CaptureNow, Concludes

(* A new status of camera and screen after which nothing is sent.          *)
LEMMA VideoTake ==
  ASSUME MediaInv, NEW then \in VideoPlaces \ {"roomCamera"}, Returns(then), videoStatus' = Reply,
         UNCHANGED <<calls, audioStatus, pttHolding>>,
         lock' \in {"none", "video", "vault"}, capture' \in Capture,
         \/ MicFits(capture', audioStatus', UnderWay(replies', calls', MicPlaces))
         \/ then # "roomScreen" /\ SameMic(capture, capture'),
         VideoFits(capture', audioStatus', videoStatus', UnderWay(replies', calls', CamPlaces))
  PROVE  MediaInv'
<1>1. /\ Typed(replies', calls, audio', video', audioStatus', videoStatus')
      /\ Linked(replies', calls, audio', video', audioStatus', videoStatus', pttHolding')
      /\ VideoNeedsRoom(replies', calls, video', audioStatus')
      /\ \A places : then \notin places /\ UnderWay(replies, calls, places) => UnderWay(replies', calls, places)
      /\ pttHolding' \in BOOLEAN /\ HoldingIsHeld'
      /\ controls' \in Users /\ held' \in BOOLEAN /\ focused' \in BOOLEAN
  <2>1. /\ audioStatus' = IF then \in AudioPlaces THEN Reply ELSE audioStatus
        /\ videoStatus' = IF then \in VideoPlaces THEN Reply ELSE videoStatus
        /\ pttHolding' = IF then = "ptt" THEN pttHolding /\ Reply.push_to_talk ELSE pttHolding
        /\ then \notin {"room", "roomCamera"}
    BY DEF AudioPlaces, VideoPlaces
  <2> QED BY <2>1, TakeStep
<1>2. MicFits(capture', audioStatus', UnderWay(replies', calls', MicPlaces))
  <2>1. CASE then # "roomScreen" /\ SameMic(capture, capture')
    <3>1. UnderWay(replies, calls, MicPlaces) => UnderWay(replies', calls', MicPlaces)
      BY <1>1, <2>1 DEF MicPlaces
    <3> QED BY <2>1, <3>1, CaptureNow, MicUnchanged
  <2> QED BY <2>1
<1> QED BY <1>1, <1>2, Concludes

LEMMA VideoInv ==
  ASSUME MediaInv,
         \/ RoomScreenReturns \/ VideoReturns \/ DeniedReturns \/ EndedReturns \/ LockScreenReturns
  PROVE  MediaInv'
<1>1. CASE RoomScreenReturns
  <2>1. /\ Returns("roomScreen") /\ videoStatus' = Reply /\ SyncRoom(audioStatus', videoStatus')
        /\ UNCHANGED <<calls, audioStatus, pttHolding, lock>>
        /\ "roomScreen" \in VideoPlaces \ {"roomCamera"}
    BY <1>1 DEF RoomScreenReturns, VideoPlaces
  <2>2. /\ capture' \in Capture
        /\ MicFits(capture', audioStatus', UnderWay(replies', calls', MicPlaces))
        /\ VideoFits(capture', audioStatus', videoStatus', UnderWay(replies', calls', CamPlaces))
    BY <2>1, SyncRoomStep
  <2> QED BY <2>1, <2>2, CaptureNow, VideoTake
<1>2. CASE VideoReturns
  <2>1. /\ Returns("video") /\ videoStatus' = Reply
        /\ capture' = syncVideoCapture(capture, audioStatus, Reply)
        /\ UNCHANGED <<calls, audioStatus, pttHolding, lock>>
        /\ "video" \in VideoPlaces \ {"roomCamera"}
    BY <1>2 DEF VideoReturns, VideoPlaces
  <2>2. /\ capture' \in Capture /\ SameMic(capture, capture')
        /\ VideoFits(capture', audioStatus', videoStatus', UnderWay(replies', calls', CamPlaces))
    BY <2>1, CaptureNow, SyncVideoEffect
  <2> QED BY <2>1, <2>2, CaptureNow, VideoTake
<1>3. CASE EndedReturns \/ LockScreenReturns
  <2>1. PICK then \in {"ended", "lockScreen"} :
          /\ Returns(then) /\ videoStatus' = Reply
          /\ capture' = clearVideoCapture(capture)
          /\ UNCHANGED <<calls, audioStatus, pttHolding>>
          /\ lock' \in {lock, "vault"}
    BY <1>3 DEF EndedReturns, LockScreenReturns
  <2>2. /\ capture' \in Capture /\ SameMic(capture, capture')
        /\ VideoFits(capture', audioStatus', videoStatus', UnderWay(replies', calls', CamPlaces))
    BY <2>1, CaptureNow, ClearEffect
  <2>3. then \in VideoPlaces \ {"roomCamera"} /\ then # "roomScreen" /\ lock' \in {"none", "video", "vault"}
    BY <2>1, CaptureNow DEF VideoPlaces
  <2> QED BY <2>1, <2>2, <2>3, VideoTake
<1>4. CASE DeniedReturns
  <2> DEFINE late == IF capture.videoStream # None THEN capture.late \cup {"video"}
                     ELSE LateVideo(capture)
  <2>1. /\ Returns("denied") /\ videoStatus' = Reply
        /\ capture' = [capture EXCEPT !.late = late]
        /\ UNCHANGED <<calls, audioStatus, pttHolding, lock>>
        /\ "denied" \in VideoPlaces \ {"roomCamera"}
    BY <1>4 DEF DeniedReturns, VideoPlaces
  <2>2. /\ late \in SUBSET {"mic", "video"} /\ ("mic" \in late <=> "mic" \in capture.late)
        /\ "video" \notin late =>
             "video" \notin capture.late /\ ~Open(capture, Asks \ MicAsks) /\ capture.videoStream = None
    BY CaptureNow, CaptureTypes DEF LateVideo
  <2> HIDE DEF late
  <2>3. /\ capture' \in Capture /\ capture'.late = late /\ capture'.asks = capture.asks
        /\ capture'.lost = capture.lost /\ capture'.videoStream = capture.videoStream
        /\ capture'.micStream = capture.micStream
    BY <2>1, <2>2, CaptureNow DEF Capture
  <2>4. SameMic(capture, capture')
    BY <2>2, <2>3 DEF SameMic
  <2>5. VideoFits(capture', audioStatus', videoStatus', UnderWay(replies', calls', CamPlaces))
    <3> SUFFICES ASSUME "video" \notin capture'.late
                 PROVE  /\ capture'.lost \subseteq {"mic"}
                        /\ capture'.asks["camera"] + capture'.asks["screen"] <= 1
                        /\ \A kind \in {"camera", "screen"} :
                             ~(capture'.asks[kind] > 0) /\ capture'.videoStream # kind
      BY DEF VideoFits
    <3>1. /\ "video" \notin capture.late /\ ~Open(capture, Asks \ MicAsks) /\ capture.videoStream = None
      BY <2>2, <2>3
    <3>2. ~(capture.asks["camera"] > 0) /\ ~(capture.asks["screen"] > 0)
      BY <3>1, OpenAsks
    <3>3. capture.asks["camera"] \in Nat /\ capture.asks["screen"] \in Nat
      BY CaptureNow, CaptureTypes
    <3>4. capture.lost \subseteq {"mic"}
      BY <3>1, CaptureNow DEF VideoFits
    <3>5. None # "camera" /\ None # "screen"
      BY NoneAssumption
    <3> QED BY <2>3, <3>1, <3>2, <3>3, <3>4, <3>5
  <2> QED BY <2>1, <2>3, <2>4, <2>5, CaptureNow, VideoTake
<1> QED BY <1>1, <1>2, <1>3, <1>4


-----------------------------------------------------------------------------
(* Streams change, and nothing else.                                       *)
LEMMA StreamStep ==
  ASSUME MediaInv, UNCHANGED <<native, audioStatus, videoStatus, pttHolding, user>>,
         lock' \in {"none", "video", "vault"}, capture' \in Capture,
         MicFits(capture', audioStatus, UnderWay(replies, calls, MicPlaces)),
         VideoFits(capture', audioStatus, videoStatus, UnderWay(replies, calls, CamPlaces))
  PROVE  MediaInv'
BY DEF MediaInv, TypeOK, Wires, HoldingIsHeld, Streams, native, user

(* A call that switches something off; streams may change.                 *)
LEMMA OffStep ==
  ASSUME MediaInv, NEW c \in Calls, Send(c), Off(c, Camera) \/ Off(c, Screen),
         UNCHANGED <<audio, video, replies, audioStatus, videoStatus, pttHolding, user>>,
         lock' \in {"none", "video", "vault"}, capture' \in Capture,
         MicFits(capture', audioStatus, UnderWay(replies, calls, MicPlaces)),
         VideoFits(capture', audioStatus, videoStatus, UnderWay(replies, calls, CamPlaces))
  PROVE  MediaInv'
<1>1. ~IsPress(c) /\ ~On(c, Camera) /\ ~On(c, Screen) /\ c.then # "ptt"
  <2>1. ~IsPress(c) /\ ~On(c, Camera) /\ ~On(c, Screen) /\ c.command # "audio_set_push_to_talk"
    BY DEF Off, On, IsPress, Camera, Screen
  <2> QED BY <2>1, CallTypes
<1>2. /\ TypeOK' /\ Wires' /\ HoldingIsHeld'
      /\ \A places : UnderWay(replies, calls, places) => UnderWay(replies', calls', places)
  BY <1>1, SendStep
<1>3. SameMic(capture', capture') /\ SameVideo(capture', capture')
  BY DEF SameMic, SameVideo
<1>4. MicFits(capture', audioStatus', UnderWay(replies', calls', MicPlaces))
  BY <1>2, <1>3, MicUnchanged
<1>5. VideoFits(capture', audioStatus', videoStatus', UnderWay(replies', calls', CamPlaces))
  <2>1. \A kind : Enabled(kind, audioStatus', videoStatus') <=> Enabled(kind, audioStatus, videoStatus)
    OBVIOUS
  <2> QED BY <1>2, <1>3, <2>1, VideoUnchanged
<1> QED BY <1>2, <1>4, <1>5 DEF MediaInv, Streams

LEMMA OffCalls ==
  /\ \A then \in {"roomCamera", "lockCamera", "denied"} :
       LET c == CameraOff(then) IN c \in Calls /\ Off(c, Camera) /\ c.then = then
  /\ \A then \in {"roomScreen", "lockScreen", "denied", "ended"} :
       LET c == ScreenOff(then) IN c \in Calls /\ Off(c, Screen) /\ c.then = then
BY DEF CameraOff, ScreenOff, Call, Calls, Off, Camera, Screen

LEMMA LockInv ==
  ASSUME MediaInv, QuickLock \/ LockCameraReturns \/ LockReturns
  PROVE  MediaInv'
<1>1. ASSUME NEW c, c \in {CameraOff("lockCamera"), ScreenOff("lockScreen")},
             Send(c), lock' = "video", UNCHANGED capture,
             UNCHANGED <<audio, video, replies, audioStatus, videoStatus, pttHolding, user>>
      PROVE  MediaInv'
  <2>1. c \in Calls /\ (Off(c, Camera) \/ Off(c, Screen))
    BY <1>1, OffCalls
  <2> QED BY <1>1, <2>1, CaptureNow, OffStep
<1>2. CASE QuickLock
  <2>1. UNCHANGED <<audio, video, replies, audioStatus, videoStatus, pttHolding, user>>
    BY <1>2 DEF QuickLock
  <2>2. CASE videoStatus # None /\ videoStatus.camera_enabled
    BY <1>1, <1>2, <2>1, <2>2 DEF QuickLock
  <2>3. CASE ~(videoStatus # None /\ videoStatus.camera_enabled)
    <3>1. LockAfterCamera(videoStatus)
      BY <1>2, <2>3 DEF QuickLock
    <3>2. CASE videoStatus # None /\ videoStatus.screen_share_enabled
      BY <1>1, <2>1, <3>1, <3>2 DEF LockAfterCamera
    <3>3. CASE ~(videoStatus # None /\ videoStatus.screen_share_enabled)
      <4>1. UNCHANGED calls /\ lock' = "vault" /\ capture' = clearVideoCapture(capture)
        BY <3>1, <3>3 DEF LockAfterCamera
      <4>2. /\ capture' \in Capture /\ SameMic(capture, capture')
            /\ VideoFits(capture', audioStatus, videoStatus, UnderWay(replies, calls, CamPlaces))
        BY <4>1, CaptureNow, ClearEffect
      <4>3. MicFits(capture', audioStatus, UnderWay(replies, calls, MicPlaces))
        BY <4>2, CaptureNow, MicUnchanged
      <4> QED BY <2>1, <4>1, <4>2, <4>3, StreamStep DEF native
    <3> QED BY <3>2, <3>3
  <2> QED BY <2>2, <2>3
<1>3. CASE LockCameraReturns
  <2>1. /\ Returns("lockCamera") /\ videoStatus' = Reply /\ LockAfterCamera(videoStatus')
        /\ UNCHANGED <<audioStatus, pttHolding>>
        /\ "lockCamera" \in VideoPlaces \ {"roomCamera"}
    BY <1>3 DEF LockCameraReturns, VideoPlaces
  <2>2. CASE videoStatus' # None /\ videoStatus'.screen_share_enabled
    <3>1. PICK c : c = ScreenOff("lockScreen") /\ calls' = Append(calls, c) /\ lock' = "video" /\ UNCHANGED capture
      BY <2>1, <2>2 DEF LockAfterCamera, Send
    <3>2. c \in Calls /\ Off(c, Screen) /\ c.then = "lockScreen"
      BY <3>1, OffCalls
    <3>3. ~IsPress(c) /\ ~On(c, Camera) /\ ~On(c, Screen) /\ c.then # "ptt"
      BY <3>2 DEF Off, On, IsPress, Camera, Screen
    <3>4. /\ Typed(replies', calls, audio', video', audioStatus', videoStatus')
          /\ Linked(replies', calls, audio', video', audioStatus', videoStatus', pttHolding')
          /\ VideoNeedsRoom(replies', calls, video', audioStatus')
          /\ UnderWay(replies, calls, MicPlaces) => UnderWay(replies', calls, MicPlaces)
          /\ pttHolding' \in BOOLEAN /\ HoldingIsHeld'
          /\ controls' \in Users /\ held' \in BOOLEAN /\ focused' \in BOOLEAN
      <4>1. /\ audioStatus' = IF "lockCamera" \in AudioPlaces THEN Reply ELSE audioStatus
            /\ videoStatus' = IF "lockCamera" \in VideoPlaces THEN Reply ELSE videoStatus
            /\ pttHolding' = IF "lockCamera" = "ptt" THEN pttHolding /\ Reply.push_to_talk ELSE pttHolding
            /\ "lockCamera" \notin {"room", "roomCamera"} /\ "lockCamera" \notin MicPlaces
        BY <2>1 DEF AudioPlaces, VideoPlaces, MicPlaces
      <4> QED BY <2>1, <4>1, TakeStep
    <3>5. /\ Typed(replies', calls', audio', video', audioStatus', videoStatus')
          /\ Linked(replies', calls', audio', video', audioStatus', videoStatus', pttHolding')
          /\ VideoNeedsRoom(replies', calls', video', audioStatus')
          /\ \A places : UnderWay(replies', calls, places) \/ c.then \in places => UnderWay(replies', calls', places)
      BY <3>1, <3>2, <3>3, <3>4, SendWires
    <3>6. /\ UnderWay(replies, calls, MicPlaces) => UnderWay(replies', calls', MicPlaces)
          /\ UnderWay(replies', calls', CamPlaces)
      BY <3>2, <3>4, <3>5 DEF CamPlaces
    <3>7. MicFits(capture', audioStatus', UnderWay(replies', calls', MicPlaces))
      BY <2>1, <3>1, <3>6, CaptureNow DEF MicFits
    <3>8. VideoFits(capture', audioStatus', videoStatus', UnderWay(replies', calls', CamPlaces))
      BY <3>1, <3>6, CaptureNow DEF VideoFits
    <3> QED BY <3>1, <3>4, <3>5, <3>7, <3>8, CaptureNow, Concludes
  <2>3. CASE ~(videoStatus' # None /\ videoStatus'.screen_share_enabled)
    <3>1. UNCHANGED calls /\ lock' = "vault" /\ capture' = clearVideoCapture(capture)
      BY <2>1, <2>3 DEF LockAfterCamera
    <3>2. /\ capture' \in Capture /\ SameMic(capture, capture')
          /\ VideoFits(capture', audioStatus', videoStatus', UnderWay(replies', calls', CamPlaces))
      BY <3>1, CaptureNow, ClearEffect
    <3> QED BY <2>1, <3>1, <3>2, VideoTake
  <2> QED BY <2>2, <2>3
<1>4. CASE LockReturns
  <2>1. /\ UNCHANGED <<native, audioStatus, videoStatus, pttHolding, user>>
        /\ lock' = "none" /\ capture' \in {stopMicMonitoring(capture), capture}
    BY <1>4 DEF LockReturns
  <2>2. CASE capture' = capture
    BY <2>1, <2>2, CaptureNow, StreamStep
  <2>3. CASE capture' = stopMicMonitoring(capture)
    <3>1. /\ capture' \in Capture /\ SameVideo(capture, capture') /\ capture'.asks = capture.asks
          /\ MicFits(capture', audioStatus, UnderWay(replies, calls, MicPlaces))
      BY <2>3, CaptureNow, StopMicEffect
    <3>2. VideoFits(capture', audioStatus, videoStatus, UnderWay(replies, calls, CamPlaces))
      BY <3>1, CaptureNow, VideoUnchanged
    <3> QED BY <2>1, <3>1, <3>2, StreamStep
  <2> QED BY <2>1, <2>2, <2>3
<1> QED BY <1>2, <1>3, <1>4

(* The browser answers a request, or a shared screen is gone.              *)
LEMMA MicAnswerInv ==
  ASSUME MediaInv, NEW ask \in MicAsks, MicGranted(ask) \/ MicDenied(ask)
  PROVE  MediaInv'
<1>1. PICK given \in BOOLEAN, state \in {"active", "denied"} :
        Resume(WithMic(capture, ask, given, state), ask)
  <2>1. CASE MicGranted(ask)
    <3>1. (TRUE \/ capture.micStream) = TRUE /\ (TRUE /\ capture.micStream) = capture.micStream
      BY CaptureNow, CaptureTypes
    <3>2. Resume(WithMic(capture, ask, TRUE, "active"), ask)
      BY <2>1, <3>1 DEF MicGranted, WithMic
    <3> QED BY <3>2
  <2>2. CASE MicDenied(ask)
    <3>1. PICK given \in BOOLEAN : Resume(WithMic(capture, ask, given, "denied"), ask)
      BY <2>2 DEF MicDenied, WithMic
    <3> QED BY <3>1
  <2> QED BY <2>1, <2>2
<1>2. /\ capture.asks[ask] > 0
      /\ UNCHANGED <<native, audioStatus, videoStatus, pttHolding, lock, user>>
  BY DEF MicGranted, MicDenied
<1>3. PICK c : c = WithMic(capture, ask, given, state)
  OBVIOUS
<1>4. /\ c \in Capture /\ SameVideo(capture, c)
      /\ MicFits(c, audioStatus, UnderWay(replies, calls, MicPlaces))
      /\ ask = "mic" => c.asks["room"] = capture.asks["room"]
  BY <1>2, <1>3, CaptureNow, MicAnswered
<1>5. CASE ask = "room"
  <2>1. capture' = syncVideoCapture(c, audioStatus, videoStatus)
    BY <1>1, <1>3, <1>5 DEF Resume
  <2>2. VideoFits(c, audioStatus, videoStatus, TRUE)
    BY <1>4, CaptureNow, VideoUnchanged
  <2>3. /\ capture' \in Capture /\ SameMic(c, capture')
        /\ VideoFits(capture', audioStatus, videoStatus, UnderWay(replies, calls, CamPlaces))
    BY <1>4, <2>1, <2>2, SyncVideoEffect
  <2>4. MicFits(capture', audioStatus, UnderWay(replies, calls, MicPlaces))
    BY <1>4, <2>3, MicUnchanged
  <2> QED BY <1>2, <2>3, <2>4, CaptureNow, StreamStep
<1>6. CASE ask = "mic"
  <2>1. capture' = c
    BY <1>1, <1>3, <1>6 DEF Resume
  <2>2. VideoFits(c, audioStatus, videoStatus, UnderWay(replies, calls, CamPlaces))
    BY <1>4, <1>6, CaptureNow, VideoUnchanged
  <2> QED BY <1>2, <1>4, <2>1, <2>2, CaptureNow, StreamStep
<1> QED BY <1>5, <1>6 DEF MicAsks

LEMMA VideoAnswerInv ==
  ASSUME MediaInv, NEW kind \in Asks \ MicAsks, VideoGranted(kind) \/ VideoDenied(kind)
  PROVE  MediaInv'
<1>1. kind \in {"camera", "screen"} /\ capture.asks[kind] > 0
  BY DEF Asks, MicAsks, VideoGranted, VideoDenied
<1>2. CASE VideoGranted(kind)
  <2>1. /\ capture' = WithVideo(capture, kind)
        /\ UNCHANGED <<native, audioStatus, videoStatus, pttHolding, lock, user>>
    BY <1>2 DEF VideoGranted, WithVideo
  <2>2. /\ capture' \in Capture /\ SameMic(capture, capture')
        /\ VideoFits(capture', audioStatus, videoStatus, UnderWay(replies, calls, CamPlaces))
    BY <1>1, <2>1, CaptureNow, VideoGiven
  <2>3. MicFits(capture', audioStatus, UnderWay(replies, calls, MicPlaces))
    BY <2>2, CaptureNow, MicUnchanged
  <2> QED BY <2>1, <2>2, <2>3, CaptureNow, StreamStep
<1>3. CASE VideoDenied(kind)
  <2>1. /\ capture' = Answered(capture, kind)
        /\ UNCHANGED <<audio, video, replies, audioStatus, videoStatus, pttHolding, lock, user>>
    BY <1>3 DEF VideoDenied
  <2>2. /\ capture' \in Capture /\ SameMic(capture, capture')
        /\ VideoFits(capture', audioStatus, videoStatus, UnderWay(replies, calls, CamPlaces))
    BY <1>1, <2>1, CaptureNow, VideoRefused
  <2>3. MicFits(capture', audioStatus, UnderWay(replies, calls, MicPlaces))
    BY <2>2, CaptureNow, MicUnchanged
  <2>4. \/ UNCHANGED calls
        \/ \E c \in {CameraOff("denied"), ScreenOff("denied")} : Send(c)
    BY <1>3 DEF VideoDenied
  <2>5. CASE UNCHANGED calls
    BY <2>1, <2>2, <2>3, <2>5, CaptureNow, StreamStep DEF native
  <2>6. ASSUME NEW c \in {CameraOff("denied"), ScreenOff("denied")}, Send(c)
        PROVE  MediaInv'
    <3>1. c \in Calls /\ (Off(c, Camera) \/ Off(c, Screen))
      BY OffCalls
    <3> QED BY <2>1, <2>2, <2>3, <2>6, <3>1, CaptureNow, OffStep
  <2> QED BY <2>4, <2>5, <2>6
<1> QED BY <1>2, <1>3

LEMMA ScreenEndsInv ==
  ASSUME MediaInv, ScreenEnds
  PROVE  MediaInv'
<1>1. /\ Send(ScreenOff("ended"))
      /\ capture' = capture \/ capture' = [capture EXCEPT !.lost = @ \ {"screen"}]
      /\ UNCHANGED <<audio, video, replies, audioStatus, videoStatus, pttHolding, lock, user>>
  BY DEF ScreenEnds
<1>2. ScreenOff("ended") \in Calls /\ Off(ScreenOff("ended"), Screen)
  BY OffCalls
<1>3. /\ capture' \in Capture /\ SameMic(capture, capture') /\ SameVideo(capture, capture')
      /\ capture'.asks = capture.asks
  <2>1. CASE capture' = capture
    BY <2>1, CaptureNow DEF SameMic, SameVideo
  <2>2. CASE capture' = [capture EXCEPT !.lost = @ \ {"screen"}]
    <3>1. /\ capture' \in Capture /\ capture'.lost = capture.lost \ {"screen"}
          /\ capture'.asks = capture.asks /\ capture'.late = capture.late
          /\ capture'.micStream = capture.micStream /\ capture'.videoStream = capture.videoStream
      BY <2>2, CaptureNow DEF Capture
    <3> QED BY <3>1 DEF SameMic, SameVideo
  <2> QED BY <1>1, <2>1, <2>2
<1>4. MicFits(capture', audioStatus, UnderWay(replies, calls, MicPlaces))
  BY <1>3, CaptureNow, MicUnchanged
<1>5. VideoFits(capture', audioStatus, videoStatus, UnderWay(replies, calls, CamPlaces))
  BY <1>3, CaptureNow, VideoUnchanged
<1> QED BY <1>1, <1>2, <1>3, <1>4, <1>5, CaptureNow, OffStep


-----------------------------------------------------------------------------
(***************************************************************************)
(* The theorems.                                                           *)
(***************************************************************************)
LEMMA InitInv == Init => MediaInv
<1> SUFFICES ASSUME Init
             PROVE  MediaInv
  OBVIOUS
<1> DEFINE first == Call("audio_status", None, "audio")
           second == Call("video_status", None, "video")
<1>1. first \in Calls /\ second \in Calls
  BY DEF Call, Calls
<1>2. /\ first.then = "audio" /\ second.then = "video"
      /\ ~IsPress(first) /\ ~IsPress(second)
      /\ ~On(first, Camera) /\ ~On(first, Screen) /\ ~On(second, Camera) /\ ~On(second, Screen)
  BY DEF Call, IsPress, On, Camera, Screen
<1>3. calls = <<first, second>> /\ replies = << >>
  BY DEF Init
<1> HIDE DEF first, second
<1>4. /\ calls \in Seq(Calls) /\ Len(calls) = 2 /\ calls[1] = first /\ calls[2] = second
      /\ replies \in Seq(ReplySet) /\ Len(replies) = 0
  BY <1>1, <1>3
<1>5. /\ audio = NewAudio /\ video = NewVideo /\ audioStatus = None /\ videoStatus = None
      /\ pttHolding = FALSE /\ capture = NoCapture /\ lock = "none"
      /\ held = FALSE /\ focused = TRUE /\ controls \in Users
  BY DEF Init
<1>6. /\ audio \in AudioState /\ ~audio.ptt_pressed /\ ~audio.push_to_talk /\ audio.joined_room = None
      /\ video \in VideoState /\ ~video.camera_enabled /\ ~video.screen_share_enabled
  BY <1>5 DEF NewAudio, NewVideo, AudioState, VideoState
<1>7. /\ capture \in Capture /\ ~capture.micStream /\ capture.videoStream = None /\ capture.lost = {}
      /\ capture.asks["mic"] = 0 /\ capture.asks["room"] = 0
      /\ capture.asks["camera"] = 0 /\ capture.asks["screen"] = 0
  <2>1. [a \in Asks |-> 0] \in [Asks -> Nat]
    OBVIOUS
  <2> QED BY <1>5, <2>1 DEF NoCapture, Capture, Asks
<1>8. Talk(audioStatus) = FALSE /\ ShownRoom(audioStatus) = None
  BY <1>5 DEF Talk, ShownRoom
<1>9. Typed(replies, calls, audio, video, audioStatus, videoStatus)
  BY <1>4, <1>5, <1>6 DEF Typed
<1>10. \A k \in 1 .. Len(calls) : calls[k] = first \/ calls[k] = second
  BY <1>4
<1>11. LastShown(replies, calls, AudioPlaces, Status(audio), audioStatus)
  <2>1. 1 \in 1 .. Len(calls) /\ calls[1].then \in AudioPlaces
    BY <1>2, <1>4 DEF AudioPlaces
  <2> QED BY <1>4, <1>5, <2>1 DEF LastShown
<1>12. LastShown(replies, calls, VideoPlaces, video, videoStatus)
  <2>1. 2 \in 1 .. Len(calls) /\ calls[2].then \in VideoPlaces
    BY <1>2, <1>4 DEF VideoPlaces
  <2> QED BY <1>4, <1>5, <2>1 DEF LastShown
<1>13. RoomFollows(replies, audio, audioStatus)
  BY <1>4, <1>6, <1>8 DEF RoomFollows
<1>14. TalkFollows(replies, calls, audio.push_to_talk, Talk(audioStatus))
  <2>1. audio.push_to_talk = FALSE
    BY <1>5 DEF NewAudio
  <2>2. \A k \in 1 .. Len(calls) : calls[k].then # "ptt"
    BY <1>2, <1>10
  <2>3. audio.push_to_talk = Talk(audioStatus)
    BY <1>8, <2>1
  <2>4. \A j \in 1 .. Len(replies) : FALSE
    BY <1>4
  <2> QED BY <2>2, <2>3, <2>4 DEF TalkFollows
<1>15. PressFollows(calls, audio, Talk(audioStatus), pttHolding)
  <2>1. \A k \in 1 .. Len(calls) : ~IsPress(calls[k])
    BY <1>2, <1>10
  <2> QED BY <1>6, <1>8, <2>1 DEF PressFollows
<1>16. \A k \in 1 .. Len(calls) : ~On(calls[k], Camera) /\ ~On(calls[k], Screen)
  BY <1>2, <1>10
<1>17. VideoStarts(replies, calls, video, audioStatus, videoStatus)
  <2>1. NoRoom(replies, 1, Len(replies))
    BY <1>4 DEF NoRoom
  <2>2. 2 \in 1 .. Len(calls) /\ calls[2].then = "video" /\ NoRoom(calls, 1, 2 - 1)
    BY <1>2, <1>4 DEF NoRoom
  <2> QED BY <1>5, <1>8, <1>16, <2>1, <2>2 DEF VideoStarts
<1>18. VideoNeedsRoom(replies, calls, video, audioStatus)
  BY <1>6, <1>16 DEF VideoNeedsRoom, GoesOff
<1>19. Wires
  BY <1>9, <1>11, <1>12, <1>13, <1>14, <1>15, <1>17, <1>18 DEF Wires, Linked
<1>20. Streams
  <2>1. ~Open(capture, MicAsks)
    BY <1>7, OpenAsks
  <2>2. None # "camera" /\ None # "screen"
    BY NoneAssumption
  <2> QED BY <1>7, <2>1, <2>2 DEF Streams, MicFits, VideoFits
<1>21. TypeOK
  BY <1>5, <1>7, <1>9 DEF TypeOK, Typed
<1>22. HoldingIsHeld
  BY <1>5 DEF HoldingIsHeld
<1> QED BY <1>19, <1>20, <1>21, <1>22 DEF MediaInv

LEMMA NextInv == MediaInv /\ [Next]_vars => MediaInv'
<1> SUFFICES ASSUME MediaInv, [Next]_vars
             PROVE  MediaInv'
  OBVIOUS
<1>1. CASE User
  <2>1. CASE \/ ToggleMute \/ ToggleDeafened \/ TogglePushToTalk
             \/ \E room \in Rooms : ToggleVoiceRoom(room)
             \/ ToggleCamera \/ ToggleScreenShare
    BY <2>1, ButtonsInv
  <2>2. CASE QuickLock
    BY <2>2, LockInv
  <2>3. CASE \/ \E editable \in BOOLEAN : KeyDown(editable)
             \/ KeyUp \/ Blur \/ Focus
    BY <2>3, KeyInv
  <2> QED BY <1>1, <2>1, <2>2, <2>3 DEF User
<1>2. CASE Execute
  BY <1>2, ExecuteInv
<1>3. CASE Browser
  <2>1. ASSUME NEW ask \in MicAsks, MicGranted(ask) \/ MicDenied(ask)
        PROVE  MediaInv'
    BY <2>1, MicAnswerInv
  <2>2. ASSUME NEW kind \in Asks \ MicAsks, VideoGranted(kind) \/ VideoDenied(kind)
        PROVE  MediaInv'
    BY <2>2, VideoAnswerInv
  <2>3. CASE ScreenEnds
    BY <2>3, ScreenEndsInv
  <2> QED BY <1>3, <2>1, <2>2, <2>3 DEF Browser
<1>4. CASE Continue
  <2>1. CASE AudioReturns \/ PushToTalkReturns
    BY <2>1, AudioInv
  <2>2. CASE RoomReturns
    BY <2>2, RoomInv
  <2>3. CASE RoomCameraReturns
    BY <2>3, RoomCameraInv
  <2>4. CASE \/ RoomScreenReturns \/ VideoReturns \/ DeniedReturns \/ EndedReturns
             \/ LockScreenReturns
    BY <2>4, VideoInv
  <2>5. CASE LockCameraReturns \/ LockReturns
    BY <2>5, LockInv
  <2> QED BY <1>4, <2>1, <2>2, <2>3, <2>4, <2>5 DEF Continue
<1>5. CASE UNCHANGED vars
  BY <1>5 DEF MediaInv, TypeOK, Wires, HoldingIsHeld, Streams, vars, native, user
<1> QED BY <1>1, <1>2, <1>3, <1>4, <1>5 DEF Next

LEMMA Invariance == Spec => []MediaInv
<1> QED BY InitInv, NextInv, PTL DEF Spec

(* The states of audio, video, capture and user interface are of their     *)
(* types, and camera and screen sharing exclude each other.                *)
THEOREM TypeCorrect == Spec => []TypeOK
<1>1. MediaInv => TypeOK
  BY DEF MediaInv
<1> QED BY <1>1, Invariance, PTL

(* Without a call on its way the status shown is the native one: the       *)
(* replies of overlapping toggles cannot leave an older status behind.     *)
THEOREM StatusIsCurrent == Spec => []StatusCurrent
<1>1. ASSUME MediaInv, Quiet
      PROVE  audioStatus = Status(audio) /\ videoStatus = video
  <2>1. /\ Len(calls) = 0 /\ Len(replies) = 0
        /\ LastShown(replies, calls, AudioPlaces, Status(audio), audioStatus)
        /\ LastShown(replies, calls, VideoPlaces, video, videoStatus)
    BY <1>1 DEF Quiet, MediaInv, Wires, Linked
  <2> QED BY <2>1 DEF LastShown
<1>2. MediaInv => StatusCurrent
  BY <1>1 DEF StatusCurrent
<1> QED BY <1>2, Invariance, PTL

(* Push-to-talk transmits only while the key is held in the focused        *)
(* window, whatever setPttPressed, togglePushToTalk, toggleVoiceRoom and   *)
(* handleWindowBlur have sent one after the other.                         *)
THEOREM TalksOnlyWhileHeld == Spec => []PressedOnlyWhileHeld
<1>1. ASSUME MediaInv, Quiet, ~(held /\ focused)
      PROVE  ~audio.ptt_pressed
  <2>1. /\ Len(calls) = 0 /\ ~pttHolding
        /\ PressFollows(calls, audio, Talk(audioStatus), pttHolding)
    BY <1>1 DEF Quiet, MediaInv, Wires, Linked, HoldingIsHeld
  <2> QED BY <2>1 DEF PressFollows
<1>2. MediaInv => PressedOnlyWhileHeld
  BY <1>1 DEF PressedOnlyWhileHeld
<1> QED BY <1>2, Invariance, PTL

(* Camera and screen are off without a room, and what is captured when all *)
(* has settled is what the status says, but for the late streams.          *)
THEOREM CaptureIsWanted == Spec => []CaptureMatchesStatus
<1>1. ASSUME MediaInv, Quiet
      PROVE  /\ Len(calls) = 0 /\ Len(replies) = 0
             /\ \A places : ~UnderWay(replies, calls, places)
             /\ audioStatus = Status(audio) /\ videoStatus = video
             /\ audio.joined_room = ShownRoom(audioStatus)
  <2>1. /\ Len(calls) = 0 /\ Len(replies) = 0
        /\ LastShown(replies, calls, AudioPlaces, Status(audio), audioStatus)
        /\ LastShown(replies, calls, VideoPlaces, video, videoStatus)
        /\ RoomFollows(replies, audio, audioStatus)
    BY <1>1 DEF Quiet, MediaInv, Wires, Linked
  <2>2. audioStatus = Status(audio) /\ videoStatus = video
    BY <2>1 DEF LastShown
  <2>3. audio.joined_room = ShownRoom(audioStatus)
    BY <2>1 DEF RoomFollows, NoRoom
  <2>4. \A places : ~UnderWay(replies, calls, places)
    BY <2>1 DEF UnderWay
  <2> QED BY <2>1, <2>2, <2>3, <2>4
<1>2. ASSUME MediaInv, Quiet, video.camera_enabled \/ video.screen_share_enabled
      PROVE  audio.joined_room # None
  BY <1>1, <1>2 DEF MediaInv, Wires, VideoNeedsRoom, GoesOff
<1>3. ASSUME MediaInv, Settled
      PROVE  /\ Quiet /\ ~Open(capture, MicAsks)
             /\ ~(capture.asks["room"] > 0) /\ ~(capture.asks["camera"] > 0) /\ ~(capture.asks["screen"] > 0)
  BY <1>3 DEF Settled, Open, Asks, MicAsks
<1>4. ASSUME MediaInv, Settled, "mic" \notin capture.late,
             capture.micStream \/ "mic" \in capture.lost
      PROVE  canMonitorMic(audioStatus)
  BY <1>1, <1>3, <1>4, CaptureNow DEF MicFits
<1>5. ASSUME MediaInv, Settled, "video" \notin capture.late
      PROVE  /\ capture.lost \subseteq {"mic"}
             /\ capture.videoStream = "camera" => video.camera_enabled /\ canUseVideo(audioStatus)
             /\ capture.videoStream = "screen" => video.screen_share_enabled /\ canUseVideo(audioStatus)
  <2>1. /\ capture.lost \subseteq {"mic"}
        /\ \A kind \in {"camera", "screen"} :
             capture.videoStream = kind => Enabled(kind, audioStatus, videoStatus)
    BY <1>1, <1>3, <1>5, CaptureNow DEF VideoFits
  <2> QED BY <1>1, <1>3, <1>5, <2>1 DEF Enabled
<1>6. MediaInv => CaptureMatchesStatus
  BY <1>2, <1>4, <1>5 DEF CaptureMatchesStatus
<1> QED BY <1>6, Invariance, PTL
=============================================================================
