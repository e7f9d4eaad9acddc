CONSTANTS
  Rooms = {r1, r2}
  None = None
  Users = {{"deafen", "ptt", "key", "room"},
           {"mute", "room", "screen", "lock"},
           {"room", "camera", "screen", "lock"}}
  MaxPending = 3
SPECIFICATION Spec
SYMMETRY RoomSymmetry
INVARIANTS
  TypeOK
  StatusCurrent
  CaptureMatchesStatus
  PressedOnlyWhileHeld
