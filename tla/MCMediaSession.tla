--------------------------- MODULE MCMediaSession ---------------------------
(***************************************************************************)
(* A small instance of MediaSession for TLC.                               *)
(***************************************************************************)
EXTENDS MediaSession, TLC

RoomSymmetry == Permutations(Rooms)
=============================================================================
