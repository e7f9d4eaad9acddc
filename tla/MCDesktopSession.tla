-------------------------- MODULE MCDesktopSession --------------------------
(***************************************************************************)
(* Small instances of DesktopSession for TLC.                              *)
(***************************************************************************)
EXTENDS DesktopSession, TLC

CONSTANTS q1

(* The query matches the first message only.                               *)
MatchesFirst == [q \in Queries |-> {m \in Messages : q = q1 /\ m = 1}]

ChannelSymmetry == Permutations(Channels)
=============================================================================
