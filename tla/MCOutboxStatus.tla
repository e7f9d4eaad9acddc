--------------------------- MODULE MCOutboxStatus ---------------------------
(***************************************************************************)
(* A small instance of OutboxStatus for TLC.                               *)
(***************************************************************************)
EXTENDS OutboxStatus

CONSTANTS d1, d2

(* Rows of two devices in turn.                                            *)
TwoDevices == [n \in Rows |-> IF n % 2 = 1 THEN d1 ELSE d2]
=============================================================================
