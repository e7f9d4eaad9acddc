--------------------------- MODULE MCQueueMessage ---------------------------
(***************************************************************************)
(* A small instance of QueueMessage for TLC.                               *)
(***************************************************************************)
EXTENDS QueueMessage, TLC

Symmetry == Permutations(Messages) \cup Permutations(Channels) \cup Permutations(Processes)
=============================================================================
