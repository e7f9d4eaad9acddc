--------------------------- MODULE OrderedOutbox ----------------------------
(***************************************************************************)
(* What the send path promises, without vault, worker, network or relay:   *)
(* each sender (a device in a channel) numbers its events 1, 2, 3, ...;    *)
(* events reach the relay in that order and without a gap; an event is     *)
(* dropped from the outbox only after it has reached the relay, again in   *)
(* order.  A receiver whose MLS sender chain admits only the next counter  *)
(* can process such a stream.                                              *)
(***************************************************************************)
EXTENDS Naturals

CONSTANT Senders

VARIABLES
  queued,     \* events committed by each sender
  delivered,  \* events of each sender that have reached the relay
  confirmed   \* events of each sender that have left its outbox

vars == <<queued, delivered, confirmed>>

Init ==
  /\ queued = [s \in Senders |-> 0]
  /\ delivered = [s \in Senders |-> 0]
  /\ confirmed = [s \in Senders |-> 0]

Queue(s) ==
  /\ queued' = [queued EXCEPT ![s] = @ + 1]
  /\ UNCHANGED <<delivered, confirmed>>

Deliver(s) ==
  /\ delivered[s] < queued[s]
  /\ delivered' = [delivered EXCEPT ![s] = @ + 1]
  /\ UNCHANGED <<queued, confirmed>>

Confirm(s) ==
  /\ confirmed[s] < delivered[s]
  /\ confirmed' = [confirmed EXCEPT ![s] = @ + 1]
  /\ UNCHANGED <<queued, delivered>>

Next == \E s \in Senders : Queue(s) \/ Deliver(s) \/ Confirm(s)

Spec == Init /\ [][Next]_vars
=============================================================================
