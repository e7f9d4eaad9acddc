------------------------------ MODULE MCRelay -------------------------------
(***************************************************************************)
(* A small relay and its reader for TLC: two handlers, a device that sends *)
(* in two channels, with its own counter in each, and a restart.           *)
(***************************************************************************)
EXTENDS RelayReader, TLC

CONSTANTS e1, e2, e3, c1, c2, d1, b1, b2

Request(e, c, counter, ttl, b) ==
  [event_id |-> e, channel_id |-> c, sender_device_id |-> d1,
   sender_counter |-> counter, ttl_seconds |-> ttl, body |-> b]

(* In one channel a first event, a different one that reuses its           *)
(* identifier, and a successor that asks for more time than the instance   *)
(* allows; in the other an event, and two requests that do not validate.   *)
MixedRequests ==
  {Request(e1, c1, 1, 1, b1),
   Request(e1, c1, 2, 2, b2),
   Request(e2, c1, 2, 3, b1),
   Request(e3, c2, 1, 2, b1),
   Request(e3, c2, 0, 2, b1),
   Request(e3, c2, 2, 4, b1)}

HandlerSymmetry == Permutations(Handlers)
=============================================================================
