----------------------------- MODULE MCDelivery -----------------------------
(***************************************************************************)
(* Small instances of Delivery for TLC.                                    *)
(***************************************************************************)
EXTENDS Delivery

CONSTANTS b1, d1

(* The submissions the desktop can produce within the bounds.  Devices are *)
(* interchangeable, so d1 is taken to be the one that sends most: any      *)
(* other sends at most half of the events.                                 *)
Counters(d) ==
  1 .. (IF d = d1 THEN Cardinality(EventIds) ELSE Cardinality(EventIds) \div 2)

Submissions ==
  UNION {{Submission(c, d, n, id, b1) : c \in Channels, n \in Counters(d), id \in EventIds} :
           d \in Devices}
=============================================================================
