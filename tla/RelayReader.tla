---------------------------- MODULE RelayReader -----------------------------
(***************************************************************************)
(* The relay with a device that reads its channels.  The listing's         *)
(* after_sequence (api.rs, store.rs) is made for a reader that keeps the   *)
(* highest sequence number it has seen as its cursor and asks for what     *)
(* came later.  That reader is not part of the code yet: it is external    *)
(* and does only this.  It may have several requests under way, and their  *)
(* responses reach it late, in any order, repeatedly or never.  It keeps   *)
(* its cursors when the relay restarts.                                    *)
(***************************************************************************)
EXTENDS Relay

VARIABLES
  cursor,    \* the reader's cursor in each channel
  received   \* the events it has been given

reader == <<cursor, received>>
readerVars == <<vars, reader>>

ReaderInit ==
  /\ Init
  /\ cursor = [c \in Channels |-> 0]
  /\ received = {}

Poll(h, channel) ==
  /\ ListEvents(h, channel, cursor[channel])
  /\ UNCHANGED reader

(* The cursor never goes back.                                             *)
Advance(events, channel) ==
  LET seen == {cursor[channel]} \cup
              {e.receipt.sequence : e \in {f \in events : f.request.channel_id = channel}}
  IN CHOOSE n \in seen : \A k \in seen : k <= n

Receive(h) ==
  /\ reply[h].kind = "events"
  /\ received' = received \cup reply[h].events
  /\ cursor' = [c \in Channels |-> Advance(reply[h].events, c)]
  /\ UNCHANGED vars

ReaderNext ==
  \/ \E h \in Handlers, channel \in Channels : Poll(h, channel)
  \/ \E h \in Handlers : Receive(h)
  \/ /\ \/ \E h \in Handlers, request \in Requests : SubmitEvent(h, request)
        \/ \E h \in Handlers : Accept(h) \/ ListActive(h) \/ Disconnect(h)
        \/ Tick
        \/ Restart
     /\ UNCHANGED reader

ReaderSpec == ReaderInit /\ [][ReaderNext]_readerVars

-----------------------------------------------------------------------------
(* Reconnecting with a cursor misses nothing (Singularis.md:385, 733): an  *)
(* accepted event that is not past its TTL and that the cursor has passed  *)
(* was received, whatever responses were lost or overtaken, and whichever  *)
(* handler's clock reading was used to prune.                              *)
CursorMissesNothing ==
  \A i \in Current :
    /\ i.receipt.sequence <= cursor[i.request.channel_id]
    /\ i.receipt.expires_at > now
    => Entry(i) \in received

(* ... as long as the relay runs.                                          *)
CursorMissesNothingInOneLife == life = 0 => CursorMissesNothing
=============================================================================
