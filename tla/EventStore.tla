----------------------------- MODULE EventStore -----------------------------
(***************************************************************************)
(* The relay's volatile event store: the data of InMemoryEventStore        *)
(* (crates/singularis-server/src/store.rs) and what its critical sections  *)
(* compute.  Every operator is a function of a store value; the modules    *)
(* that own a store variable (Relay, Delivery) decide when a critical      *)
(* section runs and with which clock reading.                              *)
(*                                                                         *)
(* Time is counted in abstract units and a SubmitEvent is abstracted to    *)
(* what the store compares: `body' stands for the community and the opaque *)
(* MLS message together.                                                   *)
(***************************************************************************)
EXTENDS Naturals

CONSTANTS
  EventIds,        \* the event identifiers (UUIDs) clients may use
  Channels,        \* the channels
  Devices,         \* the sending devices
  Bodies,          \* the distinguishable payloads
  Requests,        \* the SubmitEvent values clients may send, well formed or not
  MinTtl,          \* MIN_SERVER_TTL_SECONDS, scaled
  MaxTtl,          \* MAX_SERVER_TTL_SECONDS, scaled
  InstanceMaxTtl,  \* AppConfig::max_server_ttl of this instance
  NoEvent          \* the absent entry of events_by_id

(* An SubmitEvent as it arrives, before the protocol types decode it.      *)
RequestRecord ==
  [event_id : EventIds, channel_id : Channels, sender_device_id : Devices,
   sender_counter : Nat, ttl_seconds : Nat, body : Bodies]

(* ServerTtl::try_from: the lifetimes the protocol type admits.            *)
ServerTtl == MinTtl .. MaxTtl

ASSUME StoreAssumption ==
  /\ Requests \subseteq RequestRecord
  /\ MinTtl \in Nat \ {0}
  /\ MaxTtl \in Nat
  /\ InstanceMaxTtl \in ServerTtl

AcceptedEvent ==
  [event_id : EventIds, channel_id : Channels, sequence : Nat \ {0},
   accepted_at : Nat, expires_at : Nat]

StoredEvent == [request : Requests, receipt : AcceptedEvent]

ASSUME NoEventAssumption == NoEvent \notin StoredEvent

-----------------------------------------------------------------------------
(***************************************************************************)
(* StoreData.  A channel's vector is only ever appended to and filtered,   *)
(* and each append carries the channel's next sequence number, so the      *)
(* vector is represented by the set of its entries: their order is the     *)
(* order of their sequence numbers.  A counter absent from one of the      *)
(* other two maps reads as 0.                                              *)
(***************************************************************************)
Senders == Channels \X Devices

StoreData ==
  [events_by_channel : [Channels -> SUBSET StoredEvent],
   events_by_id : [EventIds -> StoredEvent \cup {NoEvent}],
   highest_counter_by_sender : [Senders -> Nat],
   next_sequence_by_channel : [Channels -> Nat]]

EmptyStore ==
  [events_by_channel |-> [c \in Channels |-> {}],
   events_by_id |-> [e \in EventIds |-> NoEvent],
   highest_counter_by_sender |-> [s \in Senders |-> 0],
   next_sequence_by_channel |-> [c \in Channels |-> 0]]

Sender(request) == <<request.channel_id, request.sender_device_id>>

Alive(stored, time) == stored.receipt.expires_at > time

(* Faulty: only the index by identifier is pruned.                         *)
PruneIdsOnly(data, time) ==
  [data EXCEPT !.events_by_id =
     [e \in EventIds |->
        IF data.events_by_id[e] # NoEvent /\ Alive(data.events_by_id[e], time)
        THEN data.events_by_id[e]
        ELSE NoEvent]]

(* Faulty: an emptied channel takes its sequence counter with it.          *)
PruneForgetsSequence(data, time) ==
  [PruneIdsOnly(data, time) EXCEPT
     !.events_by_channel =
        [c \in Channels |-> {stored \in data.events_by_channel[c] : Alive(stored, time)}],
     !.next_sequence_by_channel =
        [c \in Channels |->
           IF \E stored \in data.events_by_channel[c] : Alive(stored, time)
           THEN data.next_sequence_by_channel[c]
           ELSE 0]]

(* prune_expired: both indexes drop what has expired at `time'; the two    *)
(* counter maps are kept.                                                  *)
PruneExpired(data, time) ==
  [data EXCEPT
     !.events_by_id =
        [e \in EventIds |->
           IF data.events_by_id[e] # NoEvent /\ Alive(data.events_by_id[e], time)
           THEN data.events_by_id[e]
           ELSE NoEvent],
     !.events_by_channel =
        [c \in Channels |->
           {stored \in data.events_by_channel[c] : Alive(stored, time)}]]

-----------------------------------------------------------------------------
(***************************************************************************)
(* The four outcomes of accept() on a store that has just been pruned.     *)
(***************************************************************************)
Known(data, request) == data.events_by_id[request.event_id] # NoEvent

ExactRepeat(data, request) ==
  Known(data, request) /\ data.events_by_id[request.event_id].request = request

EventIdConflict(data, request) ==
  Known(data, request) /\ data.events_by_id[request.event_id].request # request

(* Faulty: the counter is compared before the identifier is looked up.     *)
ReplayBeforeLookup(data, request) ==
  request.sender_counter <= data.highest_counter_by_sender[Sender(request)]

SenderCounterReplay(data, request) ==
  /\ ~Known(data, request)
  /\ request.sender_counter <= data.highest_counter_by_sender[Sender(request)]

(* Faulty: a counter equal to the highest one passes.                      *)
FreshEqualCounter(data, request) ==
  /\ ~Known(data, request)
  /\ request.sender_counter >= data.highest_counter_by_sender[Sender(request)]

(* Faulty: a newer event may reuse the identifier of a stored one.         *)
FreshKnownId(data, request) ==
  request.sender_counter > data.highest_counter_by_sender[Sender(request)]

Fresh(data, request) ==
  /\ ~Known(data, request)
  /\ request.sender_counter > data.highest_counter_by_sender[Sender(request)]

EffectiveTtl(request) ==
  IF request.ttl_seconds <= InstanceMaxTtl THEN request.ttl_seconds ELSE InstanceMaxTtl

(* Faulty: the sequence number is read before it is advanced.              *)
ReceiptFromZero(data, request, accepted_at) ==
  [event_id    |-> request.event_id,
   channel_id  |-> request.channel_id,
   sequence    |-> data.next_sequence_by_channel[request.channel_id],
   accepted_at |-> accepted_at,
   expires_at  |-> accepted_at + EffectiveTtl(request)]

NewReceipt(data, request, accepted_at) ==
  [event_id    |-> request.event_id,
   channel_id  |-> request.channel_id,
   sequence    |-> data.next_sequence_by_channel[request.channel_id] + 1,
   accepted_at |-> accepted_at,
   expires_at  |-> accepted_at + EffectiveTtl(request)]

(* Faulty: the sender's highest counter is not recorded.                   *)
InsertWithoutCounter(data, request, receipt) ==
  LET stored == [request |-> request, receipt |-> receipt] IN
  [data EXCEPT
     !.events_by_channel[request.channel_id] = @ \cup {stored},
     !.events_by_id[request.event_id] = stored,
     !.next_sequence_by_channel[request.channel_id] = receipt.sequence]

(* The store after a fresh event has been recorded in all four maps.       *)
Insert(data, request, receipt) ==
  LET stored == [request |-> request, receipt |-> receipt] IN
  [events_by_channel |->
      [data.events_by_channel EXCEPT ![request.channel_id] = @ \cup {stored}],
   events_by_id |->
      [data.events_by_id EXCEPT ![request.event_id] = stored],
   highest_counter_by_sender |->
      [data.highest_counter_by_sender EXCEPT ![Sender(request)] = request.sender_counter],
   next_sequence_by_channel |->
      [data.next_sequence_by_channel EXCEPT ![request.channel_id] = receipt.sequence]]

(* Faulty: the cursor itself is delivered again.                           *)
ListedFromCursor(data, channel, after_sequence) ==
  {stored \in data.events_by_channel[channel] : stored.receipt.sequence >= after_sequence}

(* What list_active returns from a pruned store.                           *)
ListedEvents(data, channel, after_sequence) ==
  {stored \in data.events_by_channel[channel] : stored.receipt.sequence > after_sequence}
=============================================================================
