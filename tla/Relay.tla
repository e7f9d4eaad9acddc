------------------------------- MODULE Relay --------------------------------
(***************************************************************************)
(* The relay service: the axum handlers of                                 *)
(* crates/singularis-server/src/api.rs around one InMemoryEventStore.      *)
(*                                                                         *)
(* A handler reads the wall clock BEFORE it awaits the store's write lock  *)
(* and uses that reading inside the critical section, so a request is two  *)
(* steps: the first validates and samples `now', the second runs the       *)
(* critical section with the sample, which may be stale and older than one *)
(* that another handler has used already.  A client that goes away drops   *)
(* its handler while it waits.  A restart loses the whole store.           *)
(***************************************************************************)
EXTENDS EventStore

CONSTANTS
  Handlers,     \* requests that may be in progress at the same time
  MaxTime,      \* bound: the clock stops there
  MaxRestarts,  \* bound: number of process restarts
  MaxCursor     \* bound: largest after_sequence a reader asks for

ASSUME RelayAssumption ==
  /\ MaxTime \in Nat
  /\ MaxRestarts \in Nat
  /\ MaxCursor \in Nat

VARIABLES
  store,   \* InMemoryEventStore::inner
  now,     \* the wall clock, OffsetDateTime::now_utc()
  life,    \* how often the process has been restarted
  task,    \* what each handler is waiting for the lock to do
  reply,   \* the last response of each handler
  issued   \* history: every (life, request, receipt) answered with 202

vars == <<store, now, life, task, reply, issued>>

Idle == [kind |-> "idle"]
NoReply == [kind |-> "none"]

Tasks ==
  {Idle}
    \cup [kind : {"submit"}, request : Requests, at : Nat]
    \cup [kind : {"list"}, channel : Channels, after : Nat, at : Nat]

ErrorCodes == {"invalid_request", "event_id_conflict", "sender_counter_replay"}

Replies ==
  {NoReply}
    \cup [kind : {"error"}, code : ErrorCodes]
    \cup [kind : {"accepted"}, receipt : AcceptedEvent]
    \cup [kind : {"events"}, events : SUBSET StoredEvent]

Acceptance == [life : Nat, request : Requests, receipt : AcceptedEvent]

Init ==
  /\ store = EmptyStore
  /\ now = 0
  /\ life = 0
  /\ task = [h \in Handlers |-> Idle]
  /\ reply = [h \in Handlers |-> NoReply]
  /\ issued = {}

-----------------------------------------------------------------------------
(* Decoding the body (a lifetime outside ServerTtl does not deserialise)   *)
(* and validate_event (a zero sender counter).                             *)
ValidEvent(request) ==
  request.ttl_seconds \in ServerTtl /\ request.sender_counter > 0

(* submit_event up to the await of the write lock.                         *)
SubmitEvent(h, request) ==
  /\ task[h] = Idle
  /\ \/ /\ ValidEvent(request)
        /\ task' = [task EXCEPT ![h] = [kind |-> "submit", request |-> request, at |-> now]]
        /\ reply' = [reply EXCEPT ![h] = NoReply]
     \/ /\ ~ValidEvent(request)
        /\ reply' = [reply EXCEPT ![h] = [kind |-> "error", code |-> "invalid_request"]]
        /\ UNCHANGED task
  /\ UNCHANGED <<store, now, life, issued>>

Answer(h, response) ==
  /\ task' = [task EXCEPT ![h] = Idle]
  /\ reply' = [reply EXCEPT ![h] = response]

Accepted(h, request, receipt) ==
  /\ Answer(h, [kind |-> "accepted", receipt |-> receipt])
  /\ issued' = issued \cup {[life |-> life, request |-> request, receipt |-> receipt]}

Refused(h, code) ==
  /\ Answer(h, [kind |-> "error", code |-> code])
  /\ UNCHANGED issued

(* accept(): the critical section of submit_event.  The prune is kept      *)
(* whatever the outcome.                                                   *)
Accept(h) ==
  /\ task[h].kind = "submit"
  /\ LET request == task[h].request
         pruned  == PruneExpired(store, task[h].at)
         receipt == NewReceipt(pruned, request, task[h].at)
     IN \/ /\ ExactRepeat(pruned, request)
           /\ store' = pruned
           /\ Accepted(h, request, pruned.events_by_id[request.event_id].receipt)
        \/ /\ EventIdConflict(pruned, request)
           /\ store' = pruned
           /\ Refused(h, "event_id_conflict")
        \/ /\ SenderCounterReplay(pruned, request)
           /\ store' = pruned
           /\ Refused(h, "sender_counter_replay")
        \/ /\ Fresh(pruned, request)
           /\ store' = Insert(pruned, request, receipt)
           /\ Accepted(h, request, receipt)
  /\ UNCHANGED <<now, life>>

(* list_events up to the await of the write lock.                          *)
ListEvents(h, channel, after) ==
  /\ task[h] = Idle
  /\ task' = [task EXCEPT ![h] =
                [kind |-> "list", channel |-> channel, after |-> after, at |-> now]]
  /\ reply' = [reply EXCEPT ![h] = NoReply]
  /\ UNCHANGED <<store, now, life, issued>>

(* list_active(): the critical section of list_events.                     *)
ListActive(h) ==
  /\ task[h].kind = "list"
  /\ store' = PruneExpired(store, task[h].at)
  /\ Answer(h, [kind |-> "events",
                events |-> ListedEvents(store', task[h].channel, task[h].after)])
  /\ UNCHANGED <<now, life, issued>>

(* The client disconnects while its handler waits for the lock.            *)
Disconnect(h) ==
  /\ task[h] # Idle
  /\ task' = [task EXCEPT ![h] = Idle]
  /\ UNCHANGED <<store, now, life, reply, issued>>

Tick ==
  /\ now < MaxTime
  /\ now' = now + 1
  /\ UNCHANGED <<store, life, task, reply, issued>>

(* The process ends and main() starts again with an empty store; requests  *)
(* in progress are lost with it.                                           *)
Restart ==
  /\ life < MaxRestarts
  /\ life' = life + 1
  /\ store' = EmptyStore
  /\ task' = [h \in Handlers |-> Idle]
  /\ reply' = [h \in Handlers |-> NoReply]
  /\ UNCHANGED <<now, issued>>

Next ==
  \/ \E h \in Handlers, request \in Requests : SubmitEvent(h, request)
  \/ \E h \in Handlers : Accept(h)
  \/ \E h \in Handlers, channel \in Channels, after \in 0 .. MaxCursor :
        ListEvents(h, channel, after)
  \/ \E h \in Handlers : ListActive(h)
  \/ \E h \in Handlers : Disconnect(h)
  \/ Tick
  \/ Restart

Spec == Init /\ [][Next]_vars

-----------------------------------------------------------------------------
(***************************************************************************)
(* Properties                                                              *)
(***************************************************************************)

(* Type invariant: the four store maps, the clock, the waiting handlers,   *)
(* their responses and the history hold values of the code's types.        *)
TypeOK ==
  /\ store \in StoreData
  /\ now \in Nat
  /\ life \in Nat
  /\ task \in [Handlers -> Tasks]
  /\ reply \in [Handlers -> Replies]
  /\ issued \in SUBSET Acceptance

(* What is stored of an acceptance.                                        *)
Entry(acceptance) ==
  [request |-> acceptance.request, receipt |-> acceptance.receipt]

(* The acceptances of the running process.                                 *)
Current == {i \in issued : i.life = life}

(* accept() and prune_expired() write the two event indexes separately;    *)
(* they hold the same events at all times, whatever mixture of stale and   *)
(* fresh clock readings has been used to prune them.                       *)
IndexesAgree ==
  /\ \A e \in EventIds :
        store.events_by_id[e] # NoEvent =>
          /\ store.events_by_id[e].request.event_id = e
          /\ store.events_by_id[e]
               \in store.events_by_channel[store.events_by_id[e].request.channel_id]
  /\ \A c \in Channels : \A stored \in store.events_by_channel[c] :
        /\ stored.request.channel_id = c
        /\ store.events_by_id[stored.request.event_id] = stored

(* A retry is idempotent for the lifetime of the process: however often    *)
(* and however late one request is repeated, every 202 it gets carries the *)
(* same receipt, so a repeat never extends the event's TTL and never takes *)
(* a second sequence number - also after the event has been pruned.        *)
OneReceiptPerRequest ==
  \A i, j \in issued :
    i.life = j.life /\ i.request = j.request => i.receipt = j.receipt

(* The events of one sender in one channel are sequenced in the order of   *)
(* their counters, and no counter is sequenced twice, counting the events  *)
(* that have expired since.                                                *)
SenderOrder ==
  \A i, j \in issued :
    i.life = j.life /\ Sender(i.request) = Sender(j.request) =>
      (i.request.sender_counter < j.request.sender_counter
         <=> i.receipt.sequence < j.receipt.sequence)

(* Sequence numbers of a channel are dense and never reused: the process   *)
(* has handed out exactly 1 .. next_sequence, each to one event, although  *)
(* emptied channels disappear from events_by_channel.                      *)
SequenceNumbering ==
  /\ \A c \in Channels :
        {i.receipt.sequence : i \in {j \in Current : j.request.channel_id = c}}
          = 1 .. store.next_sequence_by_channel[c]
  /\ \A i, j \in Current :
        /\ i.request.channel_id = j.request.channel_id
        /\ i.receipt.sequence = j.receipt.sequence
        => i = j

(* An event that was acknowledged to its sender is stored, under both      *)
(* indexes, until its TTL has really passed: no other handler's sample,    *)
(* conflict or repeat removes or replaces it early.                        *)
LiveEventsRetained ==
  \A i \in Current :
    i.receipt.expires_at > now => store.events_by_id[i.request.event_id] = Entry(i)

(* The events of a channel after a cursor that are unexpired at `time'.    *)
ActiveAt(channel, after, time) ==
  {Entry(i) : i \in {j \in Current :
                       /\ j.request.channel_id = channel
                       /\ j.receipt.sequence > after
                       /\ j.receipt.expires_at > time}}

(* A listing contains every event after the cursor that is unexpired when  *)
(* it is answered, and none that had expired when the handler read the     *)
(* clock: the wait for the lock can neither hide a live event nor deliver  *)
(* an expired one.                                                         *)
ListingExact ==
  [][\A h \in Handlers :
       task[h].kind = "list" /\ reply'[h].kind = "events" =>
         /\ ActiveAt(task[h].channel, task[h].after, now) \subseteq reply'[h].events
         /\ reply'[h].events \subseteq ActiveAt(task[h].channel, task[h].after, task[h].at)]_vars
=============================================================================
