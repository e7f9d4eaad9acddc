---------------------------- MODULE RelayProofs -----------------------------
(***************************************************************************)
(* Proofs about Relay for every set of requests, handlers, channels and    *)
(* devices, every lifetime bound and every clock.                          *)
(*                                                                         *)
(* The invariant has two parts.  Ledger relates a store value to the       *)
(* acceptances of the running process; it is stated for any store value,   *)
(* so that the two halves of a critical section (prune, then insert) are   *)
(* two lemmas that compose.  The rest says that a waiting handler holds a  *)
(* valid request and a clock reading from the past, and that acceptances   *)
(* of earlier processes keep their order.                                  *)
(*                                                                         *)
(* For the reader of RelayReader the invariant also follows each listing   *)
(* on its way: a reply holds everything that was live and past the cursor  *)
(* it was asked for (RepliesComplete), and no cursor runs ahead of the     *)
(* sequence numbers that have been given out (CursorsNumbered).            *)
(***************************************************************************)
EXTENDS RelayReader, WellFoundedInduction, TLAPS

-----------------------------------------------------------------------------
(***************************************************************************)
(* The store's critical sections.                                          *)
(***************************************************************************)
(* prune_expired keeps the types of all four maps.                         *)
LEMMA PruneType ==
  ASSUME NEW data \in StoreData, NEW time \in Nat
  PROVE  PruneExpired(data, time) \in StoreData
BY DEF StoreData, PruneExpired

(* What each of the four maps is after a prune.                            *)
LEMMA PruneMaps ==
  ASSUME NEW data \in StoreData, NEW time \in Nat
  PROVE  LET p == PruneExpired(data, time) IN
         /\ p.highest_counter_by_sender = data.highest_counter_by_sender
         /\ p.next_sequence_by_channel = data.next_sequence_by_channel
         /\ \A e \in EventIds :
              \/ /\ data.events_by_id[e] # NoEvent
                 /\ Alive(data.events_by_id[e], time)
                 /\ p.events_by_id[e] = data.events_by_id[e]
              \/ /\ data.events_by_id[e] = NoEvent \/ ~Alive(data.events_by_id[e], time)
                 /\ p.events_by_id[e] = NoEvent
         /\ \A c \in Channels :
              p.events_by_channel[c] =
                {stored \in data.events_by_channel[c] : Alive(stored, time)}
BY DEF StoreData, PruneExpired

(* The recorded store is well typed.                                       *)
LEMMA InsertType ==
  ASSUME NEW data \in StoreData, NEW request \in Requests, NEW receipt \in AcceptedEvent
  PROVE  Insert(data, request, receipt) \in StoreData
<1>1. /\ request.channel_id \in Channels
      /\ request.event_id \in EventIds
      /\ Sender(request) \in Senders
      /\ request.sender_counter \in Nat
  BY StoreAssumption DEF RequestRecord, Sender, Senders
<1>2. [request |-> request, receipt |-> receipt] \in StoredEvent
  BY DEF StoredEvent
<1>3. receipt.sequence \in Nat
  BY DEF AcceptedEvent
<1> QED
  BY <1>1, <1>2, <1>3 DEF StoreData, Insert

(* A new receipt is well typed when the request's lifetime is valid.       *)
LEMMA ReceiptType ==
  ASSUME NEW data \in StoreData, NEW request \in Requests, NEW at \in Nat
  PROVE  NewReceipt(data, request, at) \in AcceptedEvent
<1>1. /\ request.channel_id \in Channels
      /\ request.event_id \in EventIds
      /\ request.ttl_seconds \in Nat
  BY StoreAssumption DEF RequestRecord
<1>2. EffectiveTtl(request) \in Nat
  BY <1>1, StoreAssumption DEF EffectiveTtl, ServerTtl
<1>3. data.next_sequence_by_channel[request.channel_id] \in Nat
  BY <1>1 DEF StoreData
<1> QED
  BY <1>1, <1>2, <1>3 DEF NewReceipt, AcceptedEvent

Indexed(data) ==
  /\ \A e \in EventIds :
        data.events_by_id[e] # NoEvent =>
          /\ data.events_by_id[e].request.event_id = e
          /\ data.events_by_id[e]
               \in data.events_by_channel[data.events_by_id[e].request.channel_id]
  /\ \A c \in Channels : \A stored \in data.events_by_channel[c] :
        /\ stored.request.channel_id = c
        /\ data.events_by_id[stored.request.event_id] = stored

(* Everything stored has been acknowledged.                                *)
StoredAcknowledged(data, accs) ==
  \A c \in Channels : \A stored \in data.events_by_channel[c] :
    \E i \in accs : Entry(i) = stored

(* The two counter maps dominate everything acknowledged so far; this is   *)
(* what outlives the events themselves.                                    *)
CountersDominate(data, accs) ==
  \A i \in accs :
    /\ i.request.sender_counter <= data.highest_counter_by_sender[Sender(i.request)]
    /\ i.receipt.sequence <= data.next_sequence_by_channel[i.request.channel_id]

Dense(data, accs) ==
  \A c \in Channels : \A n \in 1 .. data.next_sequence_by_channel[c] :
    \E i \in accs : i.request.channel_id = c /\ i.receipt.sequence = n

NoNumberTwice(accs) ==
  \A i, j \in accs :
    /\ i.request.channel_id = j.request.channel_id
    /\ i.receipt.sequence = j.receipt.sequence
    => i = j

Retained(data, accs, time) ==
  \A i \in accs :
    i.receipt.expires_at > time => data.events_by_id[i.request.event_id] = Entry(i)

Ledger(data, accs, time) ==
  /\ data \in StoreData
  /\ Indexed(data)
  /\ StoredAcknowledged(data, accs)
  /\ CountersDominate(data, accs)
  /\ Dense(data, accs)
  /\ NoNumberTwice(accs)
  /\ Retained(data, accs, time)

TasksSound ==
  \A h \in Handlers :
    /\ task[h].kind = "submit" => ValidEvent(task[h].request) /\ task[h].at <= now
    /\ task[h].kind = "list" => task[h].at <= now

NoFutureLife == \A i \in issued : i.life <= life

IInv ==
  /\ TypeOK
  /\ TasksSound
  /\ NoFutureLife
  /\ SenderOrder
  /\ OneReceiptPerRequest
  /\ Ledger(store, Current, now)

-----------------------------------------------------------------------------

(* Pruning with a clock reading from the past keeps the ledger.            *)
LEMMA PruneLedger ==
  ASSUME NEW data, NEW accs \in SUBSET Acceptance, NEW time \in Nat, NEW at \in Nat,
         at <= time, Ledger(data, accs, time)
  PROVE  Ledger(PruneExpired(data, at), accs, time)
<1> DEFINE p == PruneExpired(data, at)
<1>1. data \in StoreData
  BY DEF Ledger
<1>2. p \in StoreData
  BY <1>1, PruneType
<1>3. /\ p.highest_counter_by_sender = data.highest_counter_by_sender
      /\ p.next_sequence_by_channel = data.next_sequence_by_channel
      /\ \A e \in EventIds :
           \/ /\ data.events_by_id[e] # NoEvent
              /\ Alive(data.events_by_id[e], at)
              /\ p.events_by_id[e] = data.events_by_id[e]
           \/ /\ data.events_by_id[e] = NoEvent \/ ~Alive(data.events_by_id[e], at)
              /\ p.events_by_id[e] = NoEvent
      /\ \A c \in Channels :
           p.events_by_channel[c] = {stored \in data.events_by_channel[c] : Alive(stored, at)}
  BY <1>1, PruneMaps
<1> HIDE DEF p
<1>4. \A c \in Channels : \A stored \in data.events_by_channel[c] :
        stored.request.event_id \in EventIds
  BY <1>1, StoreAssumption DEF StoreData, StoredEvent, RequestRecord
<1>5. \A e \in EventIds : data.events_by_id[e] # NoEvent =>
        data.events_by_id[e].request.channel_id \in Channels
  BY <1>1, StoreAssumption DEF StoreData, StoredEvent, RequestRecord
<1>6. Indexed(data)
  BY DEF Ledger
<1>7. Indexed(p)
  <2>1. \A e \in EventIds : p.events_by_id[e] # NoEvent =>
          /\ p.events_by_id[e].request.event_id = e
          /\ p.events_by_id[e] \in p.events_by_channel[p.events_by_id[e].request.channel_id]
    BY <1>3, <1>5, <1>6 DEF Indexed
  <2>2. \A c \in Channels : \A stored \in p.events_by_channel[c] :
          /\ stored.request.channel_id = c
          /\ p.events_by_id[stored.request.event_id] = stored
    <3> TAKE c \in Channels
    <3> TAKE stored \in p.events_by_channel[c]
    <3>1. stored \in data.events_by_channel[c] /\ Alive(stored, at)
      BY <1>3
    <3>2. stored.request.event_id \in EventIds
      BY <3>1, <1>4
    <3>3. /\ stored.request.channel_id = c
          /\ data.events_by_id[stored.request.event_id] = stored
      BY <3>1, <1>6 DEF Indexed
    <3>4. stored # NoEvent
      BY <3>1, <1>1, NoEventAssumption DEF StoreData
    <3> QED
      BY <3>1, <3>2, <3>3, <3>4, <1>3
  <2> QED
    BY <2>1, <2>2 DEF Indexed
<1>8. StoredAcknowledged(p, accs)
  BY <1>3 DEF Ledger, StoredAcknowledged
<1>9. CountersDominate(p, accs) /\ Dense(p, accs)
  BY <1>3 DEF Ledger, CountersDominate, Dense
<1>10. Retained(p, accs, time)
  <2> SUFFICES ASSUME NEW i \in accs, i.receipt.expires_at > time
               PROVE  p.events_by_id[i.request.event_id] = Entry(i)
    BY DEF Retained
  <2>1. data.events_by_id[i.request.event_id] = Entry(i)
    BY DEF Ledger, Retained
  <2>2. /\ i.request \in Requests
        /\ i.receipt \in AcceptedEvent
        /\ i.request.event_id \in EventIds
    BY StoreAssumption DEF Acceptance, RequestRecord
  <2>3. Entry(i) # NoEvent
    BY <2>2, NoEventAssumption DEF Entry, StoredEvent
  <2>4. i.receipt.expires_at \in Nat
    BY <2>2 DEF AcceptedEvent
  <2>5. Alive(Entry(i), at)
    BY <2>4 DEF Alive, Entry
  <2> QED
    BY <2>1, <2>2, <2>3, <2>5, <1>3
<1> QED
  BY <1>2, <1>7, <1>8, <1>9, <1>10 DEF Ledger, p

(* Recording a fresh, valid request keeps the ledger.                      *)
LEMMA InsertLedger ==
  ASSUME NEW data, NEW accs \in SUBSET Acceptance, NEW time \in Nat, NEW at \in Nat,
         NEW request \in Requests, NEW lf \in Nat,
         Ledger(data, accs, time), Fresh(data, request)
  PROVE  LET receipt == NewReceipt(data, request, at)
             new == [life |-> lf, request |-> request, receipt |-> receipt]
         IN  Ledger(Insert(data, request, receipt), accs \cup {new}, time)
<1> DEFINE receipt == NewReceipt(data, request, at)
           stored  == [request |-> request, receipt |-> receipt]
           new     == [life |-> lf, request |-> request, receipt |-> receipt]
           q       == Insert(data, request, receipt)
           ch      == request.channel_id
           id      == request.event_id
<1>1. data \in StoreData
  BY DEF Ledger
<1>2. receipt \in AcceptedEvent
  BY <1>1, ReceiptType
<1>3. q \in StoreData
  BY <1>1, <1>2, InsertType
<1>4. /\ ch \in Channels
      /\ id \in EventIds
      /\ Sender(request) \in Senders
      /\ request.sender_counter \in Nat
  BY StoreAssumption DEF RequestRecord, Sender, Senders
<1>5. /\ data.next_sequence_by_channel \in [Channels -> Nat]
      /\ data.highest_counter_by_sender \in [Senders -> Nat]
      /\ data.events_by_id \in [EventIds -> StoredEvent \cup {NoEvent}]
      /\ data.events_by_channel \in [Channels -> SUBSET StoredEvent]
  BY <1>1 DEF StoreData
<1>6. receipt.sequence = data.next_sequence_by_channel[ch] + 1
  BY DEF NewReceipt
<1>7. /\ data.events_by_id[id] = NoEvent
      /\ request.sender_counter > data.highest_counter_by_sender[Sender(request)]
  BY DEF Fresh, Known
<1>8. /\ q.events_by_id = [data.events_by_id EXCEPT ![id] = stored]
      /\ q.events_by_channel = [data.events_by_channel EXCEPT ![ch] = @ \cup {stored}]
      /\ q.highest_counter_by_sender =
           [data.highest_counter_by_sender EXCEPT ![Sender(request)] = request.sender_counter]
      /\ q.next_sequence_by_channel =
           [data.next_sequence_by_channel EXCEPT ![ch] = receipt.sequence]
  BY DEF Insert
<1>9. stored.request = request /\ stored.receipt = receipt
  OBVIOUS
<1>10. /\ new.request = request
       /\ new.receipt = receipt
       /\ Entry(new) = stored
       /\ new \in Acceptance
  BY <1>2 DEF Entry, Acceptance
<1>11. \A i \in accs : /\ i.request.channel_id \in Channels
                       /\ i.request.event_id \in EventIds
                       /\ Sender(i.request) \in Senders
                       /\ i.request.sender_counter \in Nat
                       /\ i.receipt.sequence \in Nat
                       /\ i.receipt.expires_at \in Nat
                       /\ Entry(i) \in StoredEvent
  <2> SUFFICES ASSUME NEW i \in accs
               PROVE  /\ i.request.channel_id \in Channels
                      /\ i.request.event_id \in EventIds
                      /\ Sender(i.request) \in Senders
                      /\ i.request.sender_counter \in Nat
                      /\ i.receipt.sequence \in Nat
                      /\ i.receipt.expires_at \in Nat
                      /\ Entry(i) \in StoredEvent
    OBVIOUS
  <2>1. i.request \in Requests /\ i.receipt \in AcceptedEvent
    BY DEF Acceptance
  <2>2. i.request \in RequestRecord
    BY <2>1, StoreAssumption
  <2> QED
    BY <2>1, <2>2 DEF RequestRecord, AcceptedEvent, Sender, Senders, Entry, StoredEvent
<1> HIDE DEF receipt, stored, new, q, ch, id
<1>12. Indexed(data)
  BY DEF Ledger
<1>13. \A c \in Channels : \A s \in data.events_by_channel[c] :
         /\ s.request.event_id \in EventIds
         /\ s.request.event_id # id
  <2> SUFFICES ASSUME NEW c \in Channels, NEW s \in data.events_by_channel[c]
               PROVE  s.request.event_id \in EventIds /\ s.request.event_id # id
    OBVIOUS
  <2>1. s \in StoredEvent /\ s # NoEvent
    BY <1>5, NoEventAssumption
  <2>2. s.request.event_id \in EventIds
    BY <2>1, StoreAssumption DEF StoredEvent, RequestRecord
  <2>3. data.events_by_id[s.request.event_id] = s
    BY <1>12 DEF Indexed
  <2> QED
    BY <2>1, <2>2, <2>3, <1>7
<1>14. Indexed(q)
  <2>1. \A e \in EventIds : q.events_by_id[e] # NoEvent =>
          /\ q.events_by_id[e].request.event_id = e
          /\ q.events_by_id[e] \in q.events_by_channel[q.events_by_id[e].request.channel_id]
    <3> SUFFICES ASSUME NEW e \in EventIds, q.events_by_id[e] # NoEvent
                 PROVE  /\ q.events_by_id[e].request.event_id = e
                        /\ q.events_by_id[e]
                             \in q.events_by_channel[q.events_by_id[e].request.channel_id]
      OBVIOUS
    <3>1. CASE e = id
      <4>1. q.events_by_id[e] = stored
        BY <3>1, <1>4, <1>5, <1>8
      <4>2. stored \in q.events_by_channel[ch]
        BY <1>4, <1>5, <1>8
      <4> QED
        BY <4>1, <4>2, <3>1, <1>9 DEF id, ch
    <3>2. CASE e # id
      <4>1. q.events_by_id[e] = data.events_by_id[e]
        BY <3>2, <1>5, <1>8
      <4>2. data.events_by_id[e].request.channel_id \in Channels
        BY <4>1, <1>5, StoreAssumption DEF StoredEvent, RequestRecord
      <4> QED
        BY <4>1, <4>2, <1>4, <1>5, <1>8, <1>12 DEF Indexed
    <3> QED
      BY <3>1, <3>2
  <2>2. \A c \in Channels : \A s \in q.events_by_channel[c] :
          /\ s.request.channel_id = c
          /\ q.events_by_id[s.request.event_id] = s
    <3> SUFFICES ASSUME NEW c \in Channels, NEW s \in q.events_by_channel[c]
                 PROVE  s.request.channel_id = c /\ q.events_by_id[s.request.event_id] = s
      OBVIOUS
    <3>1. CASE s \in data.events_by_channel[c]
      BY <3>1, <1>5, <1>8, <1>12, <1>13 DEF Indexed
    <3>2. CASE s \notin data.events_by_channel[c]
      <4>1. c = ch /\ s = stored
        BY <3>2, <1>4, <1>5, <1>8
      <4> QED
        BY <4>1, <1>4, <1>5, <1>8, <1>9 DEF ch, id
    <3> QED
      BY <3>1, <3>2
  <2> QED
    BY <2>1, <2>2 DEF Indexed
<1>15. StoredAcknowledged(q, accs \cup {new})
  <2> SUFFICES ASSUME NEW c \in Channels, NEW s \in q.events_by_channel[c]
               PROVE  \E i \in accs \cup {new} : Entry(i) = s
    BY DEF StoredAcknowledged
  <2>1. s \in data.events_by_channel[c] \/ s = stored
    BY <1>4, <1>5, <1>8
  <2> QED
    BY <2>1, <1>10 DEF Ledger, StoredAcknowledged
<1>16. \A i \in accs :
         /\ i.request.sender_counter <= data.highest_counter_by_sender[Sender(i.request)]
         /\ i.receipt.sequence <= data.next_sequence_by_channel[i.request.channel_id]
  BY DEF Ledger, CountersDominate
<1>17. CountersDominate(q, accs \cup {new})
  <2>1. \A i \in accs :
          /\ i.request.sender_counter <= q.highest_counter_by_sender[Sender(i.request)]
          /\ i.receipt.sequence <= q.next_sequence_by_channel[i.request.channel_id]
    <3> TAKE i \in accs
    <3>1. i.request.sender_counter <= q.highest_counter_by_sender[Sender(i.request)]
      BY <1>16, <1>11, <1>4, <1>5, <1>7, <1>8
    <3>2. i.receipt.sequence <= q.next_sequence_by_channel[i.request.channel_id]
      BY <1>16, <1>11, <1>4, <1>5, <1>6, <1>8
    <3> QED
      BY <3>1, <3>2
  <2>2. /\ new.request.sender_counter <= q.highest_counter_by_sender[Sender(new.request)]
        /\ new.receipt.sequence <= q.next_sequence_by_channel[new.request.channel_id]
    BY <1>4, <1>5, <1>6, <1>8, <1>10 DEF ch
  <2> QED
    BY <2>1, <2>2 DEF CountersDominate
<1>18. Dense(q, accs \cup {new})
  <2> SUFFICES ASSUME NEW c \in Channels, NEW n \in 1 .. q.next_sequence_by_channel[c]
               PROVE  \E i \in accs \cup {new} : i.request.channel_id = c /\ i.receipt.sequence = n
    BY DEF Dense
  <2>1. CASE n \in 1 .. data.next_sequence_by_channel[c]
    BY <2>1 DEF Ledger, Dense
  <2>2. CASE n \notin 1 .. data.next_sequence_by_channel[c]
    <3>1. c = ch /\ n = receipt.sequence
      BY <2>2, <1>4, <1>5, <1>6, <1>8
    <3> QED
      BY <3>1, <1>10 DEF ch
  <2> QED
    BY <2>1, <2>2
<1>19. NoNumberTwice(accs \cup {new})
  <2>1. \A i \in accs : i.request.channel_id = ch => i.receipt.sequence # receipt.sequence
    BY <1>4, <1>5, <1>6, <1>11, <1>16
  <2> QED
    BY <2>1, <1>10 DEF Ledger, NoNumberTwice, ch
<1>20. Retained(q, accs \cup {new}, time)
  <2> SUFFICES ASSUME NEW i \in accs \cup {new}, i.receipt.expires_at > time
               PROVE  q.events_by_id[i.request.event_id] = Entry(i)
    BY DEF Retained
  <2>1. CASE i = new
    BY <2>1, <1>4, <1>5, <1>8, <1>10 DEF id
  <2>2. CASE i \in accs
    <3>1. data.events_by_id[i.request.event_id] = Entry(i)
      BY <2>2 DEF Ledger, Retained
    <3>2. Entry(i) # NoEvent
      BY <2>2, <1>11, NoEventAssumption
    <3>3. i.request.event_id # id
      BY <3>1, <3>2, <1>7
    <3> QED
      BY <3>1, <3>3, <2>2, <1>5, <1>8, <1>11
  <2> QED
    BY <2>1, <2>2
<1> QED
  BY <1>3, <1>14, <1>15, <1>17, <1>18, <1>19, <1>20 DEF Ledger, receipt, new, q

-----------------------------------------------------------------------------
(* The relay starts with an empty store and an empty history.              *)
LEMMA InitIInv == Init => IInv
<1> SUFFICES ASSUME Init PROVE IInv
  OBVIOUS
<1>1. EmptyStore \in StoreData
  BY DEF EmptyStore, StoreData
<1>2. TypeOK
  BY <1>1 DEF Init, TypeOK, Tasks, Replies
<1>3. Current = {}
  BY DEF Init, Current
<1>4. /\ store.events_by_id = [e \in EventIds |-> NoEvent]
      /\ store.events_by_channel = [c \in Channels |-> {}]
      /\ store.next_sequence_by_channel = [c \in Channels |-> 0]
  BY DEF Init, EmptyStore
<1>5. Ledger(store, Current, now)
  BY <1>2, <1>3, <1>4 DEF TypeOK, Ledger, Indexed, StoredAcknowledged, CountersDominate,
     Dense, NoNumberTwice, Retained
<1>6. TasksSound /\ NoFutureLife /\ SenderOrder /\ OneReceiptPerRequest
  BY DEF Init, Idle, TasksSound, NoFutureLife, SenderOrder, OneReceiptPerRequest
<1> QED
  BY <1>2, <1>5, <1>6 DEF IInv

(* A critical section that only prunes, and adds nothing to the history,   *)
(* keeps the invariant.                                                    *)
LEMMA PruneStep ==
  ASSUME IInv, NEW at \in Nat, at <= now, store' = PruneExpired(store, at),
         UNCHANGED <<now, life, issued>>,
         task' \in [Handlers -> Tasks], reply' \in [Handlers -> Replies], TasksSound'
  PROVE  IInv'
<1>1. store' \in StoreData
  BY PruneType DEF IInv, TypeOK
<1>2. TypeOK'
  BY <1>1 DEF IInv, TypeOK
<1>3. Current \in SUBSET Acceptance /\ Current' = Current
  BY DEF IInv, TypeOK, Current
<1>4. Ledger(store', Current, now)
  BY <1>3, PruneLedger DEF IInv, TypeOK
<1>5. (NoFutureLife /\ SenderOrder /\ OneReceiptPerRequest)'
  BY DEF IInv, NoFutureLife, SenderOrder, OneReceiptPerRequest
<1> QED
  BY <1>2, <1>3, <1>4, <1>5 DEF IInv

(* accept() keeps the invariant, whatever its outcome.                     *)
LEMMA AcceptStep ==
  ASSUME IInv, NEW h \in Handlers, Accept(h)
  PROVE  IInv'
<1> DEFINE request == task[h].request
           at      == task[h].at
           pruned  == PruneExpired(store, at)
           receipt == NewReceipt(pruned, request, at)
           old     == pruned.events_by_id[request.event_id]
<1>1. TypeOK /\ TasksSound /\ task[h].kind = "submit"
  BY DEF IInv, Accept
<1>2. /\ request \in Requests
      /\ at \in Nat
      /\ at <= now
      /\ now \in Nat
      /\ life \in Nat
  BY <1>1 DEF TypeOK, Tasks, Idle, TasksSound
<1>3. store \in StoreData /\ pruned \in StoreData
  BY <1>1, <1>2, PruneType DEF TypeOK
<1>4. /\ request \in RequestRecord
      /\ request.event_id \in EventIds
  BY <1>2, StoreAssumption DEF RequestRecord
<1>5. receipt \in AcceptedEvent
  BY <1>2, <1>3, ReceiptType
<1>6. Current \in SUBSET Acceptance
  BY <1>1 DEF TypeOK, Current
<1>7. Ledger(pruned, Current, now)
  BY <1>2, <1>6, PruneLedger DEF IInv
<1>8. UNCHANGED <<now, life>>
  BY DEF Accept
<1>9. ASSUME NEW response \in Replies, Answer(h, response)
      PROVE  task' \in [Handlers -> Tasks] /\ reply' \in [Handlers -> Replies] /\ TasksSound'
  <2>1. task' = [task EXCEPT ![h] = Idle] /\ reply' = [reply EXCEPT ![h] = response]
    BY <1>9 DEF Answer
  <2>2. task' \in [Handlers -> Tasks] /\ reply' \in [Handlers -> Replies]
    BY <2>1, <1>1, <1>9 DEF TypeOK, Tasks
  <2>3. TasksSound'
    BY <2>1, <1>1, <1>8 DEF TypeOK, TasksSound, Idle
  <2> QED
    BY <2>2, <2>3
<1>10. CASE ExactRepeat(pruned, request) /\ store' = pruned /\ Accepted(h, request, old.receipt)
  <2>1. old # NoEvent /\ old.request = request
    BY <1>10 DEF ExactRepeat, Known
  <2>2. old \in StoredEvent
    BY <2>1, <1>3, <1>4 DEF StoreData
  <2>3. old \in pruned.events_by_channel[request.channel_id] /\ request.channel_id \in Channels
    BY <2>1, <1>4, <1>7 DEF Ledger, Indexed, RequestRecord
  <2>4. PICK i \in Current : Entry(i) = old
    BY <2>3, <1>7 DEF Ledger, StoredAcknowledged
  <2>5. i.request = request /\ i.receipt = old.receipt /\ i.life = life /\ i \in issued
    BY <2>1, <2>4 DEF Entry, Current
  <2>6. i = [life |-> life, request |-> request, receipt |-> old.receipt]
    BY <2>5, <1>6 DEF Acceptance
  <2>7. issued' = issued
    BY <2>5, <2>6, <1>10 DEF Accepted
  <2>8. [kind |-> "accepted", receipt |-> old.receipt] \in Replies
    BY <2>2 DEF Replies, StoredEvent
  <2>9. Answer(h, [kind |-> "accepted", receipt |-> old.receipt])
    BY <1>10 DEF Accepted
  <2> HIDE DEF old, pruned
  <2>10. task' \in [Handlers -> Tasks] /\ reply' \in [Handlers -> Replies] /\ TasksSound'
    BY <2>8, <2>9, <1>9
  <2> QED
    BY <2>7, <2>10, <1>2, <1>8, <1>10, PruneStep DEF pruned
<1>11. ASSUME NEW code \in ErrorCodes, Refused(h, code), store' = pruned
       PROVE  IInv'
  <2>1. [kind |-> "error", code |-> code] \in Replies
    BY DEF Replies
  <2>2. Answer(h, [kind |-> "error", code |-> code]) /\ UNCHANGED issued
    BY <1>11 DEF Refused
  <2>3. task' \in [Handlers -> Tasks] /\ reply' \in [Handlers -> Replies] /\ TasksSound'
    BY <2>1, <2>2, <1>9
  <2> QED
    BY <2>2, <2>3, <1>2, <1>8, <1>11, PruneStep
<1>12. CASE /\ Fresh(pruned, request)
            /\ store' = Insert(pruned, request, receipt)
            /\ Accepted(h, request, receipt)
  <2> DEFINE new == [life |-> life, request |-> request, receipt |-> receipt]
  <2>1. issued' = issued \cup {new}
    BY <1>12 DEF Accepted
  <2>2. new \in Acceptance /\ new.life = life /\ new.request = request /\ new.receipt = receipt
    BY <1>2, <1>5 DEF Acceptance
  <2>3. [kind |-> "accepted", receipt |-> receipt] \in Replies
    BY <1>5 DEF Replies
  <2>4. task' \in [Handlers -> Tasks] /\ reply' \in [Handlers -> Replies] /\ TasksSound'
    BY <2>3, <1>9, <1>12 DEF Accepted
  <2>5. Ledger(store', Current \cup {new}, now)
    BY <1>2, <1>6, <1>7, <1>12, InsertLedger
  <2>6. \A i \in Current :
          /\ Sender(i.request) = Sender(request) =>
                i.request.sender_counter < request.sender_counter
          /\ i.request.channel_id = request.channel_id =>
                i.receipt.sequence < receipt.sequence
    <3> SUFFICES ASSUME NEW i \in Current
                 PROVE  /\ Sender(i.request) = Sender(request) =>
                             i.request.sender_counter < request.sender_counter
                        /\ i.request.channel_id = request.channel_id =>
                             i.receipt.sequence < receipt.sequence
      OBVIOUS
    <3>1. /\ i.request \in RequestRecord
          /\ i.receipt \in AcceptedEvent
      BY <1>6, StoreAssumption DEF Acceptance
    <3>2. /\ i.request.sender_counter
               <= pruned.highest_counter_by_sender[Sender(i.request)]
          /\ i.receipt.sequence <= pruned.next_sequence_by_channel[i.request.channel_id]
      BY <1>7 DEF Ledger, CountersDominate
    <3>3. /\ request.sender_counter > pruned.highest_counter_by_sender[Sender(request)]
          /\ receipt.sequence = pruned.next_sequence_by_channel[request.channel_id] + 1
      BY <1>12 DEF Fresh, NewReceipt
    <3>4. /\ Sender(request) \in Senders
          /\ request.channel_id \in Channels
          /\ request.sender_counter \in Nat
          /\ i.request.sender_counter \in Nat
          /\ i.receipt.sequence \in Nat
      BY <3>1, <1>4 DEF RequestRecord, AcceptedEvent, Sender, Senders
    <3>5. /\ pruned.highest_counter_by_sender[Sender(request)] \in Nat
          /\ pruned.next_sequence_by_channel[request.channel_id] \in Nat
      BY <3>4, <1>3 DEF StoreData
    <3> QED
      BY <3>2, <3>3, <3>4, <3>5
  <2> HIDE DEF new, request, at, pruned, receipt
  <2>7. Current' = Current \cup {new}
    BY <2>1, <2>2, <1>8 DEF Current
  <2>8. \A i \in issued : i.life = life => i \in Current
    BY DEF Current
  <2>9. /\ request.sender_counter \in Nat
        /\ receipt.sequence \in Nat
        /\ \A i \in issued : /\ i.request.sender_counter \in Nat
                             /\ i.receipt.sequence \in Nat
                             /\ i.request \in RequestRecord
    BY <1>1, <1>4, <1>5, StoreAssumption DEF TypeOK, Acceptance, RequestRecord, AcceptedEvent
  <2>10. \A i \in issued : Sender(i.request) = Sender(request) =>
           i.request.channel_id = request.channel_id
    BY DEF Sender
  <2>11. SenderOrder'
    <3> SUFFICES ASSUME NEW i \in issued', NEW j \in issued', i.life = j.life,
                        Sender(i.request) = Sender(j.request)
                 PROVE  i.request.sender_counter < j.request.sender_counter
                          <=> i.receipt.sequence < j.receipt.sequence
      BY DEF SenderOrder, Sender
    <3>1. CASE i \in issued /\ j \in issued
      BY <3>1 DEF IInv, SenderOrder
    <3>2. CASE i = new /\ j = new
      BY <3>2, <2>2, <2>9
    <3>3. CASE i \in issued /\ j = new
      <4>1. /\ i.request.sender_counter < request.sender_counter
            /\ i.receipt.sequence < receipt.sequence
        BY <3>3, <2>2, <2>6, <2>8, <2>10
      <4> QED
        BY <4>1, <3>3, <2>2
    <3>4. CASE i = new /\ j \in issued
      <4>1. /\ j.request.sender_counter < request.sender_counter
            /\ j.receipt.sequence < receipt.sequence
        BY <3>4, <2>2, <2>6, <2>8, <2>10
      <4> QED
        BY <4>1, <3>4, <2>2, <2>9
    <3> QED
      BY <3>1, <3>2, <3>3, <3>4, <2>1
  <2>12. OneReceiptPerRequest'
    <3>1. \A i \in issued : i.life = life => i.request # request
      BY <2>6, <2>8, <2>9
    <3> QED
      BY <3>1, <2>1, <2>2 DEF IInv, OneReceiptPerRequest
  <2>13. NoFutureLife'
    BY <2>1, <2>2, <1>2, <1>8 DEF IInv, NoFutureLife
  <2>14. TypeOK'
    BY <2>1, <2>2, <2>4, <2>5, <1>1, <1>8 DEF TypeOK, Ledger
  <2>15. Ledger(store, Current, now)'
    BY <2>5, <2>7, <1>8
  <2> QED
    BY <2>4, <2>11, <2>12, <2>13, <2>14, <2>15 DEF IInv
<1> QED
  BY <1>10, <1>11, <1>12 DEF Accept, ErrorCodes

(* list_active() only prunes.                                              *)
LEMMA ListStep ==
  ASSUME IInv, NEW h \in Handlers, ListActive(h)
  PROVE  IInv'
<1>1. TypeOK /\ TasksSound /\ task[h].kind = "list"
  BY DEF IInv, ListActive
<1>2. /\ task[h].at \in Nat
      /\ task[h].at <= now
      /\ task[h].channel \in Channels
  BY <1>1 DEF TypeOK, Tasks, Idle, TasksSound
<1>3. /\ store' = PruneExpired(store, task[h].at)
      /\ UNCHANGED <<now, life, issued>>
      /\ task' = [task EXCEPT ![h] = Idle]
      /\ reply' = [reply EXCEPT ![h] =
           [kind |-> "events", events |-> ListedEvents(store', task[h].channel, task[h].after)]]
  BY DEF ListActive, Answer
<1>4. store' \in StoreData
  BY <1>1, <1>2, <1>3, PruneType DEF TypeOK
<1>5. ListedEvents(store', task[h].channel, task[h].after) \in SUBSET StoredEvent
  BY <1>2, <1>4 DEF ListedEvents, StoreData
<1>6. reply' \in [Handlers -> Replies]
  BY <1>1, <1>3, <1>5 DEF TypeOK, Replies
<1>7. task' \in [Handlers -> Tasks] /\ TasksSound'
  BY <1>1, <1>3 DEF TypeOK, Tasks, TasksSound, Idle
<1> QED
  BY <1>2, <1>3, <1>6, <1>7, PruneStep

(* The steps that leave the store and the history alone: taking a request, *)
(* losing a client, the clock.                                             *)
LEMMA StoreUnchangedStep ==
  ASSUME IInv, UNCHANGED <<store, life, issued>>, now' \in Nat, now <= now',
         task' \in [Handlers -> Tasks], reply' \in [Handlers -> Replies], TasksSound'
  PROVE  IInv'
<1>1. TypeOK'
  BY DEF IInv, TypeOK
<1>2. (NoFutureLife /\ SenderOrder /\ OneReceiptPerRequest)'
  BY DEF IInv, NoFutureLife, SenderOrder, OneReceiptPerRequest
<1>3. Current' = Current /\ Current \in SUBSET Acceptance
  BY DEF IInv, TypeOK, Current
<1>4. Retained(store, Current, now')
  <2> SUFFICES ASSUME NEW i \in Current, i.receipt.expires_at > now'
               PROVE  store.events_by_id[i.request.event_id] = Entry(i)
    BY DEF Retained
  <2>1. i.receipt.expires_at \in Nat
    BY <1>3 DEF Acceptance, AcceptedEvent
  <2>2. i.receipt.expires_at > now
    BY <2>1 DEF IInv, TypeOK
  <2> QED
    BY <2>2 DEF IInv, Ledger, Retained
<1>5. Ledger(store, Current, now')
  BY <1>4 DEF IInv, Ledger
<1> QED
  BY <1>1, <1>2, <1>3, <1>5 DEF IInv

(* list_events up to the lock, from any cursor.                            *)
LEMMA ListEventsStep ==
  ASSUME IInv, NEW h \in Handlers, NEW channel \in Channels, NEW after \in Nat,
         ListEvents(h, channel, after)
  PROVE  IInv'
<1>1. TypeOK /\ TasksSound
  BY DEF IInv
<1>2. /\ UNCHANGED <<store, now, life, issued>>
      /\ task' = [task EXCEPT ![h] =
           [kind |-> "list", channel |-> channel, after |-> after, at |-> now]]
      /\ reply' = [reply EXCEPT ![h] = NoReply]
  BY DEF ListEvents
<1>3. task' \in [Handlers -> Tasks] /\ reply' \in [Handlers -> Replies]
  BY <1>1, <1>2 DEF TypeOK, Tasks, Replies
<1>4. TasksSound'
  BY <1>1, <1>2 DEF TypeOK, TasksSound, ValidEvent
<1> QED
  BY <1>1, <1>2, <1>3, <1>4, StoreUnchangedStep DEF TypeOK

(* A restart empties the store; no acceptance is of the new process.       *)
LEMMA RestartStep ==
  ASSUME IInv, Restart
  PROVE  IInv'
<1>1. /\ store' = EmptyStore
      /\ life' = life + 1
      /\ UNCHANGED <<now, issued>>
      /\ task' = [h \in Handlers |-> Idle]
      /\ reply' = [h \in Handlers |-> NoReply]
  BY DEF Restart
<1>2. EmptyStore \in StoreData
  BY DEF EmptyStore, StoreData
<1>3. TypeOK'
  BY <1>1, <1>2 DEF IInv, TypeOK, Tasks, Replies
<1>4. Current' = {}
  BY <1>1 DEF IInv, TypeOK, NoFutureLife, Current, Acceptance
<1>5. NoFutureLife'
  BY <1>1 DEF IInv, TypeOK, NoFutureLife, Acceptance
<1>6. (SenderOrder /\ OneReceiptPerRequest)'
  BY <1>1 DEF IInv, SenderOrder, OneReceiptPerRequest
<1>7. TasksSound'
  BY <1>1 DEF TasksSound, Idle
<1>8. /\ store'.events_by_id = [e \in EventIds |-> NoEvent]
      /\ store'.events_by_channel = [c \in Channels |-> {}]
      /\ store'.next_sequence_by_channel = [c \in Channels |-> 0]
  BY <1>1 DEF EmptyStore
<1>9. Ledger(store, Current, now)'
  BY <1>3, <1>4, <1>8 DEF TypeOK, Ledger, Indexed, StoredAcknowledged, CountersDominate,
     Dense, NoNumberTwice, Retained
<1> QED
  BY <1>3, <1>5, <1>6, <1>7, <1>9 DEF IInv

(* Every step of the relay keeps the invariant.                            *)
LEMMA NextIInv == IInv /\ [Next]_vars => IInv'
<1> SUFFICES ASSUME IInv, [Next]_vars PROVE IInv'
  OBVIOUS
<1>1. TypeOK /\ TasksSound
  BY DEF IInv
<1>2. ASSUME NEW h \in Handlers, NEW request \in Requests, SubmitEvent(h, request)
      PROVE  IInv'
  <2>1. UNCHANGED <<store, now, life, issued>>
    BY <1>2 DEF SubmitEvent
  <2>2. CASE /\ ValidEvent(request)
             /\ task' = [task EXCEPT ![h] =
                           [kind |-> "submit", request |-> request, at |-> now]]
             /\ reply' = [reply EXCEPT ![h] = NoReply]
    <3>1. task' \in [Handlers -> Tasks] /\ reply' \in [Handlers -> Replies]
      BY <2>2, <1>1 DEF TypeOK, Tasks, Replies
    <3>2. TasksSound'
      BY <2>1, <2>2, <1>1 DEF TypeOK, TasksSound, ValidEvent
    <3> QED
      BY <2>1, <3>1, <3>2, <1>1, StoreUnchangedStep DEF TypeOK
  <2>3. CASE /\ reply' = [reply EXCEPT ![h] = [kind |-> "error", code |-> "invalid_request"]]
             /\ UNCHANGED task
    <3>1. task' \in [Handlers -> Tasks] /\ reply' \in [Handlers -> Replies]
      BY <2>3, <1>1 DEF TypeOK, Replies, ErrorCodes
    <3>2. TasksSound'
      BY <2>1, <2>3, <1>1 DEF TasksSound, ValidEvent
    <3> QED
      BY <2>1, <3>1, <3>2, <1>1, StoreUnchangedStep DEF TypeOK
  <2> QED
    BY <2>2, <2>3, <1>2 DEF SubmitEvent
<1>3. ASSUME NEW h \in Handlers, NEW channel \in Channels, NEW after \in 0 .. MaxCursor,
             ListEvents(h, channel, after)
      PROVE  IInv'
  BY <1>3, RelayAssumption, ListEventsStep
<1>4. ASSUME NEW h \in Handlers, Disconnect(h)
      PROVE  IInv'
  <2>1. UNCHANGED <<store, now, life, reply, issued>> /\ task' = [task EXCEPT ![h] = Idle]
    BY <1>4 DEF Disconnect
  <2>2. task' \in [Handlers -> Tasks] /\ reply' \in [Handlers -> Replies] /\ TasksSound'
    BY <2>1, <1>1 DEF TypeOK, Tasks, TasksSound, Idle, ValidEvent
  <2> QED
    BY <2>1, <2>2, <1>1, StoreUnchangedStep DEF TypeOK
<1>5. CASE Tick
  <2>1. UNCHANGED <<store, life, task, reply, issued>> /\ now' = now + 1
    BY <1>5 DEF Tick
  <2>2. task' \in [Handlers -> Tasks] /\ reply' \in [Handlers -> Replies]
    BY <2>1, <1>1 DEF TypeOK
  <2>3. TasksSound'
    BY <2>1, <1>1 DEF TypeOK, Tasks, TasksSound, Idle, ValidEvent
  <2> QED
    BY <2>1, <2>2, <2>3, <1>1, StoreUnchangedStep DEF TypeOK
<1>6. CASE UNCHANGED vars
  <2>1. TasksSound' /\ task' \in [Handlers -> Tasks] /\ reply' \in [Handlers -> Replies]
    BY <1>1, <1>6 DEF vars, TypeOK, TasksSound, ValidEvent
  <2> QED
    BY <2>1, <1>1, <1>6, StoreUnchangedStep DEF vars, TypeOK
<1> QED
  BY <1>2, <1>3, <1>4, <1>5, <1>6, AcceptStep, ListStep, RestartStep DEF Next

(* The inductive invariant holds in every reachable state.                 *)
LEMMA Invariance == Spec => []IInv
BY InitIInv, NextIInv, PTL DEF Spec

-----------------------------------------------------------------------------
(* Every variable keeps its type, for every instance of the constants.     *)
THEOREM TypeCorrect == Spec => []TypeOK
<1>1. IInv => TypeOK
  BY DEF IInv
<1> QED
  BY <1>1, Invariance, PTL

(* events_by_id and events_by_channel always hold the same events.         *)
THEOREM IndexAgreement == Spec => []IndexesAgree
<1>1. IInv => IndexesAgree
  BY DEF IInv, Ledger, Indexed, IndexesAgree
<1> QED
  BY <1>1, Invariance, PTL

(* A repeated request never gets a second receipt from one process.        *)
THEOREM IdempotentRetry == Spec => []OneReceiptPerRequest
<1>1. IInv => OneReceiptPerRequest
  BY DEF IInv
<1> QED
  BY <1>1, Invariance, PTL

(* Sequence order is counter order for every sender.                       *)
THEOREM SenderFifo == Spec => []SenderOrder
<1>1. IInv => SenderOrder
  BY DEF IInv
<1> QED
  BY <1>1, Invariance, PTL

(* Sequence numbers are dense and unique per channel.                      *)
THEOREM DenseSequences == Spec => []SequenceNumbering
<1>1. IInv => SequenceNumbering
  <2> SUFFICES ASSUME IInv PROVE SequenceNumbering
    OBVIOUS
  <2>1. store \in StoreData /\ Current \in SUBSET Acceptance
    BY DEF IInv, TypeOK, Current
  <2>2. ASSUME NEW c \in Channels
        PROVE  {i.receipt.sequence : i \in {j \in Current : j.request.channel_id = c}}
                 = 1 .. store.next_sequence_by_channel[c]
    <3>1. \A i \in Current : i.request.channel_id = c =>
            i.receipt.sequence \in 1 .. store.next_sequence_by_channel[c]
      <4> SUFFICES ASSUME NEW i \in Current, i.request.channel_id = c
                   PROVE  i.receipt.sequence \in 1 .. store.next_sequence_by_channel[c]
        OBVIOUS
      <4>1. i.receipt.sequence \in Nat \ {0}
        BY <2>1 DEF Acceptance, AcceptedEvent
      <4>2. i.receipt.sequence <= store.next_sequence_by_channel[c]
        BY DEF IInv, Ledger, CountersDominate
      <4>3. store.next_sequence_by_channel[c] \in Nat
        BY <2>1 DEF StoreData
      <4> QED
        BY <4>1, <4>2, <4>3
    <3>2. \A n \in 1 .. store.next_sequence_by_channel[c] :
            \E i \in Current : i.request.channel_id = c /\ i.receipt.sequence = n
      BY DEF IInv, Ledger, Dense
    <3> QED
      BY <3>1, <3>2
  <2> QED
    BY <2>2 DEF SequenceNumbering, IInv, Ledger, NoNumberTwice
<1> QED
  BY <1>1, Invariance, PTL

(* An acknowledged event is stored until its TTL has passed.               *)
THEOREM LiveRetention == Spec => []LiveEventsRetained
<1>1. IInv => LiveEventsRetained
  BY DEF IInv, Ledger, Retained, LiveEventsRetained
<1> QED
  BY <1>1, Invariance, PTL

-----------------------------------------------------------------------------
(* A waiting handler has not answered yet.                                 *)
Unanswered == \A h \in Handlers : task[h] # Idle => reply[h] = NoReply

(* Every action that answers a handler also makes it idle.                 *)
LEMMA UnansweredInvariant == Spec => []Unanswered
<1>1. Init => Unanswered
  BY DEF Init, Unanswered
<1>2. TypeOK /\ Unanswered /\ [Next]_vars => Unanswered'
  <2> SUFFICES ASSUME TypeOK, Unanswered, [Next]_vars PROVE Unanswered'
    OBVIOUS
  <2>1. ASSUME NEW h \in Handlers, NEW request \in Requests, SubmitEvent(h, request)
        PROVE  Unanswered'
    BY <2>1 DEF SubmitEvent, TypeOK, Unanswered
  <2>2. ASSUME NEW h \in Handlers, NEW response, Answer(h, response)
        PROVE  Unanswered'
    BY <2>2 DEF Answer, TypeOK, Unanswered
  <2>3. ASSUME NEW h \in Handlers, Accept(h)
        PROVE  Unanswered'
    BY <2>2, <2>3 DEF Accept, Accepted, Refused
  <2>4. ASSUME NEW h \in Handlers, NEW channel \in Channels, NEW after \in 0 .. MaxCursor,
               ListEvents(h, channel, after)
        PROVE  Unanswered'
    BY <2>4 DEF ListEvents, TypeOK, Unanswered
  <2>5. ASSUME NEW h \in Handlers, ListActive(h)
        PROVE  Unanswered'
    BY <2>2, <2>5 DEF ListActive
  <2>6. ASSUME NEW h \in Handlers, Disconnect(h)
        PROVE  Unanswered'
    BY <2>6 DEF Disconnect, TypeOK, Unanswered
  <2>7. CASE Tick \/ Restart \/ UNCHANGED vars
    BY <2>7 DEF Tick, Restart, vars, Unanswered
  <2> QED
    BY <2>1, <2>3, <2>4, <2>5, <2>6, <2>7 DEF Next
<1> QED
  BY <1>1, <1>2, TypeCorrect, PTL DEF Spec

(* What list_active() answers: every live event after the cursor, and none *)
(* that had expired when the handler read the clock.                       *)
LEMMA ListingContents ==
  ASSUME IInv, NEW h \in Handlers, ListActive(h)
  PROVE  /\ ActiveAt(task[h].channel, task[h].after, now) \subseteq reply'[h].events
         /\ reply'[h].events \subseteq ActiveAt(task[h].channel, task[h].after, task[h].at)
<1> DEFINE c == task[h].channel
           after == task[h].after
           at == task[h].at
<1>1. TypeOK /\ TasksSound /\ task[h].kind = "list"
  BY DEF IInv, ListActive
<1>2. at \in Nat /\ at <= now /\ c \in Channels /\ after \in Nat /\ now \in Nat
  BY <1>1 DEF TypeOK, Tasks, Idle, TasksSound
<1>3. store \in StoreData /\ store' = PruneExpired(store, at)
  BY <1>1 DEF TypeOK, ListActive
<1>4. store'.events_by_channel[c] = {stored \in store.events_by_channel[c] : Alive(stored, at)}
  BY <1>2, <1>3, PruneMaps
<1>5. reply'[h].events = ListedEvents(store', c, after)
  BY <1>1 DEF ListActive, Answer, TypeOK
<1> HIDE DEF c, after, at
<1>6. reply'[h].events = {stored \in store.events_by_channel[c] :
                            Alive(stored, at) /\ stored.receipt.sequence > after}
  BY <1>4, <1>5 DEF ListedEvents
<1>7. ActiveAt(c, after, now) \subseteq reply'[h].events
  <2> SUFFICES ASSUME NEW i \in Current, i.request.channel_id = c,
                      i.receipt.sequence > after, i.receipt.expires_at > now
               PROVE  Entry(i) \in reply'[h].events
    BY DEF ActiveAt
  <2>1. i \in Acceptance
    BY <1>1 DEF TypeOK, Current
  <2>2. /\ i.request \in Requests
        /\ i.receipt \in AcceptedEvent
        /\ i.request.event_id \in EventIds
        /\ i.receipt.expires_at \in Nat
    BY <2>1, StoreAssumption DEF Acceptance, AcceptedEvent, RequestRecord
  <2>3. Entry(i).request = i.request /\ Entry(i).receipt = i.receipt /\ Entry(i) # NoEvent
    BY <2>2, NoEventAssumption DEF Entry, StoredEvent
  <2>4. store.events_by_id[i.request.event_id] = Entry(i)
    BY DEF IInv, Ledger, Retained
  <2>5. Entry(i) \in store.events_by_channel[c]
    BY <2>2, <2>3, <2>4 DEF IInv, Ledger, Indexed
  <2>6. Alive(Entry(i), at)
    BY <1>2, <2>2, <2>3 DEF Alive
  <2> QED
    BY <1>6, <2>3, <2>5, <2>6
<1>8. reply'[h].events \subseteq ActiveAt(c, after, at)
  <2> SUFFICES ASSUME NEW stored \in store.events_by_channel[c],
                      Alive(stored, at), stored.receipt.sequence > after
               PROVE  stored \in ActiveAt(c, after, at)
    BY <1>6
  <2>1. PICK i \in Current : Entry(i) = stored
    BY <1>2 DEF IInv, Ledger, StoredAcknowledged
  <2>2. stored.request.channel_id = c
    BY <1>2 DEF IInv, Ledger, Indexed
  <2>3. i.request = stored.request /\ i.receipt = stored.receipt
    BY <2>1 DEF Entry
  <2> QED
    BY <2>1, <2>2, <2>3 DEF ActiveAt, Alive
<1> QED
  BY <1>7, <1>8 DEF c, after, at

(* A listing misses no live event and contains no expired one, however     *)
(* long its handler waited for the lock.                                   *)
THEOREM ExactListings == Spec => ListingExact
<1> DEFINE Exact(h) ==
      task[h].kind = "list" /\ reply'[h].kind = "events" =>
        /\ ActiveAt(task[h].channel, task[h].after, now) \subseteq reply'[h].events
        /\ reply'[h].events \subseteq ActiveAt(task[h].channel, task[h].after, task[h].at)
<1>1. ASSUME IInv, Unanswered, [Next]_vars, NEW h \in Handlers,
             task[h].kind = "list", reply'[h].kind = "events"
      PROVE  ListActive(h)
  <2>1. TypeOK /\ task[h] # Idle /\ reply[h] = NoReply
    BY <1>1 DEF IInv, Unanswered, Idle
  <2>2. reply'[h] # reply[h] /\ reply'[h] # NoReply
    BY <1>1, <2>1 DEF NoReply
  <2>3. ASSUME NEW g \in Handlers, NEW response, Answer(g, response)
        PROVE  g = h
    BY <2>1, <2>2, <2>3 DEF Answer, TypeOK
  <2>4. ~\E g \in Handlers, request \in Requests : SubmitEvent(g, request)
    BY <2>1, <2>2 DEF SubmitEvent, TypeOK
  <2>5. ~\E g \in Handlers : Accept(g)
    BY <1>1, <2>3 DEF Accept, Accepted, Refused
  <2>6. ~\E g \in Handlers, channel \in Channels, after \in 0 .. MaxCursor :
           ListEvents(g, channel, after)
    BY <2>1, <2>2 DEF ListEvents, TypeOK
  <2>7. \A g \in Handlers : ListActive(g) => g = h
    BY <2>3 DEF ListActive
  <2>8. ~\E g \in Handlers : Disconnect(g)
    BY <2>2 DEF Disconnect
  <2>9. ~Tick /\ ~Restart /\ ~UNCHANGED vars
    BY <2>1, <2>2 DEF Tick, Restart, vars
  <2> QED
    BY <1>1, <2>4, <2>5, <2>6, <2>7, <2>8, <2>9 DEF Next
<1>2. IInv /\ Unanswered /\ [Next]_vars => [\A h \in Handlers : Exact(h)]_vars
  BY <1>1, ListingContents
<1> QED
  BY <1>2, Invariance, UnansweredInvariant, PTL DEF Spec, ListingExact
-----------------------------------------------------------------------------
(***************************************************************************)
(* The reader.  A response that was produced earlier may be taken up at    *)
(* any time: what it lacks up to its last event has been received before.  *)
(***************************************************************************)
(* A waiting listing starts from a cursor the reader has already passed.   *)
ListsFromCursor ==
  \A h \in Handlers : task[h].kind = "list" => task[h].after <= cursor[task[h].channel]

(* What a response holds has been numbered by the running process.         *)
RepliesNumbered ==
  \A h \in Handlers : reply[h].kind = "events" =>
    \A e \in reply[h].events :
      e.receipt.sequence <= store.next_sequence_by_channel[e.request.channel_id]

CursorsNumbered == \A c \in Channels : cursor[c] <= store.next_sequence_by_channel[c]

RepliesComplete ==
  \A h \in Handlers : reply[h].kind = "events" =>
    \A e \in reply[h].events : \A i \in Current :
      /\ i.request.channel_id = e.request.channel_id
      /\ i.receipt.sequence <= e.receipt.sequence
      /\ i.receipt.expires_at > now
      => Entry(i) \in reply[h].events \cup received

ReaderInv ==
  /\ cursor \in [Channels -> Nat]
  /\ ListsFromCursor
  /\ RepliesNumbered
  /\ life = 0 => CursorsNumbered /\ RepliesComplete /\ CursorMissesNothing

(* A bounded set of numbers has a largest one.                             *)
LEMMA MaxExists ==
  ASSUME NEW S \in SUBSET Nat, NEW m \in S, NEW bound \in Nat, \A n \in S : n <= bound
  PROVE  \E n \in S : \A k \in S : k <= n
<1> DEFINE T == {b \in Nat : \A n \in S : n <= b}
           R == OpToRel(<, Nat)
<1>1. T \subseteq Nat /\ T # {}
  OBVIOUS
<1>2. PICK x \in T : \A y \in T : ~ (<<y, x>> \in R)
  <2>1. IsWellFoundedOn(R, Nat)
    BY NatLessThanWellFounded, Zenon
  <2> HIDE DEF T, R
  <2> QED
    BY <1>1, <2>1, WFMin
<1>3. \A y \in T : ~(y < x)
  BY <1>2 DEF OpToRel
<1>4. x \in Nat /\ \A n \in S : n <= x
  OBVIOUS
<1>5. CASE x \in S
  BY <1>4, <1>5
<1>6. CASE x \notin S
  <2>1. \A n \in S : n \in Nat /\ n <= x /\ n # x
    BY <1>4, <1>6
  <2>2. m \in Nat /\ x # 0
    BY <2>1
  <2>3. x - 1 \in T
    BY <1>4, <2>1, <2>2
  <2> QED
    BY <1>3, <2>3, <1>4
<1> QED
  BY <1>5, <1>6

(* The cursor a response leads to: the old one or the number of one of its *)
(* events, and at least all of these.                                      *)
LEMMA AdvanceIsMax ==
  ASSUME IInv, ReaderInv, NEW h \in Handlers, reply[h].kind = "events", NEW c \in Channels
  PROVE  LET n == Advance(reply[h].events, c) IN
         /\ n \in Nat
         /\ cursor[c] <= n
         /\ \/ n = cursor[c]
            \/ \E e \in reply[h].events : e.request.channel_id = c /\ n = e.receipt.sequence
<1> DEFINE seen == {cursor[c]} \cup
                   {e.receipt.sequence : e \in {f \in reply[h].events : f.request.channel_id = c}}
           bound == cursor[c] + store.next_sequence_by_channel[c]
<1>1. cursor[c] \in Nat /\ store.next_sequence_by_channel[c] \in Nat
  BY DEF ReaderInv, IInv, TypeOK, StoreData
<1>2. reply[h].events \in SUBSET StoredEvent
  BY DEF IInv, TypeOK, Replies, NoReply
<1>3. seen \in SUBSET Nat /\ cursor[c] \in seen
  BY <1>1, <1>2 DEF StoredEvent, AcceptedEvent
<1>4. \A e \in reply[h].events : e.request.channel_id = c =>
        e.receipt.sequence <= store.next_sequence_by_channel[c] /\ e.receipt.sequence \in Nat
  BY <1>2 DEF ReaderInv, RepliesNumbered, StoredEvent, AcceptedEvent
<1>5. bound \in Nat /\ \A n \in seen : n <= bound
  BY <1>1, <1>4
<1>6. \E n \in seen : \A k \in seen : k <= n
  <2> HIDE DEF seen, bound
  <2> QED
    BY <1>3, <1>5, MaxExists
<1>7. Advance(reply[h].events, c) \in seen /\ \A k \in seen : k <= Advance(reply[h].events, c)
  BY <1>6 DEF Advance
<1> QED
  BY <1>1, <1>3, <1>7

(* Taking up a response, whenever it was produced.                         *)
LEMMA ReceiveStep ==
  ASSUME IInv, ReaderInv, NEW h \in Handlers, Receive(h)
  PROVE  ReaderInv'
<1>1. /\ reply[h].kind = "events"
      /\ received' = received \cup reply[h].events
      /\ cursor' = [c \in Channels |-> Advance(reply[h].events, c)]
      /\ UNCHANGED <<store, now, life, task, reply, issued>>
  BY DEF Receive, vars
<1>2. \A c \in Channels :
        LET n == Advance(reply[h].events, c) IN
        /\ n \in Nat
        /\ cursor[c] <= n
        /\ \/ n = cursor[c]
           \/ \E e \in reply[h].events : e.request.channel_id = c /\ n = e.receipt.sequence
  BY <1>1, AdvanceIsMax
<1>3. /\ cursor' \in [Channels -> Nat]
      /\ \A c \in Channels :
           /\ cursor[c] <= cursor'[c]
           /\ \/ cursor'[c] = cursor[c]
              \/ \E e \in reply[h].events :
                   e.request.channel_id = c /\ cursor'[c] = e.receipt.sequence
  BY <1>1, <1>2
<1>4. ListsFromCursor'
  <2> SUFFICES ASSUME NEW g \in Handlers, task[g].kind = "list"
               PROVE  task[g].after <= cursor'[task[g].channel]
    BY <1>1 DEF ListsFromCursor
  <2>1. task[g].channel \in Channels /\ task[g].after \in Nat
    BY DEF IInv, TypeOK, Tasks, Idle
  <2>2. task[g].after <= cursor[task[g].channel]
    BY DEF ReaderInv, ListsFromCursor
  <2> QED
    BY <2>1, <2>2, <1>3 DEF ReaderInv
<1>5. RepliesNumbered'
  BY <1>1 DEF ReaderInv, RepliesNumbered
<1>6. ASSUME life = 0
      PROVE  (CursorsNumbered /\ RepliesComplete /\ CursorMissesNothing)'
  <2>1. CursorsNumbered /\ RepliesComplete /\ CursorMissesNothing /\ RepliesNumbered
    BY <1>6 DEF ReaderInv
  <2>2. CursorsNumbered'
    BY <2>1, <1>1, <1>3 DEF CursorsNumbered, RepliesNumbered
  <2>3. Current' = Current
    BY <1>1 DEF Current
  <2>4. RepliesComplete'
    BY <2>1, <2>3, <1>1 DEF RepliesComplete
  <2>5. CursorMissesNothing'
    <3> SUFFICES ASSUME NEW i \in Current, i.receipt.expires_at > now,
                        i.receipt.sequence <= cursor'[i.request.channel_id]
                 PROVE  Entry(i) \in received'
      BY <2>3, <1>1 DEF CursorMissesNothing
    <3>1. i.request.channel_id \in Channels
      BY StoreAssumption DEF IInv, TypeOK, Current, Acceptance, RequestRecord
    <3>2. CASE i.receipt.sequence <= cursor[i.request.channel_id]
      BY <3>2, <2>1, <1>1 DEF CursorMissesNothing
    <3>3. CASE cursor'[i.request.channel_id] # cursor[i.request.channel_id]
      <4>1. PICK e \in reply[h].events : /\ e.request.channel_id = i.request.channel_id
                                         /\ cursor'[i.request.channel_id] = e.receipt.sequence
        BY <3>1, <3>3, <1>3
      <4>2. Entry(i) \in reply[h].events \cup received
        BY <4>1, <2>1, <1>1 DEF RepliesComplete
      <4> QED
        BY <4>2, <1>1
    <3> QED
      BY <3>2, <3>3
  <2> QED
    BY <2>2, <2>4, <2>5
<1> QED
  BY <1>1, <1>3, <1>4, <1>5, <1>6 DEF ReaderInv

(* A step that numbers only beyond what is numbered already, lets time     *)
(* pass, and neither answers a listing nor asks for one.                   *)
LEMMA QuietStep ==
  ASSUME IInv, IInv', ReaderInv, UNCHANGED <<life, reader>>, now <= now',
         \A c \in Channels :
           store.next_sequence_by_channel[c] <= store'.next_sequence_by_channel[c],
         \A i \in Current' : i \notin Current =>
           i.receipt.sequence > store.next_sequence_by_channel[i.request.channel_id],
         \A h \in Handlers : task'[h] = task[h] \/ task'[h].kind # "list",
         \A h \in Handlers : reply'[h] = reply[h] \/ reply'[h].kind # "events"
  PROVE  ReaderInv'
<1>1. UNCHANGED <<cursor, received>> /\ now \in Nat /\ now' \in Nat
  BY DEF reader, IInv, TypeOK
<1>2. \A c \in Channels : /\ store.next_sequence_by_channel[c] \in Nat
                          /\ store'.next_sequence_by_channel[c] \in Nat
                          /\ cursor[c] \in Nat
  BY DEF IInv, TypeOK, StoreData, ReaderInv
<1>3. \A i \in Current' : /\ i.request.channel_id \in Channels
                          /\ i.receipt.sequence \in Nat
                          /\ i.receipt.expires_at \in Nat
  BY StoreAssumption DEF IInv, TypeOK, Current, Acceptance, RequestRecord, AcceptedEvent
<1>4. ListsFromCursor'
  BY <1>1 DEF ReaderInv, ListsFromCursor
<1>5. \A h \in Handlers : reply[h].kind = "events" =>
        \A e \in reply[h].events : e.request.channel_id \in Channels /\ e.receipt.sequence \in Nat
  BY StoreAssumption DEF IInv, TypeOK, Replies, NoReply, StoredEvent, RequestRecord, AcceptedEvent
<1>6. RepliesNumbered'
  BY <1>2, <1>5 DEF ReaderInv, RepliesNumbered
<1>7. ASSUME life = 0
      PROVE  (CursorsNumbered /\ RepliesComplete /\ CursorMissesNothing)'
  <2>1. CursorsNumbered /\ RepliesComplete /\ CursorMissesNothing /\ RepliesNumbered
    BY <1>7 DEF ReaderInv
  <2>2. CursorsNumbered'
    BY <2>1, <1>1, <1>2 DEF CursorsNumbered
  <2>3. RepliesComplete'
    <3> SUFFICES ASSUME NEW h \in Handlers, reply'[h].kind = "events",
                        NEW e \in reply'[h].events, NEW i \in Current',
                        i.request.channel_id = e.request.channel_id,
                        i.receipt.sequence <= e.receipt.sequence,
                        i.receipt.expires_at > now'
                 PROVE  Entry(i) \in reply'[h].events \cup received'
      BY DEF RepliesComplete, Entry
    <3>1. reply'[h] = reply[h]
      OBVIOUS
    <3>2. i \in Current
      BY <3>1, <2>1, <1>2, <1>3, <1>5 DEF RepliesNumbered
    <3>3. i.receipt.expires_at > now
      BY <1>1, <1>3
    <3> QED
      BY <3>1, <3>2, <3>3, <2>1, <1>1 DEF RepliesComplete
  <2>4. CursorMissesNothing'
    <3> SUFFICES ASSUME NEW i \in Current', i.receipt.expires_at > now',
                        i.receipt.sequence <= cursor[i.request.channel_id]
                 PROVE  Entry(i) \in received
      BY <1>1 DEF CursorMissesNothing, Entry
    <3>1. i \in Current
      BY <2>1, <1>2, <1>3 DEF CursorsNumbered
    <3>2. i.receipt.expires_at > now
      BY <1>1, <1>3
    <3> QED
      BY <3>1, <3>2, <2>1 DEF CursorMissesNothing
  <2> QED
    BY <2>2, <2>3, <2>4
<1> QED
  BY <1>1, <1>4, <1>6, <1>7 DEF ReaderInv
(* What accept() adds to the history is numbered beyond everything before. *)
LEMMA AcceptNumbers ==
  ASSUME IInv, NEW h \in Handlers, Accept(h)
  PROVE  /\ \A c \in Channels :
              store.next_sequence_by_channel[c] <= store'.next_sequence_by_channel[c]
         /\ \A i \in Current' : i \notin Current =>
              i.receipt.sequence > store.next_sequence_by_channel[i.request.channel_id]
<1> DEFINE request == task[h].request
           at      == task[h].at
           pruned  == PruneExpired(store, at)
           receipt == NewReceipt(pruned, request, at)
           old     == pruned.events_by_id[request.event_id]
<1>1. TypeOK /\ TasksSound /\ task[h].kind = "submit" /\ UNCHANGED life
  BY DEF IInv, Accept
<1>2. request \in Requests /\ at \in Nat /\ at <= now /\ now \in Nat
  BY <1>1 DEF TypeOK, Tasks, Idle, TasksSound
<1>3. store \in StoreData /\ pruned \in StoreData
  BY <1>1, <1>2, PruneType DEF TypeOK
<1>4. request.event_id \in EventIds /\ request.channel_id \in Channels
  BY <1>2, StoreAssumption DEF RequestRecord
<1>5. Current \in SUBSET Acceptance
  BY <1>1 DEF TypeOK, Current
<1>6. Ledger(pruned, Current, now)
  BY <1>2, <1>5, PruneLedger DEF IInv
<1>7. pruned.next_sequence_by_channel = store.next_sequence_by_channel
  BY <1>2, <1>3, PruneMaps
<1>8. \A c \in Channels : store.next_sequence_by_channel[c] \in Nat
  BY <1>3 DEF StoreData
<1>9. CASE store' = pruned /\ UNCHANGED issued
  BY <1>1, <1>7, <1>8, <1>9 DEF Current
<1>10. CASE ExactRepeat(pruned, request) /\ store' = pruned /\ Accepted(h, request, old.receipt)
  <2>1. old # NoEvent /\ old.request = request
    BY <1>10 DEF ExactRepeat, Known
  <2>2. old \in pruned.events_by_channel[request.channel_id]
    BY <2>1, <1>4, <1>6 DEF Ledger, Indexed
  <2>3. PICK i \in Current : Entry(i) = old
    BY <2>2, <1>4, <1>6 DEF Ledger, StoredAcknowledged
  <2>4. i.request = request /\ i.receipt = old.receipt /\ i.life = life /\ i \in issued
    BY <2>1, <2>3 DEF Entry, Current
  <2>5. i = [life |-> life, request |-> request, receipt |-> old.receipt]
    BY <2>4, <1>5 DEF Acceptance
  <2>6. UNCHANGED issued
    <3>1. issued' = issued \cup {[life |-> life, request |-> request, receipt |-> old.receipt]}
      BY <1>10 DEF Accepted
    <3> QED
      BY <3>1, <2>4, <2>5
  <2> QED
    BY <2>6, <1>9, <1>10
<1>11. CASE store' = Insert(pruned, request, receipt) /\ Accepted(h, request, receipt)
  <2> DEFINE new == [life |-> life, request |-> request, receipt |-> receipt]
  <2>1. issued' = issued \cup {new} /\ new.request = request /\ new.receipt = receipt
    BY <1>11 DEF Accepted
  <2>2. receipt.sequence = store.next_sequence_by_channel[request.channel_id] + 1
    BY <1>7 DEF NewReceipt
  <2>3. \A c \in Channels : store'.next_sequence_by_channel[c] =
          IF c = request.channel_id THEN receipt.sequence ELSE store.next_sequence_by_channel[c]
    BY <1>3, <1>7, <1>11 DEF Insert, StoreData
  <2> HIDE DEF new, receipt, request, pruned
  <2>4. \A i \in Current' : i \notin Current => i = new
    BY <2>1, <1>1 DEF Current
  <2> QED
    BY <2>1, <2>2, <2>3, <2>4, <1>4, <1>8
<1> QED
  BY <1>9, <1>10, <1>11 DEF Accept, Refused

(* A listing holds everything live between the reader's cursor and its     *)
(* last event; what is not beyond the cursor has been received.            *)
LEMMA ListActiveReader ==
  ASSUME IInv, IInv', ReaderInv, NEW h \in Handlers, ListActive(h), UNCHANGED reader
  PROVE  ReaderInv'
<1> DEFINE c == task[h].channel
<1>1. TypeOK /\ task[h].kind = "list" /\ UNCHANGED <<now, life, issued, cursor, received>>
  BY DEF IInv, ListActive, reader
<1>2. /\ task' = [task EXCEPT ![h] = Idle]
      /\ \A g \in Handlers : g # h => reply'[g] = reply[g]
      /\ c \in Channels /\ task[h].after \in Nat /\ task[h].at \in Nat
  BY <1>1 DEF TypeOK, Tasks, Idle, ListActive, Answer
<1>3. store'.next_sequence_by_channel = store.next_sequence_by_channel
  BY <1>1, <1>2, PruneMaps DEF TypeOK, ListActive
<1>4. Current' = Current
  BY <1>1 DEF Current
<1>5. ListsFromCursor'
  BY <1>1, <1>2 DEF TypeOK, ReaderInv, ListsFromCursor, Idle
<1>6. \A e \in reply'[h].events :
        /\ e.request.channel_id = c
        /\ \E i \in Current : e.receipt = i.receipt /\ e.request = i.request
  BY ListingContents DEF ActiveAt, Entry
<1>7. \A e \in reply'[h].events :
        e.receipt.sequence <= store.next_sequence_by_channel[e.request.channel_id]
  BY <1>6 DEF IInv, Ledger, CountersDominate
<1>8. RepliesNumbered'
  BY <1>2, <1>3, <1>7 DEF ReaderInv, RepliesNumbered
<1>9. ASSUME life = 0
      PROVE  (CursorsNumbered /\ RepliesComplete /\ CursorMissesNothing)'
  <2>1. CursorsNumbered /\ RepliesComplete /\ CursorMissesNothing
    BY <1>9 DEF ReaderInv
  <2>2. CursorsNumbered' /\ CursorMissesNothing'
    BY <2>1, <1>1, <1>3, <1>4 DEF CursorsNumbered, CursorMissesNothing
  <2>3. ASSUME NEW e \in reply'[h].events, NEW i \in Current,
               i.request.channel_id = e.request.channel_id,
               i.receipt.expires_at > now
        PROVE  Entry(i) \in reply'[h].events \cup received
    <3>1. i.request.channel_id = c /\ i.receipt.sequence \in Nat
      BY <2>3, <1>1, <1>6 DEF TypeOK, Current, Acceptance, AcceptedEvent
    <3>2. CASE i.receipt.sequence > task[h].after
      BY <2>3, <3>1, <3>2, ListingContents DEF ActiveAt
    <3>3. CASE i.receipt.sequence <= task[h].after
      <4>1. task[h].after <= cursor[c] /\ cursor[c] \in Nat
        BY <1>1, <1>2 DEF ReaderInv, ListsFromCursor
      <4>2. i.receipt.sequence <= cursor[i.request.channel_id]
        BY <4>1, <3>1, <3>3, <1>2
      <4> QED
        BY <4>2, <2>1, <2>3 DEF CursorMissesNothing
    <3> QED
      BY <3>1, <3>2, <3>3, <1>2
  <2>4. RepliesComplete'
    BY <2>1, <2>3, <1>1, <1>2, <1>4 DEF RepliesComplete, Entry
  <2> QED
    BY <2>2, <2>4
<1> QED
  BY <1>1, <1>5, <1>8, <1>9 DEF ReaderInv

(* Every step of relay and reader keeps both invariants.                   *)
LEMMA ReaderNextInv == IInv /\ ReaderInv /\ [ReaderNext]_readerVars => (IInv /\ ReaderInv)'
<1> SUFFICES ASSUME IInv, ReaderInv, [ReaderNext]_readerVars PROVE (IInv /\ ReaderInv)'
  OBVIOUS
<1>1. TypeOK /\ cursor \in [Channels -> Nat] /\ now \in Nat
  BY DEF IInv, ReaderInv, TypeOK
<1>2. ASSUME NEW h \in Handlers, NEW channel \in Channels, Poll(h, channel)
      PROVE  (IInv /\ ReaderInv)'
  <2>1. ListEvents(h, channel, cursor[channel]) /\ UNCHANGED <<cursor, received>>
    BY <1>2 DEF Poll, reader
  <2>2. IInv'
    BY <2>1, <1>1, ListEventsStep
  <2>3. /\ UNCHANGED <<store, now, life, issued>>
        /\ task' = [task EXCEPT ![h] =
             [kind |-> "list", channel |-> channel, after |-> cursor[channel], at |-> now]]
        /\ reply' = [reply EXCEPT ![h] = NoReply]
    BY <2>1 DEF ListEvents
  <2>4. ListsFromCursor'
    BY <2>1, <2>3, <1>1 DEF TypeOK, ReaderInv, ListsFromCursor
  <2>5. Current' = Current /\ \A g \in Handlers : reply'[g].kind = "events" => reply'[g] = reply[g]
    BY <2>3, <1>1 DEF Current, TypeOK, NoReply
  <2>6. RepliesNumbered' /\ (life = 0 => (CursorsNumbered /\ RepliesComplete /\ CursorMissesNothing)')
    BY <2>1, <2>3, <2>5 DEF ReaderInv, RepliesNumbered, CursorsNumbered, RepliesComplete,
       CursorMissesNothing
  <2> QED
    BY <2>1, <2>2, <2>3, <2>4, <2>6, <1>1 DEF ReaderInv
<1>3. ASSUME NEW h \in Handlers, Receive(h)
      PROVE  (IInv /\ ReaderInv)'
  <2>1. UNCHANGED vars
    BY <1>3 DEF Receive
  <2> QED
    BY <2>1, <1>3, ReceiveStep, NextIInv
<1>4. ASSUME NEW h \in Handlers, NEW request \in Requests, SubmitEvent(h, request),
             UNCHANGED reader
      PROVE  (IInv /\ ReaderInv)'
  <2>1. IInv'
    BY <1>4, NextIInv DEF Next
  <2>2. UNCHANGED <<store, now, life, issued>> /\ Current' = Current
    BY <1>4 DEF SubmitEvent, Current
  <2>3. /\ \A g \in Handlers : task'[g] = task[g] \/ task'[g].kind # "list"
        /\ \A g \in Handlers : reply'[g] = reply[g] \/ reply'[g].kind # "events"
    BY <1>4, <1>1 DEF SubmitEvent, TypeOK, NoReply
  <2>4. \A c \in Channels : store.next_sequence_by_channel[c] \in Nat
    BY <1>1 DEF TypeOK, StoreData
  <2> QED
    BY <2>1, <2>2, <2>3, <2>4, <1>1, <1>4, QuietStep
<1>5. ASSUME NEW h \in Handlers, Accept(h), UNCHANGED reader
      PROVE  (IInv /\ ReaderInv)'
  <2>1. IInv'
    BY <1>5, AcceptStep
  <2>2. UNCHANGED <<now, life>>
    BY <1>5 DEF Accept
  <2>3. /\ \A g \in Handlers : task'[g] = task[g] \/ task'[g].kind # "list"
        /\ \A g \in Handlers : reply'[g] = reply[g] \/ reply'[g].kind # "events"
    <3>1. ASSUME NEW response, Answer(h, response), response.kind # "events"
          PROVE  /\ \A g \in Handlers : task'[g] = task[g] \/ task'[g].kind # "list"
                 /\ \A g \in Handlers : reply'[g] = reply[g] \/ reply'[g].kind # "events"
      BY <3>1, <1>1 DEF Answer, TypeOK, Idle
    <3> QED
      BY <3>1, <1>5 DEF Accept, Accepted, Refused
  <2> QED
    BY <2>1, <2>2, <2>3, <1>1, <1>5, AcceptNumbers, QuietStep
<1>6. ASSUME NEW h \in Handlers, ListActive(h), UNCHANGED reader
      PROVE  (IInv /\ ReaderInv)'
  BY <1>6, ListStep, ListActiveReader
<1>7. CASE ((\E h \in Handlers : Disconnect(h)) \/ Tick) /\ UNCHANGED reader
  <2>1. IInv'
    BY <1>7, NextIInv DEF Next
  <2>2. /\ UNCHANGED <<store, life, reply, issued>>
        /\ Current' = Current
        /\ now' \in {now, now + 1}
        /\ \A g \in Handlers : task'[g] = task[g] \/ task'[g].kind # "list"
    BY <1>7, <1>1 DEF Disconnect, Tick, Current, TypeOK, Idle
  <2>3. \A c \in Channels : store.next_sequence_by_channel[c] \in Nat
    BY <1>1 DEF TypeOK, StoreData
  <2> QED
    BY <2>1, <2>2, <2>3, <1>1, <1>7, QuietStep
<1>8. CASE Restart /\ UNCHANGED reader
  <2>1. IInv'
    BY <1>8, RestartStep
  <2>2. /\ life' = life + 1 /\ life \in Nat
        /\ task' = [h \in Handlers |-> Idle]
        /\ reply' = [h \in Handlers |-> NoReply]
        /\ UNCHANGED cursor
    BY <1>8, <1>1 DEF Restart, reader, TypeOK
  <2>3. ListsFromCursor' /\ RepliesNumbered'
    BY <2>2 DEF ListsFromCursor, RepliesNumbered, Idle, NoReply
  <2> QED
    BY <2>1, <2>2, <2>3, <1>1 DEF ReaderInv
<1>9. CASE UNCHANGED readerVars
  <2>1. UNCHANGED vars /\ UNCHANGED <<store, now, life, task, reply, issued, cursor, received>>
    BY <1>9 DEF readerVars, reader, vars
  <2>2. IInv'
    BY <2>1, NextIInv
  <2>3. Current' = Current
    BY <2>1 DEF Current
  <2> QED
    BY <2>1, <2>2, <2>3 DEF ReaderInv, ListsFromCursor, RepliesNumbered, CursorsNumbered,
       RepliesComplete, CursorMissesNothing
<1> QED
  BY <1>2, <1>3, <1>4, <1>5, <1>6, <1>7, <1>8, <1>9 DEF ReaderNext

(* Both invariants hold at the start.                                      *)
LEMMA ReaderInitInv == ReaderInit => IInv /\ ReaderInv
<1> SUFFICES ASSUME ReaderInit PROVE IInv /\ ReaderInv
  OBVIOUS
<1>1. IInv
  BY InitIInv DEF ReaderInit
<1>2. /\ task = [h \in Handlers |-> Idle]
      /\ reply = [h \in Handlers |-> NoReply]
      /\ cursor = [c \in Channels |-> 0]
      /\ issued = {}
      /\ store.next_sequence_by_channel = [c \in Channels |-> 0]
  BY DEF ReaderInit, Init, EmptyStore
<1>3. ListsFromCursor /\ RepliesNumbered /\ CursorsNumbered /\ RepliesComplete
  BY <1>2 DEF ListsFromCursor, RepliesNumbered, CursorsNumbered, RepliesComplete, Idle, NoReply
<1>4. CursorMissesNothing
  BY <1>2 DEF CursorMissesNothing, Current
<1> QED
  BY <1>1, <1>2, <1>3, <1>4 DEF ReaderInv

(* A reader that resumes from its cursor misses no live event, whatever    *)
(* responses it loses, takes up late or takes up twice, as long as the     *)
(* relay is not restarted.                                                 *)
THEOREM CursorComplete == ReaderSpec => []CursorMissesNothingInOneLife
<1>1. ReaderInv => CursorMissesNothingInOneLife
  BY DEF ReaderInv, CursorMissesNothingInOneLife
<1> QED
  BY <1>1, ReaderInitInv, ReaderNextInv, PTL DEF ReaderSpec
=============================================================================
