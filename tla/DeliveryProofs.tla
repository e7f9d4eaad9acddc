--------------------------- MODULE DeliveryProofs ---------------------------
(***************************************************************************)
(* Proofs about Delivery for every set of senders, every listing limit and *)
(* every number of disturbances: the outbox is complete, a flush owns the  *)
(* vault, and the send path implements OrderedOutbox.                      *)
(*                                                                         *)
(* The argument.  What a flush has still to look at leaves no row of an    *)
(* unblocked device's sender out (ItemsComplete), so the row it submits is *)
(* the first one of its sender, and every request that has ever been sent  *)
(* follows what was delivered without a gap (Due), strays included.  The   *)
(* relay's acceptance of any of them is then one Deliver step or none.     *)
(*                                                                         *)
(* At the end: what the relay refuses a row for (OnlyExpiredRefused).      *)
(***************************************************************************)
EXTENDS Delivery, FiniteSetTheorems, WellFoundedInduction, TLAPS

(* The commands pause the worker before they drain it and close the vault. *)
CommandsPause ==
  /\ command \in {"drain", "close"} => ~enabled
  /\ command = "close" => phase = "idle"

(* The values of command.                                                  *)
CommandStates == {"none", "drain", "close", "resume", "send"}

(* Rows are told apart by their rowid, and by their event.                 *)
RowsDistinct ==
  /\ IsFiniteSet(outbox)
  /\ \A row \in outbox : row.request.event_id \in used
  /\ \A r, t \in outbox :
       r.rowid = t.rowid \/ r.request.event_id = t.request.event_id => r = t

(* An event is acknowledged after it was delivered, delivered after it was *)
(* committed; the relay holds only what has been delivered.                *)
CountersOrdered ==
  /\ \A s \in Senders : confirmed[s] <= delivered[s] /\ delivered[s] <= snapshot[s]
  /\ \A e \in EventIds : store.events_by_id[e] # NoEvent =>
       LET request == store.events_by_id[e].request IN
       request.sender_counter <= delivered[Sender(request)]

(* A request whose acceptance leaves no gap.                               *)
Due(request) ==
  /\ request.sender_counter <= delivered[Sender(request)] + 1
  /\ request.sender_counter <= snapshot[Sender(request)]

(* The call is about the sender's first row, which is still there.         *)
CallsInOrder ==
  /\ call = NoCall <=> phase \in {"idle", "loop"}
  /\ call # NoCall =>
       /\ Due(call.request)
       /\ call.request.sender_counter = confirmed[Sender(call.request)] + 1
       /\ call.request.sender_device_id \notin blocked
       /\ \E row \in outbox : row.request = call.request /\ row \notin items
       /\ call.state = "accepted" =>
            call.request.sender_counter <= delivered[Sender(call.request)]
  /\ phase = "acknowledge" => call.state = "accepted" /\ ValidReceipt(call.request, call.receipt)

(* The rows a flush has still to look at leave no row of their sender out, *)
(* but for the one that is being sent, unless the device is blocked.       *)
ItemsComplete ==
  \A item \in items : Device(item) \notin blocked =>
    \A row \in outbox :
      Sender(row.request) = Sender(item.request) /\ row.rowid < item.rowid =>
        row \in items \/ (call # NoCall /\ row.request = call.request)

DInv ==
  /\ TypeOK
  /\ CommandsPause
  /\ FlushOwnsVault
  /\ RowsDistinct
  /\ OutboxComplete
  /\ CountersOrdered
  /\ \A request \in stray : Due(request)
  /\ CallsInOrder
  /\ ItemsComplete

-----------------------------------------------------------------------------
(* What a request's fields are.                                            *)
LEMMA RequestFields ==
  ASSUME NEW request \in Requests
  PROVE  /\ Sender(request) \in Senders
         /\ Sender(request)[2] = request.sender_device_id
         /\ request.sender_counter \in Nat
         /\ request.event_id \in EventIds
         /\ request.sender_device_id \in Devices
BY StoreAssumption DEF RequestRecord, Sender, Senders

(* A row's request and number.                                             *)
LEMMA RowFields ==
  ASSUME NEW row \in Row
  PROVE  row.rowid \in Nat /\ row.request \in Requests
BY DeliveryAssumption DEF Row

(* A call that is under way has a request.                                 *)
LEMMA CallFields ==
  ASSUME call \in Calls, call # NoCall
  PROVE  /\ call.request \in Requests
         /\ call.state \in {"sent", "refused", "accepted"}
         /\ call.state = "accepted" => call.receipt \in AcceptedEvent
BY DEF Calls, NoCall

(* A set of numbers has a smallest one.                                    *)
LEMMA MinExists ==
  ASSUME NEW T, T \subseteq Nat, T # {}
  PROVE  \E n \in T : \A k \in T : n <= k
<1> DEFINE R == OpToRel(<, Nat)
<1>1. PICK n \in T : \A k \in T : ~ (<<k, n>> \in R)
  <2>1. IsWellFoundedOn(R, Nat)
    BY NatLessThanWellFounded, Zenon
  <2> HIDE DEF R
  <2> QED
    BY <2>1, WFMin
<1>2. \A k \in T : ~(k < n)
  BY <1>1 DEF OpToRel
<1> QED
  BY <1>2

(* The rows to look at have a first one.                                   *)
LEMMA FirstItemIsFirst ==
  ASSUME items \in SUBSET Row, items # {}
  PROVE  FirstItem \in items /\ \A row \in items : FirstItem.rowid <= row.rowid
<1> DEFINE T == {row.rowid : row \in items}
<1>1. T \subseteq Nat /\ T # {}
  BY RowFields
<1>2. \E n \in T : \A k \in T : n <= k
  <2> HIDE DEF T
  <2> QED
    BY <1>1, MinExists
<1>3. \E row \in items : \A r \in items : row.rowid <= r.rowid
  BY <1>2
<1> QED
  BY <1>3 DEF FirstItem

(* list_all_mls_outbox returns a prefix of the outbox by rowid.            *)
LEMMA ListingIsPrefix ==
  ASSUME TypeOK, RowsDistinct, NEW item \in ListAllMlsOutbox,
         NEW row \in outbox, row.rowid < item.rowid
  PROVE  row \in ListAllMlsOutbox
<1> DEFINE Upto(r) == {t \in outbox : t.rowid <= r.rowid}
<1>1. item \in outbox /\ Cardinality(Upto(item)) <= OutboxLimit
  BY DEF ListAllMlsOutbox
<1>2. \A t \in outbox : t.rowid \in Nat
  BY RowFields DEF TypeOK
<1>3. Upto(row) \subseteq Upto(item) /\ Upto(item) \subseteq outbox
  BY <1>1, <1>2
<1> HIDE DEF Upto
<1>4. IsFiniteSet(Upto(item))
  BY <1>3, FS_Subset DEF RowsDistinct
<1>5. Cardinality(Upto(row)) <= Cardinality(Upto(item)) /\ IsFiniteSet(Upto(row))
  BY <1>3, <1>4, FS_Subset
<1>6. Cardinality(Upto(row)) \in Nat /\ Cardinality(Upto(item)) \in Nat
  BY <1>4, <1>5, FS_CardinalityType
<1>7. Cardinality(Upto(row)) <= OutboxLimit
  BY <1>1, <1>5, <1>6, DeliveryAssumption
<1> QED
  BY <1>7 DEF ListAllMlsOutbox, Upto

(* The invariant holds at the start.                                       *)
LEMMA InitDInv == Init => DInv
<1> SUFFICES ASSUME Init PROVE DInv
  OBVIOUS
<1>1. EmptyStore \in StoreData /\ \A e \in EventIds : EmptyStore.events_by_id[e] = NoEvent
  BY DEF EmptyStore, StoreData
<1>2. TypeOK
  BY <1>1 DEF Init, TypeOK, Calls
<1>3. CommandsPause /\ FlushOwnsVault /\ CallsInOrder /\ ItemsComplete
  BY DEF Init, CommandsPause, FlushOwnsVault, CallsInOrder, ItemsComplete
<1>4. RowsDistinct
  BY FS_EmptySet DEF Init, RowsDistinct
<1>5. OutboxComplete
  BY DEF Init, OutboxComplete, RowsOf
<1>6. CountersOrdered
  BY <1>1 DEF Init, CountersOrdered
<1> QED
  BY <1>2, <1>3, <1>4, <1>5, <1>6 DEF Init, DInv

-----------------------------------------------------------------------------
(* vault_queue_message: the new row comes last and continues its sender's  *)
(* counters.                                                               *)
LEMMA QueueStep ==
  ASSUME DInv, NEW channel \in Channels, NEW device \in Devices, NEW body \in Bodies,
         QueueMessage(channel, device, body)
  PROVE  DInv' /\ Ordered!Queue(<<channel, device>>)
<1> DEFINE s == <<channel, device>>
           counter == snapshot[s] + 1
           request == Submission(channel, device, counter, NewEventId, body)
<1>1. TypeOK /\ s \in Senders
  BY DEF DInv, Senders
<1>2. /\ request \in Requests
      /\ used' = used \cup {NewEventId}
      /\ StoreMlsTransaction(request)
      /\ UNCHANGED <<open, command, enabled, changed, phase, items, blocked, call, stray, store,
                     now,
                     delivered, accepted, confirmed, disturbances>>
  BY DEF QueueMessage, process, worker, network, relay
<1>3. NewEventId \in EventIds /\ NewEventId \notin used
  <2>1. \E id \in EventIds \ used : TRUE
    BY <1>1 DEF QueueMessage, TypeOK
  <2> QED
    BY <2>1 DEF NewEventId
<1>4. /\ request.event_id = NewEventId
      /\ request.sender_counter = snapshot[s] + 1
      /\ Sender(request) = s
  BY DEF Submission, Sender
<1>5. PICK n \in 1 .. MaxRowid : /\ IsNextRowid(n)
                                 /\ outbox' = outbox \cup {[rowid |-> n, request |-> request]}
  BY <1>2 DEF StoreMlsTransaction
<1>6. snapshot' = [snapshot EXCEPT ![s] = snapshot[s] + 1]
  BY <1>2, <1>4 DEF StoreMlsTransaction
<1> DEFINE new == [rowid |-> n, request |-> request]
<1> HIDE DEF request, s
<1>7. /\ outbox' = outbox \cup {new}
      /\ new.rowid = n /\ new.request = request
      /\ new \in Row
      /\ \A row \in outbox : row.rowid < n
  BY <1>2, <1>5 DEF Row, IsNextRowid
<1>8. \A t \in Senders : /\ snapshot[t] \in Nat
                         /\ delivered[t] \in Nat /\ confirmed[t] \in Nat
                         /\ snapshot'[t] = IF t = s THEN snapshot[t] + 1 ELSE snapshot[t]
  BY <1>1, <1>6 DEF TypeOK
<1>9. \A row \in outbox : /\ row \in Row /\ row.rowid \in Nat
                          /\ Sender(row.request) \in Senders
                          /\ row.request.sender_counter \in Nat
  BY <1>1, RowFields, RequestFields DEF TypeOK
<1> HIDE DEF new
<1>10. TypeOK'
  BY <1>1, <1>2, <1>3, <1>6, <1>7 DEF TypeOK
<1>11. RowsDistinct'
  <2>1. IsFiniteSet(outbox')
    BY <1>7, FS_AddElement DEF DInv, RowsDistinct
  <2>2. \A row \in outbox : /\ row.request.event_id \in used
                            /\ row.request.event_id # NewEventId
                            /\ row.rowid # n
    BY <1>3, <1>7, <1>9 DEF DInv, RowsDistinct
  <2> QED
    BY <2>1, <2>2, <1>2, <1>4, <1>7 DEF DInv, RowsDistinct
<1>12. OutboxComplete'
  <2> SUFFICES ASSUME NEW t \in Senders
               PROVE  /\ {row.request.sender_counter : row \in RowsOf(t)'}
                           = (confirmed[t] + 1) .. snapshot'[t]
                      /\ \A q, r \in RowsOf(t)' :
                           q.rowid < r.rowid <=>
                             q.request.sender_counter < r.request.sender_counter
    BY <1>2 DEF OutboxComplete
  <2>1. /\ {row.request.sender_counter : row \in RowsOf(t)} = (confirmed[t] + 1) .. snapshot[t]
        /\ \A q, r \in RowsOf(t) :
             q.rowid < r.rowid <=> q.request.sender_counter < r.request.sender_counter
        /\ confirmed[t] <= snapshot[t]
    BY <1>8 DEF DInv, OutboxComplete, CountersOrdered
  <2>2. CASE t # s
    <3>1. RowsOf(t)' = RowsOf(t)
      BY <2>2, <1>4, <1>7 DEF RowsOf
    <3> QED
      BY <3>1, <2>1, <2>2, <1>8
  <2>3. CASE t = s
    <3>1. RowsOf(t)' = RowsOf(t) \cup {new}
      BY <2>3, <1>4, <1>7 DEF RowsOf
    <3>2. \A row \in RowsOf(t) :
            /\ row.request.sender_counter \in (confirmed[t] + 1) .. snapshot[t]
            /\ row.rowid \in Nat /\ row.rowid < n
      BY <2>1, <1>7, <1>9 DEF RowsOf
    <3>3. new.request.sender_counter = snapshot[t] + 1 /\ new.rowid = n
      BY <2>3, <1>4, <1>7
    <3>4. {row.request.sender_counter : row \in RowsOf(t)'}
            = ((confirmed[t] + 1) .. snapshot[t]) \cup {snapshot[t] + 1}
      BY <3>1, <3>3, <2>1
    <3>5. ((confirmed[t] + 1) .. snapshot[t]) \cup {snapshot[t] + 1}
            = (confirmed[t] + 1) .. (snapshot[t] + 1)
      BY <2>1, <1>8
    <3>6. \A q, r \in RowsOf(t)' :
            q.rowid < r.rowid <=> q.request.sender_counter < r.request.sender_counter
      BY <3>1, <3>2, <3>3, <2>1, <1>8
    <3> QED
      BY <3>4, <3>5, <3>6, <2>3, <1>8
  <2> QED
    BY <2>2, <2>3
<1>13. CountersOrdered'
  BY <1>2, <1>8 DEF DInv, CountersOrdered
<1>14. \A r \in Requests : Due(r) => Due(r)'
  BY <1>1, <1>2, <1>8, RequestFields DEF Due
<1>15. \A r \in stray' : Due(r)'
  BY <1>1, <1>2, <1>14 DEF DInv, TypeOK
<1>16. CallsInOrder'
  BY <1>1, <1>2, <1>7, <1>14, CallFields DEF DInv, CallsInOrder, TypeOK
<1>17. ItemsComplete'
  <2>1. \A item \in items : item \in outbox /\ item.rowid \in Nat /\ ~(n < item.rowid)
    BY <1>1, <1>7, <1>9 DEF TypeOK
  <2> QED
    BY <2>1, <1>2, <1>7 DEF DInv, ItemsComplete
<1>18. CommandsPause' /\ FlushOwnsVault'
  BY <1>2 DEF DInv, CommandsPause, FlushOwnsVault
<1>19. Ordered!Queue(s)
  BY <1>2, <1>6 DEF Ordered!Queue
<1> QED
  BY <1>10, <1>11, <1>12, <1>13, <1>15, <1>16, <1>17, <1>18, <1>19 DEF DInv, s
-----------------------------------------------------------------------------
(***************************************************************************)
(* The flush.                                                              *)
(***************************************************************************)
(* The parts of the invariant that only the vault and the relay disturb.   *)
LEMMA VaultUnchanged ==
  ASSUME DInv, UNCHANGED <<outbox, snapshot, store, used, delivered, confirmed>>
  PROVE  RowsDistinct' /\ OutboxComplete' /\ CountersOrdered' /\ \A r : Due(r)' <=> Due(r)
<1>1. RowsDistinct' /\ CountersOrdered'
  BY DEF DInv, RowsDistinct, CountersOrdered
<1>2. OutboxComplete'
  BY DEF DInv, OutboxComplete, RowsOf
<1> QED
  BY <1>1, <1>2 DEF Due

(* A flush starts with a prefix of the outbox.                             *)
LEMMA FlushStartStep ==
  ASSUME DInv, FlushStart
  PROVE  DInv' /\ UNCHANGED <<snapshot, delivered, confirmed>>
<1>1. /\ TypeOK /\ phase = "idle" /\ enabled /\ open
      /\ phase' = "loop" /\ items' = ListAllMlsOutbox /\ blocked' = {}
      /\ UNCHANGED <<outbox, snapshot, open, command, enabled, changed, call, stray, store, now,
                     delivered, accepted, used, confirmed, disturbances>>
  BY DEF DInv, FlushStart, disk, process, network, relay
<1>2. ListAllMlsOutbox \subseteq outbox
  BY DEF ListAllMlsOutbox
<1>3. TypeOK'
  BY <1>1, <1>2 DEF TypeOK
<1>4. CommandsPause' /\ FlushOwnsVault' /\ CallsInOrder'
  BY <1>1 DEF DInv, CommandsPause, FlushOwnsVault, CallsInOrder
<1>5. ItemsComplete'
  BY <1>1, <1>2, ListingIsPrefix DEF DInv, ItemsComplete
<1> QED
  BY <1>1, <1>3, <1>4, <1>5, VaultUnchanged DEF DInv

(* A flush ends, with or without a call that it abandons.                  *)
LEMMA FinishStep ==
  ASSUME DInv, Finish, call' = NoCall,
         \/ UNCHANGED stray
         \/ call # NoCall /\ stray' = stray \cup {call.request},
         open' \in BOOLEAN, enabled' \in BOOLEAN, command' \in CommandStates,
         CommandsPause', disturbances' \in Nat,
         UNCHANGED <<outbox, snapshot, store, now, delivered, accepted, used, confirmed>>
  PROVE  DInv'
<1>1. TypeOK /\ phase' = "idle" /\ items' = {} /\ blocked' = {} /\ changed' = FALSE
  BY DEF DInv, Finish
<1>2. stray' \subseteq Requests /\ \A r \in stray' : Due(r)'
  BY <1>1, CallFields, VaultUnchanged DEF DInv, TypeOK, CallsInOrder
<1>3. TypeOK'
  BY <1>1, <1>2 DEF TypeOK, CommandStates, Calls
<1>4. FlushOwnsVault' /\ CallsInOrder' /\ ItemsComplete'
  BY <1>1 DEF FlushOwnsVault, CallsInOrder, ItemsComplete
<1> QED
  BY <1>2, <1>3, <1>4, VaultUnchanged DEF DInv

(* The loop is over, or the worker has been disabled.                      *)
LEMMA FlushEndStep ==
  ASSUME DInv, FlushEnd \/ Cancel
  PROVE  DInv' /\ UNCHANGED <<snapshot, delivered, confirmed>>
<1>1. /\ Finish
      /\ UNCHANGED <<outbox, snapshot, open, command, enabled, store, now, delivered, accepted,
                     used,
                     confirmed, disturbances>>
  BY DEF FlushEnd, Cancel, disk, process, relay
<1>2. /\ call' = NoCall
      /\ \/ UNCHANGED stray
         \/ call # NoCall /\ stray' = stray \cup {call.request}
  BY DEF DInv, CallsInOrder, FlushEnd, Cancel, Abandon, NoCall, network
<1>3. CommandsPause' /\ TypeOK
  BY <1>1 DEF DInv, CommandsPause, Finish
<1> QED
  BY <1>1, <1>2, <1>3, FinishStep DEF TypeOK, CommandStates

(* A row of a blocked device is passed over.                               *)
LEMMA SkipBlockedStep ==
  ASSUME DInv, SkipBlocked
  PROVE  DInv' /\ UNCHANGED <<snapshot, delivered, confirmed>>
<1>1. /\ TypeOK /\ phase = "loop" /\ Device(FirstItem) \in blocked
      /\ items' = items \ {FirstItem} /\ items # {}
      /\ UNCHANGED <<outbox, snapshot, open, command, enabled, changed, phase, blocked, call,
                     stray,
                     store, now, delivered, accepted, used, confirmed, disturbances>>
  BY DEF DInv, SkipBlocked, disk, process, network, relay
<1>2. TypeOK'
  BY <1>1 DEF TypeOK
<1>3. CommandsPause' /\ FlushOwnsVault'
  BY <1>1 DEF DInv, CommandsPause, FlushOwnsVault
<1>4. CallsInOrder'
  BY <1>1 DEF DInv, CallsInOrder
<1>5. \A item, row \in Row : Sender(row.request) = Sender(item.request) => Device(row) = Device(item)
  BY RowFields, RequestFields DEF Device
<1>6. ItemsComplete'
  BY <1>1, <1>5 DEF DInv, ItemsComplete, TypeOK
<1> QED
  BY <1>1, <1>2, <1>3, <1>4, <1>6, VaultUnchanged DEF DInv

(* The row that is submitted is its sender's first.                        *)
LEMMA SubmitsFirst ==
  ASSUME DInv, phase = "loop", items # {}, Device(FirstItem) \notin blocked
  PROVE  LET request == FirstItem.request IN
         /\ FirstItem \in outbox
         /\ request \in Requests
         /\ request.sender_counter = confirmed[Sender(request)] + 1
         /\ Due(request)
<1> DEFINE request == FirstItem.request
           s == Sender(request)
<1>1. TypeOK /\ call = NoCall /\ items \subseteq outbox
  BY DEF DInv, CallsInOrder, TypeOK
<1>2. FirstItem \in items /\ \A row \in items : FirstItem.rowid <= row.rowid
  BY <1>1, FirstItemIsFirst DEF TypeOK
<1>3. FirstItem \in Row /\ FirstItem \in outbox
  BY <1>1, <1>2 DEF TypeOK
<1>4. request \in Requests /\ s \in Senders /\ request.sender_counter \in Nat
  BY <1>3, RowFields, RequestFields
<1>5. confirmed[s] \in Nat /\ delivered[s] \in Nat /\ snapshot[s] \in Nat
  BY <1>1, <1>4 DEF TypeOK
<1> HIDE DEF request, s
<1>6. \A row \in outbox : Sender(row.request) = s => ~(row.rowid < FirstItem.rowid)
  <2> SUFFICES ASSUME NEW row \in outbox, Sender(row.request) = s, row.rowid < FirstItem.rowid
               PROVE  FALSE
    OBVIOUS
  <2>1. row \in items
    BY <1>1, <1>2 DEF DInv, ItemsComplete, s, request
  <2>2. row.rowid \in Nat /\ FirstItem.rowid \in Nat
    BY <1>1, <1>3, RowFields DEF TypeOK
  <2> QED
    BY <2>1, <2>2, <1>2
<1>7. /\ {row.request.sender_counter : row \in RowsOf(s)} = (confirmed[s] + 1) .. snapshot[s]
      /\ \A r, t \in RowsOf(s) :
           r.rowid < t.rowid <=> r.request.sender_counter < t.request.sender_counter
  BY <1>4 DEF DInv, OutboxComplete
<1>8. FirstItem \in RowsOf(s)
  BY <1>3 DEF RowsOf, s, request
<1>9. request.sender_counter \in (confirmed[s] + 1) .. snapshot[s]
  BY <1>7, <1>8 DEF request
<1>10. PICK row \in RowsOf(s) : row.request.sender_counter = confirmed[s] + 1
  BY <1>5, <1>7, <1>9
<1>11. ~(row.request.sender_counter < request.sender_counter)
  BY <1>6, <1>7, <1>8, <1>10 DEF RowsOf, request
<1>12. request.sender_counter = confirmed[s] + 1 /\ request.sender_counter <= snapshot[s]
  BY <1>5, <1>9, <1>10, <1>11
<1>13. confirmed[s] <= delivered[s]
  BY <1>4 DEF DInv, CountersOrdered
<1>14. Due(request)
  BY <1>5, <1>12, <1>13 DEF Due, s
<1> QED
  BY <1>3, <1>4, <1>12, <1>14 DEF request, s

(* The row is sent, and from now on its sender's later rows wait for it.   *)
LEMMA SubmitStep ==
  ASSUME DInv, Submit
  PROVE  DInv' /\ UNCHANGED <<snapshot, delivered, confirmed>>
<1> DEFINE request == FirstItem.request
<1>1. /\ TypeOK /\ phase = "loop" /\ items # {} /\ Device(FirstItem) \notin blocked
      /\ phase' = "wait" /\ items' = items \ {FirstItem}
      /\ call' = [state |-> "sent", request |-> request]
      /\ UNCHANGED <<outbox, snapshot, open, command, enabled, changed, blocked, stray, store,
                     now,
                     delivered, accepted, used, confirmed, disturbances>>
  BY DEF DInv, Submit, disk, process, relay
<1>2. /\ FirstItem \in outbox
      /\ request \in Requests
      /\ request.sender_counter = confirmed[Sender(request)] + 1
      /\ Due(request)
  BY <1>1, SubmitsFirst
<1>3. request.sender_device_id \notin blocked
  BY <1>1 DEF Device
<1> HIDE DEF request
<1>4. call' \in Calls /\ call' # NoCall /\ call'.request = request /\ call'.state = "sent"
  BY <1>1, <1>2 DEF Calls, NoCall
<1>5. TypeOK'
  BY <1>1, <1>4 DEF TypeOK
<1>6. CommandsPause' /\ FlushOwnsVault'
  BY <1>1 DEF DInv, CommandsPause, FlushOwnsVault
<1>7. CallsInOrder'
  BY <1>1, <1>2, <1>3, <1>4, VaultUnchanged DEF CallsInOrder, request
<1>8. ItemsComplete'
  BY <1>1, <1>4 DEF DInv, CallsInOrder, ItemsComplete, request
<1> QED
  BY <1>1, <1>5, <1>6, <1>7, <1>8, VaultUnchanged DEF DInv

(* A call that failed or was refused, or a row that could not be deleted:  *)
(* the device is blocked, and its later rows are not submitted.            *)
LEMMA BlockStep ==
  ASSUME DInv, phase \in {"wait", "acknowledge"}, BlockDevice, call' = NoCall,
         \/ UNCHANGED stray
         \/ stray' = stray \cup {call.request},
         disturbances' \in Nat,
         UNCHANGED <<outbox, snapshot, open, command, enabled, changed, store, now, delivered,
                     accepted, used,
                     confirmed>>
  PROVE  DInv'
<1>1. /\ TypeOK /\ phase' = "loop" /\ UNCHANGED items
      /\ blocked' = blocked \cup {call.request.sender_device_id}
  BY DEF DInv, BlockDevice
<1>2. call \in Calls /\ call # NoCall /\ Due(call.request)
  BY DEF DInv, TypeOK, CallsInOrder
<1>3. call.request \in Requests /\ call.request.sender_device_id \in Devices
  BY <1>2, CallFields, RequestFields
<1>4. TypeOK'
  BY <1>1, <1>3 DEF TypeOK, Calls
<1>5. \A r \in stray' : Due(r)'
  BY <1>2, VaultUnchanged DEF DInv
<1>6. CommandsPause' /\ FlushOwnsVault' /\ CallsInOrder'
  BY <1>1 DEF DInv, CommandsPause, FlushOwnsVault, CallsInOrder
<1>7. \A item, row \in Row : Sender(row.request) = Sender(item.request) => Device(row) = Device(item)
  BY RowFields, RequestFields DEF Device
<1>8. ItemsComplete'
  BY <1>1, <1>7 DEF DInv, ItemsComplete, TypeOK, Device
<1> QED
  BY <1>4, <1>5, <1>6, <1>8, VaultUnchanged DEF DInv

(* The three ways a call ends without its row being deleted.               *)
LEMMA CallEndsStep ==
  ASSUME DInv, CallFails \/ ReceiveRefusal \/ AcknowledgeFails
  PROVE  DInv' /\ UNCHANGED <<snapshot, delivered, confirmed>>
<1>1. /\ phase \in {"wait", "acknowledge"} /\ BlockDevice /\ call' = NoCall
      /\ \/ UNCHANGED stray
         \/ stray' = stray \cup {call.request}
      /\ UNCHANGED <<outbox, snapshot, open, command, enabled, changed, store, now, delivered,
                     accepted, used,
                     confirmed>>
  BY DEF CallFails, ReceiveRefusal, AcknowledgeFails, Abandon, disk, process, relay
<1>2. disturbances' \in Nat
  BY DEF DInv, TypeOK, CallFails, ReceiveRefusal, AcknowledgeFails, Disturb
<1> QED
  BY <1>1, <1>2, BlockStep

(* A valid receipt leads to the deletion of the row.                       *)
LEMMA ReceiveReceiptStep ==
  ASSUME DInv, ReceiveReceipt
  PROVE  DInv' /\ UNCHANGED <<snapshot, delivered, confirmed>>
<1>1. /\ TypeOK /\ phase = "wait" /\ phase' = "acknowledge"
      /\ call.state = "accepted" /\ ValidReceipt(call.request, call.receipt)
      /\ UNCHANGED <<outbox, snapshot, open, command, enabled, changed, items, blocked, call,
                     stray,
                     store, now, delivered, accepted, used, confirmed, disturbances>>
  BY DEF DInv, ReceiveReceipt, disk, process, network, relay
<1>2. TypeOK'
  BY <1>1 DEF TypeOK
<1>3. CommandsPause' /\ FlushOwnsVault' /\ ItemsComplete'
  BY <1>1 DEF DInv, CommandsPause, FlushOwnsVault, ItemsComplete
<1>4. CallsInOrder'
  BY <1>1, VaultUnchanged DEF DInv, CallsInOrder, ValidReceipt
<1> QED
  BY <1>1, <1>2, <1>3, <1>4, VaultUnchanged DEF DInv

(* acknowledge_mls_outbox deletes the row that was sent, and no other.     *)
LEMMA DeletesOneRow ==
  ASSUME DInv, phase = "acknowledge"
  PROVE  /\ call \in Calls /\ call # NoCall /\ call.request \in Requests
         /\ \E row \in outbox :
              /\ row.request = call.request
              /\ row \notin items
              /\ {r \in outbox : /\ Device(r) = call.request.sender_device_id
                                 /\ r.request.event_id = call.receipt.event_id} = {row}
<1>1. call \in Calls /\ call # NoCall
  BY DEF DInv, TypeOK, CallsInOrder
<1>2. call.request \in Requests
  BY <1>1, CallFields
<1>3. PICK row \in outbox : row.request = call.request /\ row \notin items
  BY <1>1 DEF DInv, CallsInOrder
<1>4. call.receipt.event_id = call.request.event_id
  BY DEF DInv, CallsInOrder, ValidReceipt
<1>5. \A r \in outbox : r.request.event_id = call.request.event_id => r = row
  BY <1>3 DEF DInv, RowsDistinct
<1>6. {r \in outbox : /\ Device(r) = call.request.sender_device_id
                     /\ r.request.event_id = call.receipt.event_id} = {row}
  BY <1>3, <1>4, <1>5 DEF Device
<1> QED
  BY <1>1, <1>2, <1>3, <1>6

(* The row's deletion confirms the sender's next counter.                  *)
LEMMA AcknowledgeStep ==
  ASSUME DInv, Acknowledge
  PROVE  DInv' /\ \E s \in Senders : Ordered!Confirm(s)
<1> DEFINE gone == {r \in outbox : /\ Device(r) = call.request.sender_device_id
                                  /\ r.request.event_id = call.receipt.event_id}
           s == Sender(call.request)
<1>1. /\ TypeOK /\ phase = "acknowledge" /\ open /\ phase' = "loop" /\ call' = NoCall
      /\ outbox' = outbox \ gone
      /\ confirmed' = [t \in Senders |->
             IF \E row \in gone : Sender(row.request) = t
             THEN (CHOOSE row \in gone : Sender(row.request) = t).request.sender_counter
             ELSE confirmed[t]]
      /\ UNCHANGED <<snapshot, open, command, enabled, changed, items, blocked, stray, store, now,
                     delivered, accepted, used, disturbances>>
  BY DEF DInv, Acknowledge, process, relay
<1>2. PICK row \in outbox : row.request = call.request /\ row \notin items /\ gone = {row}
  BY <1>1, DeletesOneRow
<1>3. call # NoCall /\ call.request \in Requests
  BY <1>1, DeletesOneRow
<1>4. s \in Senders /\ call.request.sender_counter \in Nat
  BY <1>3, RequestFields
<1>5. /\ call.request.sender_counter = confirmed[s] + 1
      /\ call.request.sender_counter <= delivered[s]
  BY <1>1, <1>3 DEF DInv, CallsInOrder
<1> HIDE DEF gone, s
<1>6. \A t \in Senders : /\ snapshot[t] \in Nat /\ delivered[t] \in Nat /\ confirmed[t] \in Nat
                         /\ confirmed[t] <= delivered[t] /\ delivered[t] <= snapshot[t]
  BY <1>1 DEF TypeOK, DInv, CountersOrdered
<1>7. (CHOOSE r \in {row} : Sender(r.request) = s) = row
  BY <1>2 DEF s
<1>8. confirmed' = [confirmed EXCEPT ![s] = confirmed[s] + 1]
  <2>1. \A t \in Senders : confirmed'[t] = IF t = s THEN confirmed[s] + 1 ELSE confirmed[t]
    <3> SUFFICES ASSUME NEW t \in Senders
                 PROVE  confirmed'[t] = IF t = s THEN confirmed[s] + 1 ELSE confirmed[t]
      OBVIOUS
    <3>1. confirmed'[t] = IF Sender(row.request) = t
                          THEN (CHOOSE r \in {row} : Sender(r.request) = t).request.sender_counter
                          ELSE confirmed[t]
      BY <1>1, <1>2
    <3> QED
      BY <3>1, <1>2, <1>5, <1>7 DEF s
  <2> QED
    BY <2>1, <1>1, <1>4 DEF TypeOK
<1>9. \A t \in Senders : confirmed'[t] = IF t = s THEN confirmed[t] + 1 ELSE confirmed[t]
  BY <1>1, <1>8 DEF TypeOK
<1>10. outbox' = outbox \ {row} /\ outbox' \subseteq outbox /\ items \subseteq outbox'
  BY <1>1, <1>2 DEF TypeOK
<1>11. TypeOK'
  BY <1>1, <1>4, <1>6, <1>8, <1>10 DEF TypeOK, Calls
<1>12. RowsDistinct'
  <2>1. IsFiniteSet(outbox')
    BY <1>10, FS_Subset DEF DInv, RowsDistinct
  <2> QED
    BY <2>1, <1>1, <1>10 DEF DInv, RowsDistinct
<1>13. OutboxComplete'
  <2> SUFFICES ASSUME NEW t \in Senders
               PROVE  /\ {r.request.sender_counter : r \in RowsOf(t)'}
                           = (confirmed'[t] + 1) .. snapshot[t]
                      /\ \A q, r \in RowsOf(t)' :
                           q.rowid < r.rowid <=>
                             q.request.sender_counter < r.request.sender_counter
    BY <1>1 DEF OutboxComplete
  <2>1. /\ {r.request.sender_counter : r \in RowsOf(t)} = (confirmed[t] + 1) .. snapshot[t]
        /\ \A q, r \in RowsOf(t) :
             q.rowid < r.rowid <=> q.request.sender_counter < r.request.sender_counter
    BY DEF DInv, OutboxComplete
  <2>2. RowsOf(t)' = RowsOf(t) \ {row} /\ RowsOf(t)' \subseteq RowsOf(t)
    BY <1>10 DEF RowsOf
  <2>3. CASE t # s
    <3>1. RowsOf(t)' = RowsOf(t)
      BY <2>2, <2>3, <1>2 DEF RowsOf, s
    <3> QED
      BY <3>1, <2>1, <2>3, <1>9
  <2>4. CASE t = s
    <3>1. row \in RowsOf(t) /\ row.request.sender_counter = confirmed[t] + 1
      BY <2>4, <1>2, <1>5 DEF RowsOf, s
    <3>2. \A r \in RowsOf(t) : r.request.sender_counter = confirmed[t] + 1 => r = row
      <4> SUFFICES ASSUME NEW r \in RowsOf(t), r.request.sender_counter = confirmed[t] + 1
                   PROVE  r = row
        OBVIOUS
      <4>1. r \in outbox /\ r.rowid \in Nat /\ row.rowid \in Nat
        BY <1>1, <1>2, RowFields DEF RowsOf, TypeOK
      <4>2. ~(r.rowid < row.rowid) /\ ~(row.rowid < r.rowid)
        BY <2>1, <3>1, <1>6
      <4> QED
        BY <4>1, <4>2, <1>2 DEF DInv, RowsDistinct
    <3> DEFINE C == {r.request.sender_counter : r \in RowsOf(t)}
               D == {r.request.sender_counter : r \in RowsOf(t)'}
    <3>3. D = C \ {confirmed[t] + 1}
      BY <3>1, <3>2, <2>2
    <3>4. C = (confirmed[t] + 1) .. snapshot[t]
      BY <2>1
    <3> HIDE DEF C, D
    <3>5. D = (confirmed[t] + 2) .. snapshot[t]
      BY <3>3, <3>4, <1>6
    <3>6. confirmed'[t] + 1 = confirmed[t] + 2
      BY <2>4, <1>6, <1>9
    <3>7. D = (confirmed'[t] + 1) .. snapshot[t]
      BY <3>5, <3>6
    <3> QED
      BY <3>7, <2>1, <2>2 DEF D
  <2> QED
    BY <2>3, <2>4
<1>14. CountersOrdered'
  BY <1>1, <1>5, <1>6, <1>9 DEF DInv, CountersOrdered
<1>15. \A r \in stray' : Due(r)'
  BY <1>1 DEF DInv, Due
<1>16. CallsInOrder' /\ CommandsPause' /\ FlushOwnsVault'
  BY <1>1 DEF DInv, CallsInOrder, CommandsPause, FlushOwnsVault
<1>17. ItemsComplete'
  <2>1. \A r \in outbox' : r.request # call.request
    BY <1>2, <1>10 DEF DInv, RowsDistinct
  <2> QED
    BY <2>1, <1>1, <1>10 DEF DInv, ItemsComplete
<1>18. Ordered!Confirm(s)
  <2>1. confirmed[s] < delivered[s]
    BY <1>4, <1>5, <1>6
  <2> QED
    BY <2>1, <1>1, <1>8 DEF Ordered!Confirm
<1> QED
  BY <1>4, <1>11, <1>12, <1>13, <1>14, <1>15, <1>16, <1>17, <1>18 DEF DInv

-----------------------------------------------------------------------------
(***************************************************************************)
(* The relay.                                                              *)
(***************************************************************************)
(* Pruning forgets what was delivered, and adds nothing.                   *)
LEMMA PruneDelivered ==
  ASSUME DInv
  PROVE  LET pruned == PruneExpired(store, now) IN
         /\ pruned \in StoreData
         /\ \A e \in EventIds : pruned.events_by_id[e] # NoEvent =>
              LET request == pruned.events_by_id[e].request IN
              request.sender_counter <= delivered[Sender(request)]
<1>1. store \in StoreData /\ now \in Nat
  BY DEF DInv, TypeOK
<1>2. \A e \in EventIds : PruneExpired(store, now).events_by_id[e] # NoEvent =>
        PruneExpired(store, now).events_by_id[e] = store.events_by_id[e]
  BY <1>1 DEF PruneExpired, StoreData
<1>3. PruneExpired(store, now) \in StoreData
  BY <1>1 DEF PruneExpired, StoreData
<1> QED
  BY <1>1, <1>2, <1>3 DEF DInv, CountersOrdered

(* submit_event on a request that is due: what is delivered grows by at    *)
(* most one event, in order, and covers a request that is accepted.        *)
LEMMA RelayStep ==
  ASSUME DInv, NEW request \in Requests, Due(request),
         RelayAccepts(request) \/ RelayRefuses(request),
         UNCHANGED <<snapshot, confirmed>>
  PROVE  /\ store' \in StoreData
         /\ delivered' \in [Senders -> Nat] /\ accepted' \in SUBSET Requests
         /\ \A s \in Senders : delivered[s] <= delivered'[s]
         /\ CountersOrdered'
         /\ RelayAccepts(request) =>
              /\ request.sender_counter <= delivered'[Sender(request)]
              /\ ReceiptFor(request) \in AcceptedEvent
         /\ UNCHANGED delivered \/ \E s \in Senders : Ordered!Deliver(s)
<1> DEFINE pruned == PruneExpired(store, now)
           s == Sender(request)
<1>1. /\ pruned \in StoreData
      /\ \A e \in EventIds : pruned.events_by_id[e] # NoEvent =>
            pruned.events_by_id[e].request.sender_counter
              <= delivered[Sender(pruned.events_by_id[e].request)]
  BY PruneDelivered
<1>2. s \in Senders /\ request.sender_counter \in Nat /\ request.event_id \in EventIds
  BY RequestFields
<1>3. now \in Nat /\ delivered \in [Senders -> Nat] /\ snapshot \in [Senders -> Nat]
  BY DEF DInv, TypeOK
<1>4. \A e \in EventIds : pruned.events_by_id[e] # NoEvent =>
        /\ pruned.events_by_id[e] \in StoredEvent
        /\ pruned.events_by_id[e].request \in Requests
        /\ pruned.events_by_id[e].receipt \in AcceptedEvent
        /\ Sender(pruned.events_by_id[e].request) \in Senders
        /\ pruned.events_by_id[e].request.sender_counter \in Nat
  <2>1. \A e \in EventIds : pruned.events_by_id[e] # NoEvent => pruned.events_by_id[e] \in StoredEvent
    BY <1>1 DEF StoreData
  <2> QED
    BY <2>1, RequestFields DEF StoredEvent
<1>5. ReceiptFor(request) \in AcceptedEvent
  <2>1. NewReceipt(pruned, request, now) \in AcceptedEvent
    <3>1. request.channel_id \in Channels /\ request.ttl_seconds \in Nat
      BY StoreAssumption DEF RequestRecord
    <3>2. EffectiveTtl(request) \in Nat
      BY <3>1, StoreAssumption DEF EffectiveTtl, ServerTtl
    <3>3. pruned.next_sequence_by_channel[request.channel_id] \in Nat
      BY <1>1, <3>1 DEF StoreData
    <3> QED
      BY <1>2, <1>3, <3>1, <3>2, <3>3 DEF NewReceipt, AcceptedEvent
  <2> QED
    BY <1>2, <1>4, <2>1 DEF ReceiptFor, Known
<1>6. CASE /\ store' = pruned /\ UNCHANGED <<delivered, accepted>>
           /\ ExactRepeat(pruned, request) \/ RelayRefuses(request)
  <2>1. CountersOrdered'
    BY <1>1, <1>6 DEF DInv, CountersOrdered
  <2>2. RelayAccepts(request) => ExactRepeat(pruned, request)
    <3>1. pruned.highest_counter_by_sender[s] \in Nat
      BY <1>1, <1>2 DEF StoreData
    <3>2. RelayRefuses(request) => ~Fresh(pruned, request)
      BY <3>1, <1>2 DEF RelayRefuses, EventIdConflict, SenderCounterReplay, Fresh
    <3> QED
      BY <3>2, <1>6 DEF RelayAccepts, ExactRepeat, Fresh
  <2>3. ExactRepeat(pruned, request) => request.sender_counter <= delivered[s]
    BY <1>1, <1>2 DEF ExactRepeat, Known
  <2>4. accepted' \in SUBSET Requests
    BY <1>6 DEF DInv, TypeOK
  <2> QED
    BY <2>1, <2>2, <2>3, <2>4, <1>1, <1>3, <1>5, <1>6
<1>7. CASE /\ Fresh(pruned, request)
           /\ store' = Insert(pruned, request, ReceiptFor(request))
           /\ Delivered(request)
  <2>1. store' \in StoreData
    <3>1. /\ request.channel_id \in Channels
          /\ [request |-> request, receipt |-> ReceiptFor(request)] \in StoredEvent
          /\ ReceiptFor(request).sequence \in Nat
      BY <1>5, StoreAssumption DEF RequestRecord, StoredEvent, AcceptedEvent
    <3> QED
      BY <1>1, <1>2, <1>7, <3>1 DEF StoreData, Insert
  <2>2. delivered' = [delivered EXCEPT ![s] =
                        IF request.sender_counter > delivered[s] THEN request.sender_counter
                        ELSE delivered[s]]
    BY <1>7 DEF Delivered
  <2>3. /\ request.sender_counter <= delivered[s] + 1
        /\ request.sender_counter <= snapshot[s]
        /\ delivered[s] \in Nat /\ snapshot[s] \in Nat
    BY <1>2, <1>3 DEF Due
  <2>11. accepted' \in SUBSET Requests
    BY <1>7 DEF Delivered, DInv, TypeOK
  <2> HIDE DEF s, pruned
  <2>4. \/ delivered' = delivered /\ request.sender_counter <= delivered[s]
        \/ /\ delivered' = [delivered EXCEPT ![s] = delivered[s] + 1]
           /\ request.sender_counter = delivered[s] + 1
    <3>1. CASE request.sender_counter > delivered[s]
      <4>1. request.sender_counter = delivered[s] + 1
        BY <3>1, <2>3, <1>2
      <4> QED
        BY <4>1, <3>1, <2>2
    <3>2. CASE ~(request.sender_counter > delivered[s])
      BY <3>2, <2>2, <2>3, <1>2, <1>3
    <3> QED
      BY <3>1, <3>2
  <2>5. /\ delivered' \in [Senders -> Nat]
        /\ \A t \in Senders : delivered[t] <= delivered'[t]
        /\ \A t \in Senders : delivered'[t] <= snapshot[t]
        /\ request.sender_counter <= delivered'[s]
    BY <2>3, <2>4, <1>2, <1>3 DEF DInv, CountersOrdered
  <2>6. \A e \in EventIds :
          store'.events_by_id[e] =
            IF e = request.event_id THEN [request |-> request, receipt |-> ReceiptFor(request)]
            ELSE pruned.events_by_id[e]
    BY <1>1, <1>2, <1>7 DEF Insert, StoreData
  <2>7. \A e \in EventIds : store'.events_by_id[e] # NoEvent =>
          store'.events_by_id[e].request.sender_counter
            <= delivered'[Sender(store'.events_by_id[e].request)]
    <3> SUFFICES ASSUME NEW e \in EventIds, store'.events_by_id[e] # NoEvent
                 PROVE  store'.events_by_id[e].request.sender_counter
                          <= delivered'[Sender(store'.events_by_id[e].request)]
      OBVIOUS
    <3>1. CASE e = request.event_id
      BY <3>1, <2>5, <2>6 DEF s
    <3>2. CASE e # request.event_id
      <4> DEFINE old == pruned.events_by_id[e].request
      <4>1. store'.events_by_id[e] = pruned.events_by_id[e] /\ pruned.events_by_id[e] # NoEvent
        BY <3>2, <2>6
      <4>2. /\ old.sender_counter <= delivered[Sender(old)]
            /\ Sender(old) \in Senders /\ old.sender_counter \in Nat
        BY <4>1, <1>1, <1>4
      <4>3. old.sender_counter <= delivered'[Sender(old)]
        <5> HIDE DEF old
        <5> QED
          BY <4>2, <2>5, <1>3
      <4> QED
        BY <4>1, <4>3
    <3> QED
      BY <3>1, <3>2
  <2>8. \A t \in Senders : confirmed[t] \in Nat /\ confirmed[t] <= delivered[t]
    BY DEF DInv, TypeOK, CountersOrdered
  <2>9. CountersOrdered'
    BY <2>5, <2>7, <2>8, <1>3 DEF CountersOrdered
  <2>10. UNCHANGED delivered \/ Ordered!Deliver(s)
    BY <2>3, <2>4 DEF Ordered!Deliver
  <2> QED
    BY <2>1, <2>5, <2>9, <2>10, <2>11, <1>2, <1>5 DEF s
<1> QED
  BY <1>6, <1>7 DEF RelayAccepts, RelayRefuses

(* The request the worker waits for arrives.                               *)
LEMMA RelayHandlesCallStep ==
  ASSUME DInv, RelayHandlesCall
  PROVE  DInv' /\ (UNCHANGED <<snapshot, delivered,
                               confirmed>> \/ \E s \in Senders : Ordered!Deliver(s))
<1>1. /\ TypeOK /\ call.state = "sent"
      /\ RelayAccepts(call.request) \/ RelayRefuses(call.request)
      /\ UNCHANGED <<outbox, snapshot, open, command, enabled, changed, phase, items, blocked,
                     stray, now,
                     used, confirmed, disturbances>>
  BY DEF DInv, RelayHandlesCall, disk, process, worker
<1>2. call # NoCall
  BY <1>1 DEF NoCall
<1>3. PICK request \in Requests : request = call.request /\ Due(request)
  BY <1>1, <1>2, CallFields DEF TypeOK, DInv, CallsInOrder
<1>4. /\ store' \in StoreData
      /\ delivered' \in [Senders -> Nat] /\ accepted' \in SUBSET Requests
      /\ \A s \in Senders : delivered[s] <= delivered'[s]
      /\ CountersOrdered'
      /\ RelayAccepts(request) =>
           /\ request.sender_counter <= delivered'[Sender(request)]
           /\ ReceiptFor(request) \in AcceptedEvent
      /\ UNCHANGED delivered \/ \E s \in Senders : Ordered!Deliver(s)
  BY <1>1, <1>3, RelayStep
<1>5. \A r \in Requests : Due(r) => Due(r)'
  BY <1>1, <1>4, RequestFields DEF Due, TypeOK
<1>6. \/ /\ RelayAccepts(request)
         /\ call' = [state |-> "accepted", request |-> request, receipt |-> ReceiptFor(request)]
      \/ call' = [state |-> "refused", request |-> request]
  BY <1>3 DEF RelayHandlesCall
<1>7. /\ call' \in Calls /\ call' # NoCall /\ call'.request = request
      /\ call'.state = "accepted" => request.sender_counter <= delivered'[Sender(request)]
  BY <1>3, <1>4, <1>6 DEF Calls, NoCall
<1>8. TypeOK'
  BY <1>1, <1>4, <1>7 DEF TypeOK
<1>9. phase = "wait"
  <2>1. phase \in {"wait", "acknowledge"}
    BY <1>1, <1>2 DEF DInv, CallsInOrder, TypeOK
  <2> QED
    BY <2>1, <1>1 DEF DInv, CallsInOrder
<1>10. CallsInOrder'
  <2>1. Due(request)'
    BY <1>3, <1>5
  <2>2. /\ request.sender_counter = confirmed[Sender(request)] + 1
        /\ request.sender_device_id \notin blocked
        /\ \E row \in outbox : row.request = request /\ row \notin items
    BY <1>2, <1>3 DEF DInv, CallsInOrder
  <2>3. Due(call.request)'
    BY <2>1, <1>7 DEF Due
  <2> QED
    BY <2>2, <2>3, <1>1, <1>7, <1>9 DEF CallsInOrder
<1>11. ItemsComplete'
  BY <1>1, <1>2, <1>3, <1>7 DEF DInv, ItemsComplete
<1>12. CommandsPause' /\ FlushOwnsVault'
  BY <1>1 DEF DInv, CommandsPause, FlushOwnsVault
<1>13. RowsDistinct'
  BY <1>1 DEF DInv, RowsDistinct
<1>14. OutboxComplete'
  BY <1>1 DEF DInv, OutboxComplete, RowsOf
<1>15. \A r \in stray' : Due(r)'
  BY <1>1, <1>5 DEF DInv, TypeOK
<1> QED
  BY <1>1, <1>4, <1>8, <1>10, <1>11, <1>12, <1>13, <1>14, <1>15 DEF DInv

(* An abandoned request arrives, however late.                             *)
LEMMA RelayHandlesStrayStep ==
  ASSUME DInv, NEW request \in stray, RelayHandlesStray(request)
  PROVE  DInv' /\ (UNCHANGED <<snapshot, delivered,
                               confirmed>> \/ \E s \in Senders : Ordered!Deliver(s))
<1>1. /\ TypeOK
      /\ RelayAccepts(request) \/ RelayRefuses(request)
      /\ stray' \subseteq stray
      /\ UNCHANGED <<outbox, snapshot, open, command, enabled, changed, phase, items, blocked,
                     call, now,
                     used, confirmed, disturbances>>
  BY DEF DInv, RelayHandlesStray, disk, process, worker
<1>2. request \in Requests /\ Due(request)
  BY <1>1 DEF TypeOK, DInv
<1>3. /\ store' \in StoreData
      /\ delivered' \in [Senders -> Nat] /\ accepted' \in SUBSET Requests
      /\ \A s \in Senders : delivered[s] <= delivered'[s]
      /\ CountersOrdered'
      /\ UNCHANGED delivered \/ \E s \in Senders : Ordered!Deliver(s)
  BY <1>1, <1>2, RelayStep
<1>4. \A r \in Requests : Due(r) => Due(r)'
  BY <1>1, <1>3, RequestFields DEF Due, TypeOK
<1>5. TypeOK'
  BY <1>1, <1>3 DEF TypeOK
<1>6. CallsInOrder'
  <2>1. call # NoCall =>
          /\ Due(call.request)'
          /\ call.state = "accepted" =>
               call.request.sender_counter <= delivered'[Sender(call.request)]
    <3> SUFFICES ASSUME call # NoCall
                 PROVE  /\ Due(call.request)'
                        /\ call.state = "accepted" =>
                             call.request.sender_counter <= delivered'[Sender(call.request)]
      OBVIOUS
    <3>1. call.request \in Requests
      BY <1>1, CallFields DEF TypeOK
    <3>2. Sender(call.request) \in Senders /\ call.request.sender_counter \in Nat
      BY <3>1, RequestFields
    <3>3. /\ Due(call.request)
          /\ call.state = "accepted" =>
               call.request.sender_counter <= delivered[Sender(call.request)]
      BY DEF DInv, CallsInOrder
    <3>4. Due(call.request)'
      BY <3>1, <3>3, <1>1, <1>4 DEF Due
    <3>5. delivered[Sender(call.request)] \in Nat /\ delivered'[Sender(call.request)] \in Nat
      BY <3>2, <1>1, <1>3 DEF TypeOK
    <3> QED
      BY <3>2, <3>3, <3>4, <3>5, <1>3
  <2> QED
    BY <2>1, <1>1 DEF DInv, CallsInOrder, ValidReceipt
<1>7. ItemsComplete'
  BY <1>1 DEF DInv, ItemsComplete
<1>8. CommandsPause' /\ FlushOwnsVault'
  BY <1>1 DEF DInv, CommandsPause, FlushOwnsVault
<1>9. RowsDistinct'
  BY <1>1 DEF DInv, RowsDistinct
<1>10. OutboxComplete'
  BY <1>1 DEF DInv, OutboxComplete, RowsOf
<1>11. \A r \in stray' : Due(r)'
  BY <1>1, <1>4 DEF DInv, TypeOK
<1> QED
  BY <1>1, <1>3, <1>5, <1>6, <1>7, <1>8, <1>9, <1>10, <1>11 DEF DInv

(* A restarted relay holds nothing; what was delivered stays delivered.    *)
LEMMA RelayRestartStep ==
  ASSUME DInv, RelayRestart
  PROVE  DInv' /\ UNCHANGED <<snapshot, delivered, confirmed>>
<1>1. /\ TypeOK /\ store' = EmptyStore /\ accepted' = {} /\ disturbances' \in Nat
      /\ UNCHANGED <<outbox, snapshot, open, command, enabled, changed, phase, items, blocked,
                     call, stray,
                     now, delivered, used, confirmed>>
  BY DEF DInv, TypeOK, RelayRestart, Disturb, disk, process, worker, network
<1>2. EmptyStore \in StoreData /\ \A e \in EventIds : EmptyStore.events_by_id[e] = NoEvent
  BY DEF EmptyStore, StoreData
<1>3. TypeOK'
  BY <1>1, <1>2 DEF TypeOK
<1>4. CommandsPause' /\ FlushOwnsVault' /\ RowsDistinct' /\ ItemsComplete'
  BY <1>1 DEF DInv, CommandsPause, FlushOwnsVault, RowsDistinct, ItemsComplete
<1>5. OutboxComplete'
  BY <1>1 DEF DInv, OutboxComplete, RowsOf
<1>6. CountersOrdered'
  BY <1>1, <1>2 DEF DInv, CountersOrdered
<1>7. CallsInOrder' /\ \A r \in stray' : Due(r)'
  BY <1>1 DEF DInv, CallsInOrder, Due, ValidReceipt
<1> QED
  BY <1>1, <1>3, <1>4, <1>5, <1>6, <1>7 DEF DInv

-----------------------------------------------------------------------------
(***************************************************************************)
(* Time and the vault commands.                                            *)
(***************************************************************************)
(* A step of a command that leaves vault, flush, calls and relay alone.    *)
LEMMA CommandFrame ==
  ASSUME DInv,
         UNCHANGED <<outbox, snapshot, phase, items, blocked, call, stray, store, delivered,
                     accepted, used,
                     confirmed>>,
         open' \in BOOLEAN, enabled' \in BOOLEAN, changed' \in BOOLEAN, command' \in CommandStates,
         now' \in Nat, disturbances' \in Nat, CommandsPause', FlushOwnsVault'
  PROVE  DInv'
<1>1. TypeOK'
  BY DEF DInv, TypeOK, CommandStates
<1>2. CallsInOrder' /\ \A r \in stray' : Due(r)'
  BY DEF DInv, CallsInOrder, Due, ValidReceipt
<1>3. ItemsComplete'
  BY DEF DInv, ItemsComplete
<1> QED
  BY <1>1, <1>2, <1>3, VaultUnchanged DEF DInv

(* The clock and the commands.                                             *)
LEMMA CommandsStep ==
  ASSUME DInv, Tick \/ Commands
  PROVE  DInv' /\ UNCHANGED <<snapshot, delivered, confirmed>>
<1>1. TypeOK /\ CommandsPause /\ FlushOwnsVault
  BY DEF DInv
<1>2. UNCHANGED <<outbox, snapshot, phase, items, blocked, call, stray, store, delivered,
                  accepted,
                  used, confirmed>>
  BY DEF Tick, Commands, LockVault, Drained, CloseVault, UnlockVault, Resume, ResumeSends, disk,
         worker, network, relay, process
<1>3. /\ open' \in BOOLEAN /\ enabled' \in BOOLEAN /\ changed' \in BOOLEAN
      /\ command' \in CommandStates
      /\ now' \in Nat /\ disturbances' \in Nat
  <2>1. /\ open \in BOOLEAN /\ enabled \in BOOLEAN /\ changed \in BOOLEAN
        /\ command \in CommandStates
        /\ now \in Nat /\ disturbances \in Nat
    BY <1>1 DEF TypeOK, CommandStates
  <2>2. CASE Tick
    BY <2>1, <2>2 DEF Tick, process
  <2>3. CASE LockVault
    <3>1. disturbances' \in Nat
      BY <2>1, <2>3 DEF LockVault, Disturb
    <3> QED
      BY <3>1, <2>1, <2>3 DEF LockVault, SendReplace, CommandStates, relay
  <2>4. CASE Drained
    BY <2>1, <2>4 DEF Drained, CommandStates, relay
  <2>5. CASE CloseVault
    <3>1. disturbances' \in Nat
      BY <2>1, <2>5 DEF CloseVault, Disturb
    <3> QED
      BY <3>1, <2>1, <2>5 DEF CloseVault, CommandStates, relay
  <2>6. CASE UnlockVault
    BY <2>1, <2>6 DEF UnlockVault, CommandStates, relay
  <2>7. CASE Resume
    BY <2>1, <2>7 DEF Resume, CommandStates, relay
  <2>8. CASE ResumeSends
    BY <2>1, <2>8 DEF ResumeSends, SendReplace, CommandStates, relay
  <2> QED
    BY <2>2, <2>3, <2>4, <2>5, <2>6, <2>7, <2>8 DEF Commands
<1>4. CommandsPause'
  BY <1>1 DEF Tick, Commands, LockVault, Drained, CloseVault, UnlockVault, Resume, ResumeSends,
         worker, process, CommandsPause
<1>5. FlushOwnsVault'
  BY <1>1 DEF Tick, Commands, LockVault, Drained, CloseVault, UnlockVault, Resume, ResumeSends,
         worker, process, CommandsPause, FlushOwnsVault
<1> QED
  BY <1>2, <1>3, <1>4, <1>5, CommandFrame

(* A killed process leaves the vault as it is.                             *)
LEMMA KillStep ==
  ASSUME DInv, Kill
  PROVE  DInv' /\ UNCHANGED <<snapshot, delivered, confirmed>>
<1>1. /\ TypeOK /\ Finish /\ Abandon /\ Disturb
      /\ open' = FALSE /\ enabled' = FALSE /\ command' = "none"
      /\ UNCHANGED <<outbox, snapshot, store, now, delivered, accepted, used, confirmed>>
  BY DEF DInv, Kill, disk, relay
<1>2. /\ call' = NoCall
      /\ \/ UNCHANGED stray
         \/ call # NoCall /\ stray' = stray \cup {call.request}
  BY <1>1 DEF Abandon, NoCall
<1>3. CommandsPause' /\ disturbances' \in Nat
  BY <1>1 DEF CommandsPause, Disturb, TypeOK
<1> QED
  BY <1>1, <1>2, <1>3, FinishStep DEF CommandStates

-----------------------------------------------------------------------------
(* Every step keeps the invariant, and is a step of OrderedOutbox or       *)
(* changes nothing of it.                                                  *)
LEMMA NextDInv ==
  ASSUME DInv, [Next]_vars
  PROVE  DInv' /\ [Ordered!Next]_(Ordered!vars)
<1> DEFINE Quiet == UNCHANGED <<snapshot, delivered, confirmed>>
           Good == DInv' /\ (Quiet \/ \E s \in Senders :
                               Ordered!Queue(s) \/ Ordered!Deliver(s) \/ Ordered!Confirm(s))
<1> SUFFICES Good
  BY DEF Ordered!Next, Ordered!vars
<1>1. CASE \E channel \in Channels, device \in Devices, body \in Bodies :
             QueueMessage(channel, device, body)
  BY <1>1, QueueStep DEF Senders
<1>2. CASE Flush
  BY <1>2, FlushStartStep, FlushEndStep, SkipBlockedStep, SubmitStep, CallEndsStep,
     ReceiveReceiptStep, AcknowledgeStep DEF Flush
<1>3. CASE RelayHandlesCall
  BY <1>3, RelayHandlesCallStep
<1>4. CASE \E request \in stray : RelayHandlesStray(request)
  BY <1>4, RelayHandlesStrayStep
<1>5. CASE RelayRestart
  BY <1>5, RelayRestartStep
<1>6. CASE Tick \/ Commands
  BY <1>6, CommandsStep
<1>7. CASE Kill
  BY <1>7, KillStep
<1>8. CASE UNCHANGED vars
  <2>1. UNCHANGED <<outbox, snapshot, phase, items, blocked, call, stray, store, delivered,
                    accepted, used,
                    confirmed, open, enabled, changed, command, now, disturbances>>
    BY <1>8 DEF vars, disk, process, worker, network, relay
  <2>2. TypeOK /\ CommandsPause' /\ FlushOwnsVault'
    BY <2>1 DEF DInv, CommandsPause, FlushOwnsVault
  <2> QED
    BY <2>1, <2>2, CommandFrame DEF TypeOK, CommandStates
<1> QED
  BY <1>1, <1>2, <1>3, <1>4, <1>5, <1>6, <1>7, <1>8 DEF Next

(* The invariant holds in every reachable state.                           *)
LEMMA Invariance == Spec => []DInv
<1>1. DInv /\ [Next]_vars => DInv'
  BY NextDInv
<1> QED
  BY <1>1, InitDInv, PTL DEF Spec

(* Vault, process, network and relay stay within their types.              *)
THEOREM TypeCorrect == Spec => []TypeOK
<1>1. DInv => TypeOK
  BY DEF DInv
<1> QED
  BY <1>1, Invariance, PTL

(* Whatever is killed, locked, lost, refused or restarted, the rows of a   *)
(* sender are exactly the events it has committed and not yet              *)
(* acknowledged, and stand in the order of their counters.                 *)
THEOREM CompleteOutbox == Spec => []OutboxComplete
<1>1. DInv => OutboxComplete
  BY DEF DInv
<1> QED
  BY <1>1, Invariance, PTL

(* vault_lock never takes the connection away from a running flush.        *)
THEOREM VaultOwnedByFlush == Spec => []FlushOwnsVault
<1>1. DInv => FlushOwnsVault
  BY DEF DInv
<1> QED
  BY <1>1, Invariance, PTL

(* The send path implements OrderedOutbox: a sender's events reach the     *)
(* relay in counter order and without a gap, and a row is deleted only     *)
(* after its event has been accepted, in the same order.                   *)
THEOREM RefinesOrderedOutbox == Spec => ImplementsOrderedOutbox
<1>1. Init => Ordered!Init
  BY DEF Init, Ordered!Init
<1>2. DInv /\ [Next]_vars => [Ordered!Next]_(Ordered!vars)
  BY NextDInv
<1> QED
  BY <1>1, <1>2, Invariance, PTL DEF Spec, ImplementsOrderedOutbox, Ordered!Spec

-----------------------------------------------------------------------------
(***************************************************************************)
(* Only expiry stops a row.  This is what ConfirmedUnlessExpired owes to   *)
(* the protocol and not to fairness: the worker never asks for anything    *)
(* that the relay would refuse for another reason, and never gets a        *)
(* receipt that it would not accept.                                       *)
(***************************************************************************)
(* An event identifier stands for one request, on disk and on the network. *)
Genuine(request) ==
  /\ request.event_id \in used
  /\ request.ttl_seconds = MaxTtl
  /\ \A row \in outbox : row.request.event_id = request.event_id => row.request = request

(* What the relay holds is such a request with a receipt about it.         *)
Receipted(data) ==
  \A e \in EventIds : data.events_by_id[e] # NoEvent =>
    LET stored == data.events_by_id[e] IN
    /\ stored.request.event_id = e
    /\ e \in used
    /\ \A row \in outbox : row.request.event_id = e => row.request = stored.request
    /\ ValidReceipt(stored.request, stored.receipt)

StoreReceipted == Receipted(store)

(* A receipt under way is about the event that was submitted.              *)
ReceiptsMatch == call.state = "accepted" => ValidReceipt(call.request, call.receipt)

EventsInv ==
  /\ \A row \in outbox : Genuine(row.request)
  /\ \A request \in stray : Genuine(request)
  /\ StoreReceipted
  /\ ReceiptsMatch

LEMMA InitEventsInv == Init => EventsInv
<1>1. \A e \in EventIds : EmptyStore.events_by_id[e] = NoEvent
  BY DEF EmptyStore
<1> QED
  BY <1>1 DEF Init, EventsInv, StoreReceipted, Receipted, ReceiptsMatch, NoCall

(* The request of a call is that of a row.                                 *)
LEMMA CallIsGenuine ==
  ASSUME DInv, EventsInv, call # NoCall
  PROVE  /\ call.request \in Requests /\ Genuine(call.request)
         /\ \E row \in outbox : row.request = call.request
BY CallFields DEF DInv, TypeOK, CallsInOrder, EventsInv

(* A row less, a stray more, a call less.                                  *)
LEMMA EventsFrame ==
  ASSUME DInv, EventsInv, outbox' \subseteq outbox,
         UNCHANGED <<used, store>>,
         \/ UNCHANGED stray
         \/ call # NoCall /\ stray' = stray \cup {call.request},
         call' = call \/ call'.state # "accepted"
  PROVE  EventsInv'
<1>1. \A request \in stray' : Genuine(request)
  BY CallIsGenuine DEF EventsInv
<1>2. \A request : Genuine(request) => Genuine(request)'
  BY DEF Genuine
<1>3. StoreReceipted'
  BY DEF EventsInv, StoreReceipted, Receipted, ValidReceipt
<1>4. ReceiptsMatch'
  BY DEF EventsInv, ReceiptsMatch, ValidReceipt
<1> QED
  BY <1>1, <1>2, <1>3, <1>4 DEF EventsInv

(* A new event has an identifier of its own.                               *)
LEMMA QueueEvents ==
  ASSUME DInv, EventsInv, NEW channel \in Channels, NEW device \in Devices, NEW body \in Bodies,
         QueueMessage(channel, device, body)
  PROVE  EventsInv'
<1>0. PICK request : request = Submission(channel, device, snapshot[<<channel, device>>] + 1,
                                         NewEventId, body)
  OBVIOUS
<1>1. PICK n \in 1 .. MaxRowid : outbox' = outbox \cup {[rowid |-> n, request |-> request]}
  BY <1>0 DEF QueueMessage, StoreMlsTransaction
<1>2. used' = used \cup {NewEventId} /\ UNCHANGED <<call, stray, store>>
  BY DEF QueueMessage, network, relay
<1>3. NewEventId \in EventIds /\ NewEventId \notin used
  BY DEF QueueMessage, NewEventId, DInv, TypeOK
<1>4. request.event_id = NewEventId /\ request.ttl_seconds = MaxTtl
  BY <1>0 DEF Submission
<1>5. \A r : Genuine(r) => Genuine(r)'
  BY <1>1, <1>2, <1>3, <1>4 DEF Genuine
<1>6. Genuine(request)'
  <2>1. \A row \in outbox : row.request.event_id \in used
    BY DEF DInv, RowsDistinct
  <2> QED
    BY <2>1, <1>1, <1>2, <1>3, <1>4 DEF Genuine
<1>7. \A row \in outbox' : Genuine(row.request)'
  BY <1>1, <1>5, <1>6 DEF EventsInv
<1>8. \A r \in stray' : Genuine(r)'
  BY <1>2, <1>5 DEF EventsInv
<1>9. StoreReceipted'
  BY <1>1, <1>2, <1>3, <1>4 DEF EventsInv, StoreReceipted, Receipted, ValidReceipt
<1>10. ReceiptsMatch'
  BY <1>2 DEF EventsInv, ReceiptsMatch, ValidReceipt
<1> QED
  BY <1>7, <1>8, <1>9, <1>10 DEF EventsInv

(* A new receipt is about its request, and expires after its acceptance:   *)
(* every lifetime that the relay grants is at least MinTtl.                *)
LEMMA NewReceiptValid ==
  ASSUME NEW data \in StoreData, NEW request \in Requests, request.ttl_seconds = MaxTtl,
         NEW time \in Nat
  PROVE  ValidReceipt(request, NewReceipt(data, request, time))
<1>1. request.channel_id \in Channels
  BY StoreAssumption DEF RequestRecord
<1>2. data.next_sequence_by_channel[request.channel_id] \in Nat
  BY <1>1 DEF StoreData
<1>3. EffectiveTtl(request) \in Nat \ {0}
  BY StoreAssumption DEF EffectiveTtl, ServerTtl
<1> QED
  BY <1>2, <1>3 DEF ValidReceipt, NewReceipt

(* The relay's answer to a genuine request.                                *)
LEMMA RelayEvents ==
  ASSUME DInv, EventsInv, NEW request \in Requests, Genuine(request),
         RelayAccepts(request) \/ RelayRefuses(request),
         UNCHANGED <<outbox, used>>
  PROVE  /\ StoreReceipted'
         /\ RelayAccepts(request) => ValidReceipt(request, ReceiptFor(request))
<1> DEFINE pruned == PruneExpired(store, now)
<1>1. store \in StoreData /\ now \in Nat
  BY DEF DInv, TypeOK
<1>2. pruned \in StoreData /\ Receipted(pruned)
  <2>1. pruned \in StoreData
    BY PruneDelivered
  <2>2. \A e \in EventIds : pruned.events_by_id[e] # NoEvent =>
          pruned.events_by_id[e] = store.events_by_id[e]
    BY <1>1 DEF PruneExpired, StoreData
  <2> HIDE DEF pruned
  <2> QED
    BY <2>1, <2>2 DEF EventsInv, StoreReceipted, Receipted
<1>3. request.event_id \in EventIds
  BY RequestFields
<1>4. RelayAccepts(request) => ValidReceipt(request, ReceiptFor(request))
  <2>1. CASE Known(pruned, request)
    <3>1. RelayAccepts(request) => pruned.events_by_id[request.event_id].request = request
      BY <2>1 DEF RelayAccepts, ExactRepeat, Fresh
    <3>2. ValidReceipt(pruned.events_by_id[request.event_id].request,
                       pruned.events_by_id[request.event_id].receipt)
      BY <2>1, <1>2, <1>3 DEF StoreReceipted, Receipted, Known
    <3> QED
      BY <3>1, <3>2, <2>1 DEF ReceiptFor
  <2>2. CASE ~Known(pruned, request)
    BY <2>2, <1>1, <1>2, NewReceiptValid DEF ReceiptFor, Genuine
  <2> QED
    BY <2>1, <2>2
<1>5. CASE store' = pruned
  <2> HIDE DEF pruned
  <2> QED
    BY <1>2, <1>4, <1>5 DEF StoreReceipted, Receipted, ValidReceipt
<1>6. CASE store' = Insert(pruned, request, ReceiptFor(request)) /\ RelayAccepts(request)
  <2>1. \A e \in EventIds :
          store'.events_by_id[e] =
            IF e = request.event_id THEN [request |-> request, receipt |-> ReceiptFor(request)]
            ELSE pruned.events_by_id[e]
    BY <1>2, <1>3, <1>6 DEF Insert, StoreData
  <2> HIDE DEF pruned
  <2>2. SUFFICES ASSUME NEW e \in EventIds, store'.events_by_id[e] # NoEvent
                 PROVE  LET stored == store'.events_by_id[e] IN
                        /\ stored.request.event_id = e
                        /\ e \in used
                        /\ \A row \in outbox : row.request.event_id = e => row.request = stored.request
                        /\ ValidReceipt(stored.request, stored.receipt)
    BY <1>4 DEF StoreReceipted, Receipted, ValidReceipt
  <2>3. CASE e = request.event_id
    BY <2>3, <2>1, <1>4, <1>6 DEF Genuine
  <2>4. CASE e # request.event_id
    BY <2>4, <2>1, <2>2, <1>2 DEF StoreReceipted, Receipted
  <2> QED
    BY <2>3, <2>4
<1> QED
  BY <1>5, <1>6 DEF RelayAccepts, RelayRefuses

LEMMA HandlesEvents ==
  ASSUME DInv, EventsInv, RelayHandlesCall \/ \E request \in stray : RelayHandlesStray(request)
  PROVE  EventsInv'
<1>1. UNCHANGED <<outbox, used>> /\ stray' \subseteq stray
  BY DEF RelayHandlesCall, RelayHandlesStray, disk
<1>2. \A request : Genuine(request) => Genuine(request)'
  BY <1>1 DEF Genuine
<1>3. (\A row \in outbox' : Genuine(row.request)') /\ \A request \in stray' : Genuine(request)'
  BY <1>1, <1>2 DEF EventsInv
<1>4. CASE RelayHandlesCall
  <2>1. /\ call # NoCall
        /\ RelayAccepts(call.request) \/ RelayRefuses(call.request)
        /\ \/ /\ RelayAccepts(call.request)
              /\ call' = [state |-> "accepted", request |-> call.request,
                          receipt |-> ReceiptFor(call.request)]
           \/ call' = [state |-> "refused", request |-> call.request]
    BY <1>4 DEF RelayHandlesCall, NoCall
  <2>2. call.request \in Requests /\ Genuine(call.request)
    BY <2>1, CallIsGenuine
  <2>3. /\ StoreReceipted'
        /\ RelayAccepts(call.request) => ValidReceipt(call.request, ReceiptFor(call.request))
    BY <2>1, <2>2, <1>1, RelayEvents
  <2>4. ReceiptsMatch'
    BY <2>1, <2>3 DEF ReceiptsMatch, ValidReceipt
  <2> QED
    BY <2>3, <2>4, <1>3 DEF EventsInv
<1>5. CASE \E request \in stray : RelayHandlesStray(request)
  <2>1. PICK request \in stray : RelayHandlesStray(request)
    BY <1>5
  <2>2. request \in Requests /\ Genuine(request)
    BY DEF DInv, TypeOK, EventsInv
  <2>3. (RelayAccepts(request) \/ RelayRefuses(request)) /\ call' = call
    BY <2>1 DEF RelayHandlesStray
  <2>4. StoreReceipted'
    BY <2>2, <2>3, <1>1, RelayEvents
  <2>5. ReceiptsMatch'
    BY <2>3 DEF EventsInv, ReceiptsMatch, ValidReceipt
  <2> QED
    BY <2>4, <2>5, <1>3 DEF EventsInv
<1> QED
  BY <1>4, <1>5

LEMMA NextEvents ==
  ASSUME DInv, EventsInv, [Next]_vars
  PROVE  EventsInv'
<1>1. CASE \E channel \in Channels, device \in Devices, body \in Bodies :
             QueueMessage(channel, device, body)
  BY <1>1, QueueEvents
<1>2. CASE Flush \/ Tick \/ Commands \/ Kill \/ UNCHANGED vars
  <2>1. outbox' \subseteq outbox /\ UNCHANGED <<used, store>>
    BY <1>2 DEF Flush, FlushStart, FlushEnd, SkipBlocked, Submit, Cancel, CallFails, ReceiveRefusal,
       ReceiveReceipt, Acknowledge, AcknowledgeFails, Tick, Commands, LockVault, Drained, CloseVault,
       UnlockVault, Resume, ResumeSends, Kill, vars, disk, relay
  <2>2. \/ UNCHANGED stray
        \/ call # NoCall /\ stray' = stray \cup {call.request}
    BY <1>2 DEF Flush, FlushStart, FlushEnd, SkipBlocked, Submit, Cancel, CallFails, ReceiveRefusal,
       ReceiveReceipt, Acknowledge, AcknowledgeFails, Tick, Commands, LockVault, Drained, CloseVault,
       UnlockVault, Resume, ResumeSends, Kill, Abandon, NoCall, vars, network
  <2>3. call' = call \/ call'.state # "accepted"
    BY <1>2 DEF Flush, FlushStart, FlushEnd, SkipBlocked, Submit, Cancel, CallFails, ReceiveRefusal,
       ReceiveReceipt, Acknowledge, AcknowledgeFails, Tick, Commands, LockVault, Drained, CloseVault,
       UnlockVault, Resume, ResumeSends, Kill, Abandon, NoCall, vars, network
  <2> QED
    BY <2>1, <2>2, <2>3, EventsFrame
<1>3. CASE RelayHandlesCall \/ \E request \in stray : RelayHandlesStray(request)
  BY <1>3, HandlesEvents
<1>4. CASE RelayRestart
  <2>1. store' = EmptyStore /\ UNCHANGED <<outbox, used, call, stray>>
    BY <1>4 DEF RelayRestart, disk, network
  <2>2. \A e \in EventIds : store'.events_by_id[e] = NoEvent
    BY <2>1 DEF EmptyStore
  <2>3. StoreReceipted'
    BY <2>2 DEF StoreReceipted, Receipted
  <2> QED
    BY <2>1, <2>3 DEF EventsInv, Genuine, ReceiptsMatch, ValidReceipt
<1> QED
  BY <1>1, <1>2, <1>3, <1>4 DEF Next

LEMMA EventsInvariance == Spec => []EventsInv
<1>1. DInv /\ EventsInv /\ [Next]_vars => EventsInv'
  BY NextEvents
<1> QED
  BY <1>1, InitEventsInv, Invariance, PTL DEF Spec

(* Every receipt the worker gets passes its check: none is about another   *)
(* event, and none is born expired.                                        *)
THEOREM ReceiptsAreValid == Spec => []ReceiptsMatch
<1>1. EventsInv => ReceiptsMatch
  BY DEF EventsInv
<1> QED
  BY <1>1, EventsInvariance, PTL

-----------------------------------------------------------------------------
(***************************************************************************)
(* Which event a refused row's counter belongs to.  No request runs ahead  *)
(* of the row its sender is due to confirm, so the relay's highest counter *)
(* is at most that row's, and when it is that row's, the request that set  *)
(* it was the row's own: overtaking is ruled out, strays included.         *)
(***************************************************************************)
(* No row but the request's own has its sender and counter.                *)
Alone(request) ==
  /\ request.sender_counter <= snapshot[Sender(request)]
  /\ \A row \in outbox :
       Sender(row.request) = Sender(request)
         /\ row.request.sender_counter = request.sender_counter => row.request = request

NotAhead(request) == request.sender_counter <= confirmed[Sender(request)] + 1

(* What the relay's highest counters stand for.                            *)
HighestIsAccepted ==
  \A s \in Senders : store.highest_counter_by_sender[s] > 0 =>
    \E r \in accepted :
      Sender(r) = s /\ r.sender_counter = store.highest_counter_by_sender[s]

HighestNotAhead ==
  \A s \in Senders : store.highest_counter_by_sender[s] <= confirmed[s] + 1

AcceptedInv ==
  /\ \A request \in stray : Alone(request) /\ NotAhead(request)
  /\ \A request \in accepted : Alone(request)
  /\ HighestIsAccepted
  /\ HighestNotAhead

(* When the relay refuses a call, the running relay process has accepted   *)
(* this very event before and no longer holds it, and the row is still     *)
(* there, so that the answer was lost.                                     *)
OnlyExpiredRefused ==
  [][call' # call /\ call'.state = "refused" =>
       \E row \in outbox : row.request = call'.request /\ ExpiredUnconfirmed(row)]_vars

LEMMA InitAccepted == Init => AcceptedInv
BY DEF Init, AcceptedInv, EmptyStore, HighestIsAccepted, HighestNotAhead

(* A row is the only one with its sender and counter.                      *)
LEMMA RowAlone ==
  ASSUME DInv, NEW row \in outbox
  PROVE  Alone(row.request)
<1> DEFINE s == Sender(row.request)
<1>1. s \in Senders /\ row.request.sender_counter \in Nat
  BY RowFields, RequestFields DEF DInv, TypeOK
<1>2. /\ {r.request.sender_counter : r \in RowsOf(s)} = (confirmed[s] + 1) .. snapshot[s]
      /\ \A r, t \in RowsOf(s) :
           r.rowid < t.rowid <=> r.request.sender_counter < t.request.sender_counter
      /\ confirmed[s] \in Nat /\ snapshot[s] \in Nat
  BY <1>1 DEF DInv, OutboxComplete, TypeOK
<1>3. row \in RowsOf(s)
  BY DEF RowsOf
<1> HIDE DEF s
<1>4. row.request.sender_counter <= snapshot[s]
  BY <1>2, <1>3
<1>5. ASSUME NEW t \in outbox, Sender(t.request) = s,
             t.request.sender_counter = row.request.sender_counter
      PROVE  t.request = row.request
  <2>1. t \in RowsOf(s) /\ t.rowid \in Nat /\ row.rowid \in Nat
    BY <1>5, RowFields DEF RowsOf, DInv, TypeOK
  <2>2. ~(t.rowid < row.rowid) /\ ~(row.rowid < t.rowid)
    BY <2>1, <1>1, <1>2, <1>3, <1>5
  <2> QED
    BY <2>1, <2>2 DEF DInv, RowsDistinct
<1> QED
  BY <1>4, <1>5 DEF Alone, s

(* The request of a call is that of its sender's first row.                *)
LEMMA CallNotAhead ==
  ASSUME DInv, call # NoCall
  PROVE  Alone(call.request) /\ NotAhead(call.request)
<1>1. /\ \E row \in outbox : row.request = call.request
      /\ call.request.sender_counter = confirmed[Sender(call.request)] + 1
  BY DEF DInv, CallsInOrder
<1>2. Sender(call.request) \in Senders
  BY CallFields, RequestFields DEF DInv, TypeOK
<1> QED
  BY <1>1, <1>2, RowAlone DEF NotAhead, DInv, TypeOK

(* A row less, a stray more, a counter confirmed.                          *)
LEMMA AcceptedFrame ==
  ASSUME DInv, AcceptedInv, outbox' \subseteq outbox,
         UNCHANGED <<snapshot, store, accepted>>,
         \/ UNCHANGED stray
         \/ call # NoCall /\ stray' = stray \cup {call.request},
         UNCHANGED confirmed \/ \E s \in Senders : Ordered!Confirm(s)
  PROVE  AcceptedInv'
<1>1. TypeOK
  BY DEF DInv
<1>2. \A s \in Senders : confirmed[s] \in Nat /\ confirmed'[s] \in Nat /\ confirmed[s] <= confirmed'[s]
  BY <1>1 DEF TypeOK, Ordered!Confirm
<1>3. \A request \in stray' : request \in Requests /\ Alone(request) /\ NotAhead(request)
  BY <1>1, CallNotAhead, CallFields DEF AcceptedInv, TypeOK
<1>4. \A request \in Requests : NotAhead(request) => NotAhead(request)'
  BY <1>2, RequestFields DEF NotAhead
<1>5. \A request : Alone(request) => Alone(request)'
  BY DEF Alone
<1>6. HighestNotAhead'
  <2>1. \A s \in Senders : store.highest_counter_by_sender[s] \in Nat
    BY <1>1 DEF TypeOK, StoreData
  <2> QED
    BY <2>1, <1>2 DEF AcceptedInv, HighestNotAhead
<1>7. HighestIsAccepted'
  BY DEF AcceptedInv, HighestIsAccepted
<1> QED
  BY <1>3, <1>4, <1>5, <1>6, <1>7 DEF AcceptedInv

(* A new event's counter is above those of all earlier requests.           *)
LEMMA QueueAccepted ==
  ASSUME DInv, AcceptedInv,
         NEW channel \in Channels, NEW device \in Devices, NEW body \in Bodies,
         QueueMessage(channel, device, body)
  PROVE  AcceptedInv'
<1> DEFINE s == <<channel, device>>
<1>0. PICK request : request = Submission(channel, device, snapshot[s] + 1, NewEventId, body)
  OBVIOUS
<1>1. PICK n \in 1 .. MaxRowid : outbox' = outbox \cup {[rowid |-> n, request |-> request]}
  BY <1>0 DEF QueueMessage, StoreMlsTransaction
<1>2. request.sender_counter = snapshot[s] + 1 /\ Sender(request) = s
  BY <1>0 DEF Submission, Sender
<1>3. /\ snapshot' = [snapshot EXCEPT ![s] = request.sender_counter]
      /\ UNCHANGED <<call, stray, store, accepted, confirmed>>
  BY <1>0, <1>2 DEF QueueMessage, StoreMlsTransaction, network, relay
<1> HIDE DEF s
<1>4. \A t \in Senders : snapshot[t] \in Nat /\ snapshot'[t] = IF t = s THEN snapshot[t] + 1
                                                            ELSE snapshot[t]
  BY <1>2, <1>3 DEF DInv, TypeOK
<1>5. \A r \in Requests : Alone(r) => Alone(r)'
  <2> SUFFICES ASSUME NEW r \in Requests, Alone(r)
               PROVE  Alone(r)'
    OBVIOUS
  <2>1. Sender(r) \in Senders /\ r.sender_counter \in Nat
    BY RequestFields
  <2>2. r.sender_counter <= snapshot[Sender(r)] /\ r.sender_counter <= snapshot'[Sender(r)]
    BY <2>1, <1>4 DEF Alone
  <2>3. ~(Sender(request) = Sender(r) /\ request.sender_counter = r.sender_counter)
    BY <2>1, <2>2, <1>2, <1>4
  <2> QED
    BY <2>2, <2>3, <1>1 DEF Alone
<1>6. stray \subseteq Requests /\ accepted \subseteq Requests
  BY DEF DInv, TypeOK
<1>7. \A r : NotAhead(r) => NotAhead(r)'
  BY <1>3 DEF NotAhead
<1> QED
  BY <1>3, <1>5, <1>6, <1>7 DEF AcceptedInv, HighestIsAccepted, HighestNotAhead

(* The relay's answer to a request that is not ahead.                      *)
LEMMA RelayAccepted ==
  ASSUME DInv, AcceptedInv, NEW request \in Requests, Alone(request), NotAhead(request),
         RelayAccepts(request) \/ RelayRefuses(request), stray' \subseteq stray,
         UNCHANGED <<outbox, snapshot, confirmed>>
  PROVE  AcceptedInv'
<1> DEFINE pruned == PruneExpired(store, now)
           highest == store.highest_counter_by_sender
           s == Sender(request)
<1>1. store \in StoreData /\ confirmed \in [Senders -> Nat] /\ accepted \in SUBSET Requests
  BY DEF DInv, TypeOK
<1>2. pruned \in StoreData /\ pruned.highest_counter_by_sender = highest
  BY <1>1, PruneDelivered DEF PruneExpired, StoreData
<1>3. s \in Senders /\ request.sender_counter \in Nat
  BY RequestFields
<1>4. \A r : Alone(r)' <=> Alone(r)
  BY DEF Alone
<1>5. \A r : NotAhead(r)' <=> NotAhead(r)
  BY DEF NotAhead
<1>6. CASE store' = pruned /\ UNCHANGED accepted
  BY <1>2, <1>4, <1>5, <1>6 DEF AcceptedInv, HighestIsAccepted, HighestNotAhead
<1>7. CASE /\ Fresh(pruned, request)
           /\ store' = Insert(pruned, request, ReceiptFor(request))
           /\ Delivered(request)
  <2>1. accepted' = {r \in accepted : Sender(r) # s} \cup {request}
    BY <1>7 DEF Delivered
  <2>2. \A t \in Senders : store'.highest_counter_by_sender[t] =
          IF t = s THEN request.sender_counter ELSE highest[t]
    BY <1>2, <1>3, <1>7 DEF Insert, StoreData
  <2> HIDE DEF s, highest, pruned
  <2>3. \A r \in accepted' : Alone(r)
    BY <2>1 DEF AcceptedInv
  <2>4. HighestIsAccepted'
    BY <2>1, <2>2 DEF AcceptedInv, HighestIsAccepted, highest, s
  <2>5. HighestNotAhead'
    BY <2>2 DEF AcceptedInv, HighestNotAhead, NotAhead, highest, s
  <2> QED
    BY <2>3, <2>4, <2>5, <1>4, <1>5 DEF AcceptedInv
<1> QED
  BY <1>6, <1>7 DEF RelayAccepts, RelayRefuses

LEMMA NextAccepted ==
  ASSUME DInv, AcceptedInv, [Next]_vars
  PROVE  AcceptedInv'
<1>1. CASE \E channel \in Channels, device \in Devices, body \in Bodies :
             QueueMessage(channel, device, body)
  BY <1>1, QueueAccepted
<1>2. CASE Acknowledge
  BY <1>2, AcknowledgeStep, AcceptedFrame DEF Acknowledge, relay
<1>3. CASE (Flush /\ ~Acknowledge) \/ Tick \/ Commands \/ Kill \/ UNCHANGED vars
  <2>1. UNCHANGED <<outbox, snapshot, store, accepted, confirmed>>
    BY <1>3 DEF Flush, FlushStart, FlushEnd, SkipBlocked, Submit, Cancel, CallFails, ReceiveRefusal,
       ReceiveReceipt, AcknowledgeFails, Tick, Commands, LockVault, Drained, CloseVault,
       UnlockVault, Resume, ResumeSends, Kill, vars, disk, relay
  <2>2. \/ UNCHANGED stray
        \/ call # NoCall /\ stray' = stray \cup {call.request}
    BY <1>3 DEF Flush, FlushStart, FlushEnd, SkipBlocked, Submit, Cancel, CallFails, ReceiveRefusal,
       ReceiveReceipt, AcknowledgeFails, Tick, Commands, LockVault, Drained, CloseVault,
       UnlockVault, Resume, ResumeSends, Kill, Abandon, NoCall, vars, network
  <2> QED
    BY <2>1, <2>2, AcceptedFrame
<1>4. CASE RelayHandlesCall
  <2>1. /\ call # NoCall
        /\ RelayAccepts(call.request) \/ RelayRefuses(call.request)
        /\ UNCHANGED <<outbox, snapshot, stray, confirmed>>
    BY <1>4 DEF RelayHandlesCall, NoCall, disk
  <2>2. call.request \in Requests
    BY <2>1, CallFields DEF DInv, TypeOK
  <2> QED
    BY <2>1, <2>2, CallNotAhead, RelayAccepted
<1>5. CASE \E request \in stray : RelayHandlesStray(request)
  <2>1. PICK request \in stray : RelayHandlesStray(request)
    BY <1>5
  <2>2. /\ RelayAccepts(request) \/ RelayRefuses(request)
        /\ stray' \subseteq stray
        /\ UNCHANGED <<outbox, snapshot, confirmed>>
    BY <2>1 DEF RelayHandlesStray, disk
  <2>3. request \in Requests /\ Alone(request) /\ NotAhead(request)
    BY DEF DInv, TypeOK, AcceptedInv
  <2> QED
    BY <2>2, <2>3, RelayAccepted
<1>6. CASE RelayRestart
  <2>1. /\ store' = EmptyStore /\ accepted' = {}
        /\ UNCHANGED <<outbox, snapshot, stray, confirmed>>
    BY <1>6 DEF RelayRestart, disk, network
  <2>2. \A s \in Senders : store'.highest_counter_by_sender[s] = 0
    BY <2>1 DEF EmptyStore
  <2>3. HighestNotAhead'
    BY <2>1, <2>2 DEF HighestNotAhead, DInv, TypeOK
  <2> QED
    BY <2>1, <2>2, <2>3 DEF AcceptedInv, HighestIsAccepted, Alone, NotAhead
<1> QED
  BY <1>1, <1>2, <1>3, <1>4, <1>5, <1>6 DEF Next

LEMMA AcceptedInvariance == Spec => []AcceptedInv
<1>1. DInv /\ AcceptedInv /\ [Next]_vars => AcceptedInv'
  BY NextAccepted
<1> QED
  BY <1>1, InitAccepted, Invariance, PTL DEF Spec

(* A row is refused for one reason: the relay process that refuses it has  *)
(* accepted this very event before, the answer was lost, and the event has *)
(* expired.  No identifier conflicts, and a row that was never accepted is *)
(* never overtaken, not even by a stray.                                   *)
THEOREM OnlyExpiryRefuses == Spec => OnlyExpiredRefused
<1>1. ASSUME DInv, EventsInv, AcceptedInv, Next, call' # call, call'.state = "refused"
      PROVE  \E row \in outbox : row.request = call'.request /\ ExpiredUnconfirmed(row)
  <2>1. RelayHandlesCall
    <3>1. CASE Flush \/ Kill
      <4>1. call' = call \/ call' = NoCall \/ call' = [state |-> "sent", request |-> FirstItem.request]
        BY <3>1 DEF Flush, FlushStart, FlushEnd, SkipBlocked, Submit, Cancel, CallFails,
           ReceiveRefusal, ReceiveReceipt, Acknowledge, AcknowledgeFails, Kill, Abandon, network
      <4> QED
        BY <4>1, <1>1 DEF NoCall
    <3>2. CASE \/ \E channel \in Channels, device \in Devices, body \in Bodies :
                   QueueMessage(channel, device, body)
               \/ \E request \in stray : RelayHandlesStray(request)
               \/ RelayRestart \/ Tick \/ Commands
      BY <3>2, <1>1 DEF QueueMessage, RelayHandlesStray, RelayRestart, Tick, Commands, LockVault,
         Drained, CloseVault, UnlockVault, Resume, ResumeSends, network
    <3> QED
      BY <3>1, <3>2, <1>1 DEF Next
  <2>2. call # NoCall /\ call'.request = call.request /\ RelayRefuses(call.request)
    BY <1>1, <2>1 DEF RelayHandlesCall, NoCall
  <2>3. PICK row \in outbox : row.request = call.request
    BY <1>1, <2>2, CallIsGenuine
  <2> DEFINE request == row.request
             pruned == PruneExpired(store, now)
             stored == store.events_by_id[request.event_id]
  <2>4. request \in Requests /\ request.event_id \in EventIds
    BY <1>1, <2>2, <2>3, CallIsGenuine, RequestFields
  <2>5. /\ pruned.events_by_id[request.event_id] =
             IF stored # NoEvent /\ Alive(stored, now) THEN stored ELSE NoEvent
        /\ pruned.highest_counter_by_sender = store.highest_counter_by_sender
    BY <1>1, <2>4 DEF DInv, TypeOK, PruneExpired, StoreData
  <2>6. stored # NoEvent => stored.request = request
    BY <1>1, <2>4 DEF EventsInv, StoreReceipted, Receipted
  <2>7. EventIdConflict(pruned, request) \/ SenderCounterReplay(pruned, request)
    BY <2>2, <2>3 DEF RelayRefuses
  <2> HIDE DEF pruned
  <2>8. ~EventIdConflict(pruned, request)
    BY <2>5, <2>6 DEF EventIdConflict, Known
  <2>9. request \in accepted
    <3> DEFINE s == Sender(request)
               highest == store.highest_counter_by_sender
    <3>1. s \in Senders /\ request.sender_counter \in Nat /\ confirmed[s] \in Nat
          /\ highest[s] \in Nat
      BY <1>1, <2>4, RequestFields DEF DInv, TypeOK, StoreData
    <3>2. request.sender_counter = confirmed[s] + 1
      BY <1>1, <2>2, <2>3 DEF DInv, CallsInOrder
    <3>3. request.sender_counter <= highest[s]
      BY <2>5, <2>7, <2>8 DEF SenderCounterReplay
    <3>4. highest[s] = request.sender_counter /\ highest[s] > 0
      BY <1>1, <3>1, <3>2, <3>3 DEF AcceptedInv, HighestNotAhead
    <3>5. PICK r \in accepted : Sender(r) = s /\ r.sender_counter = highest[s]
      BY <1>1, <3>1, <3>4 DEF AcceptedInv, HighestIsAccepted
    <3>6. row.request = r
      BY <1>1, <3>4, <3>5 DEF AcceptedInv, Alone
    <3> QED
      BY <3>6
  <2>10. ExpiredUnconfirmed(row)
    BY <2>5, <2>7, <2>8, <2>9 DEF SenderCounterReplay, Known, ExpiredUnconfirmed
  <2> QED
    BY <2>2, <2>3, <2>10
<1>2. DInv /\ EventsInv /\ AcceptedInv /\ [Next]_vars =>
        [call' # call /\ call'.state = "refused" =>
           \E row \in outbox : row.request = call'.request /\ ExpiredUnconfirmed(row)]_vars
  BY <1>1
<1> QED
  BY <1>2, Invariance, EventsInvariance, AcceptedInvariance, PTL DEF Spec, OnlyExpiredRefused
=============================================================================
