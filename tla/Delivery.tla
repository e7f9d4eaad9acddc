------------------------------ MODULE Delivery ------------------------------
(***************************************************************************)
(* The send path of the desktop application: the vault's MLS outbox        *)
(* (crates/singularis-vault/src/vault.rs), the outbox worker               *)
(* (apps/desktop/src-tauri/src/outbox.rs), the vault commands that pause   *)
(* and resume it (apps/desktop/src-tauri/src/lib.rs), the HTTP call, and   *)
(* the relay's store (EventStore).                                         *)
(*                                                                         *)
(* The desktop process can be killed between any two steps; only the vault *)
(* survives.  A call can fail at the client while its request is still on  *)
(* the way: such a stray request may reach the relay at any later time.    *)
(* The relay can be restarted, which empties its store, and time passes,   *)
(* which expires what it holds.                                            *)
(*                                                                         *)
(* The worker's status is left out: it is reported, never read back.       *)
(***************************************************************************)
EXTENDS EventStore, FiniteSets

CONSTANTS
  OutboxLimit,      \* OUTBOX_LIMIT: rows one listing returns
  MaxRowid,         \* bound: number of outbox rows ever alive at once
  MaxTime,          \* bound: the clock stops there
  MaxDisturbances   \* bound: failed calls, failed writes, locks, kills, restarts

ASSUME DeliveryAssumption ==
  /\ OutboxLimit \in Nat \ {0}
  /\ MaxRowid \in Nat
  /\ MaxTime \in Nat
  /\ MaxDisturbances \in Nat

VARIABLES
  (* the vault, on disk *)
  outbox,       \* table mls_outbox: the rows [rowid, request]
  snapshot,     \* the outgoing counter of each sender in the MLS snapshot
  (* the desktop process *)
  open,         \* the vault holds a database connection
  command,      \* the vault_lock or vault_unlock command in progress
  enabled,      \* OutboxWorker::enabled
  changed,      \* flush_now's receiver of enabled_tx has an unseen change
  phase,        \* where flush_now is
  items,        \* the rows flush_now has still to look at
  blocked,      \* blocked_devices of this flush
  (* the network *)
  call,         \* the relay call flush_now is waiting for
  stray,        \* abandoned requests that may still arrive
  (* the relay *)
  store,        \* its event store
  now,          \* its clock
  (* history *)
  used,         \* event identifiers generated so far
  delivered,    \* highest counter of each sender a relay process has accepted
  accepted,     \* each sender's latest event the running relay process has accepted
  confirmed,    \* counter of each sender's last row to be deleted
  disturbances  \* how many disturbances there have been

disk == <<outbox, snapshot>>
worker == <<phase, items, blocked>>
process == <<open, command, enabled, changed>>
network == <<call, stray>>
relay == <<store, now, delivered, accepted>>
vars == <<disk, process, worker, network, relay, used, confirmed, disturbances>>

Row == [rowid : 1 .. MaxRowid, request : Requests]

NoCall == [state |-> "none"]

Calls ==
  {NoCall}
    \cup [state : {"sent", "refused"}, request : Requests]
    \cup [state : {"accepted"}, request : Requests, receipt : AcceptedEvent]

Init ==
  /\ outbox = {}
  /\ snapshot = [s \in Senders |-> 0]
  /\ open = FALSE
  /\ command = "none"
  /\ enabled = FALSE
  /\ changed = FALSE
  /\ phase = "idle"
  /\ items = {}
  /\ blocked = {}
  /\ call = NoCall
  /\ stray = {}
  /\ store = EmptyStore
  /\ now = 0
  /\ used = {}
  /\ delivered = [s \in Senders |-> 0]
  /\ accepted = {}
  /\ confirmed = [s \in Senders |-> 0]
  /\ disturbances = 0

Disturb ==
  /\ disturbances < MaxDisturbances
  /\ disturbances' = disturbances + 1

-----------------------------------------------------------------------------
(***************************************************************************)
(* vault_queue_message.  The MLS client is loaded from the vault, takes    *)
(* the sender's next counter and a fresh event identifier, and successor   *)
(* snapshot and outbox row are committed in one SQLite transaction.  An    *)
(* attempt that fails before the commit leaves nothing behind.             *)
(***************************************************************************)
Submission(channel, device, counter, id, body) ==
  [event_id |-> id, channel_id |-> channel, sender_device_id |-> device,
   sender_counter |-> counter, ttl_seconds |-> MaxTtl, body |-> body]

(* The rowid SQLite gives a new row: one more than the largest in use.     *)
IsNextRowid(n) ==
  /\ \A row \in outbox : row.rowid < n
  /\ n = 1 \/ \E row \in outbox : row.rowid = n - 1

(* store_mls_transaction: the successor snapshot and the outbox row are    *)
(* written by one transaction.                                             *)
StoreMlsTransaction(request) ==
  /\ snapshot' = [snapshot EXCEPT ![Sender(request)] = request.sender_counter]
  /\ \E n \in 1 .. MaxRowid :
       /\ IsNextRowid(n)
       /\ outbox' = outbox \cup {[rowid |-> n, request |-> request]}

(* EventId::new: an identifier never used before; which one is immaterial. *)
NewEventId == CHOOSE id \in EventIds \ used : TRUE

QueueMessage(channel, device, body) ==
  /\ open
  /\ used # EventIds
  /\ LET counter == snapshot[<<channel, device>>] + 1
         request == Submission(channel, device, counter, NewEventId, body)
     IN /\ request \in Requests
        /\ StoreMlsTransaction(request)
        /\ used' = used \cup {NewEventId}
  /\ UNCHANGED <<process, worker, network, relay, confirmed, disturbances>>

-----------------------------------------------------------------------------
(***************************************************************************)
(* OutboxWorker::flush_now.  It holds run_lock from FlushStart until it is *)
(* idle again, so there is one flush at a time.                            *)
(***************************************************************************)
(* list_all_mls_outbox: the first OutboxLimit rows by rowid.               *)
ListAllMlsOutbox ==
  {row \in outbox :
     Cardinality({r \in outbox : r.rowid <= row.rowid}) <= OutboxLimit}

FirstItem == CHOOSE row \in items : \A r \in items : row.rowid <= r.rowid

Device(row) == row.request.sender_device_id

(* A kick, the retry timer or outbox_retry starts a flush.  While the      *)
(* worker is disabled or the vault locked, it returns at once.             *)
FlushStart ==
  /\ phase = "idle"
  /\ enabled
  /\ open
  /\ phase' = "loop"
  /\ items' = ListAllMlsOutbox
  /\ blocked' = {}
  /\ UNCHANGED <<disk, process, network, relay, used, confirmed, disturbances>>

(* The receiver goes with the flush.                                       *)
Finish ==
  /\ changed' = FALSE
  /\ phase' = "idle"
  /\ items' = {}
  /\ blocked' = {}

(* The loop is over, or the worker has been disabled.                      *)
FlushEnd ==
  /\ phase = "loop"
  /\ items # {} => Device(FirstItem) \notin blocked /\ ~enabled
  /\ Finish
  /\ UNCHANGED <<disk, open, command, enabled, network, relay, used, confirmed, disturbances>>

SkipBlocked ==
  /\ phase = "loop"
  /\ items # {}
  /\ Device(FirstItem) \in blocked
  /\ items' = items \ {FirstItem}
  /\ UNCHANGED <<disk, process, phase, blocked, network, relay, used, confirmed, disturbances>>

(* Faulty: an item stays on the list until the flush gives it up.          *)
SubmitKeepsItem ==
  /\ phase = "loop"
  /\ items # {}
  /\ Device(FirstItem) \notin blocked
  /\ enabled
  /\ phase' = "wait"
  /\ call' = [state |-> "sent", request |-> FirstItem.request]
  /\ UNCHANGED <<disk, process, items, blocked, stray, relay, used, confirmed, disturbances>>

(* The next item is sent.  (validate_outbox_item accepts every row that    *)
(* store_mls_transaction writes.)                                          *)
Submit ==
  /\ phase = "loop"
  /\ items # {}
  /\ Device(FirstItem) \notin blocked
  /\ enabled
  /\ phase' = "wait"
  /\ call' = [state |-> "sent", request |-> FirstItem.request]
  /\ items' = items \ {FirstItem}
  /\ UNCHANGED <<disk, process, blocked, stray, relay, used, confirmed, disturbances>>

(* What becomes of a call its client no longer waits for: a request that   *)
(* has not been answered is lost or becomes a stray.                       *)
Abandon ==
  /\ call' = NoCall
  /\ \/ UNCHANGED stray
     \/ call.state = "sent" /\ stray' = stray \cup {call.request}

(* enabled_tx has been written to since the flush subscribed: select!      *)
(* takes the other branch and drops the call, whatever the new value is.   *)
Cancel ==
  /\ phase = "wait"
  /\ changed
  /\ Abandon
  /\ Finish
  /\ UNCHANGED <<disk, open, command, enabled, relay, used, confirmed, disturbances>>

(* Faulty: the flush goes on with the device's later events.               *)
GoOnWithDevice ==
  /\ phase' = "loop"
  /\ UNCHANGED <<items, blocked>>

BlockDevice ==
  /\ phase' = "loop"
  /\ blocked' = blocked \cup {call.request.sender_device_id}
  /\ UNCHANGED items

(* Unreachable, timed out, or an unreadable response.                      *)
CallFails ==
  /\ phase = "wait"
  /\ Disturb
  /\ BlockDevice
  /\ Abandon
  /\ UNCHANGED <<disk, process, relay, used, confirmed>>

ValidReceipt(submission, receipt) ==
  /\ receipt.event_id = submission.event_id
  /\ receipt.channel_id = submission.channel_id
  /\ receipt.sequence > 0
  /\ receipt.expires_at > receipt.accepted_at

(* Any status but 202, or a receipt for something else: try again in a     *)
(* later flush, and nothing more of this device in this one.               *)
ReceiveRefusal ==
  /\ phase = "wait"
  /\ \/ call.state = "refused"
     \/ call.state = "accepted" /\ ~ValidReceipt(call.request, call.receipt)
  /\ BlockDevice
  /\ call' = NoCall
  /\ UNCHANGED <<disk, process, stray, relay, used, confirmed, disturbances>>

ReceiveReceipt ==
  /\ phase = "wait"
  /\ call.state = "accepted"
  /\ ValidReceipt(call.request, call.receipt)
  /\ phase' = "acknowledge"
  /\ UNCHANGED <<disk, process, items, blocked, network, relay, used, confirmed, disturbances>>

(* Faulty: the DELETE names the device only.                               *)
AcknowledgeDevice ==
  /\ phase = "acknowledge"
  /\ open
  /\ outbox' = {row \in outbox : Device(row) # call.request.sender_device_id}
  /\ confirmed' = [confirmed EXCEPT ![Sender(call.request)] = call.request.sender_counter]
  /\ phase' = "loop"
  /\ call' = NoCall
  /\ UNCHANGED <<snapshot, process, items, blocked, stray, relay, used, disturbances>>

(* acknowledge_mls_outbox: DELETE the row of this device and event.  (The  *)
(* branch for a vault that was locked meanwhile is never taken, as         *)
(* FlushOwnsVault shows.)                                                  *)
Acknowledge ==
  /\ phase = "acknowledge"
  /\ open
  /\ LET gone == {row \in outbox : /\ Device(row) = call.request.sender_device_id
                                   /\ row.request.event_id = call.receipt.event_id}
     IN /\ outbox' = outbox \ gone
        /\ confirmed' = [s \in Senders |->
             IF \E row \in gone : Sender(row.request) = s
             THEN (CHOOSE row \in gone : Sender(row.request) = s).request.sender_counter
             ELSE confirmed[s]]
  /\ phase' = "loop"
  /\ call' = NoCall
  /\ UNCHANGED <<snapshot, process, items, blocked, stray, relay, used, disturbances>>

(* The DELETE fails: the row stays and the device is blocked.              *)
AcknowledgeFails ==
  /\ phase = "acknowledge"
  /\ open
  /\ Disturb
  /\ BlockDevice
  /\ call' = NoCall
  /\ UNCHANGED <<disk, process, stray, relay, used, confirmed>>

-----------------------------------------------------------------------------
(***************************************************************************)
(* The relay: submit_event on a request that arrives, with the outcomes of *)
(* accept().  (How a stale clock reading behaves is Relay's subject.)      *)
(***************************************************************************)
Delivered(request) ==
  /\ delivered' = [delivered EXCEPT ![Sender(request)] =
                     IF request.sender_counter > @ THEN request.sender_counter ELSE @]
  /\ accepted' = {r \in accepted : Sender(r) # Sender(request)} \cup {request}

(* The receipt a 202 carries: the stored one or a new one.                 *)
ReceiptFor(request) ==
  LET pruned == PruneExpired(store, now) IN
  IF Known(pruned, request)
  THEN pruned.events_by_id[request.event_id].receipt
  ELSE NewReceipt(pruned, request, now)

RelayAccepts(request) ==
  LET pruned == PruneExpired(store, now) IN
  \/ /\ ExactRepeat(pruned, request)
     /\ store' = pruned
     /\ UNCHANGED <<delivered, accepted>>
  \/ /\ Fresh(pruned, request)
     /\ store' = Insert(pruned, request, ReceiptFor(request))
     /\ Delivered(request)

RelayRefuses(request) ==
  LET pruned == PruneExpired(store, now) IN
  /\ EventIdConflict(pruned, request) \/ SenderCounterReplay(pruned, request)
  /\ store' = pruned
  /\ UNCHANGED <<delivered, accepted>>

(* The request the worker waits for arrives.                               *)
RelayHandlesCall ==
  /\ call.state = "sent"
  /\ \/ /\ RelayAccepts(call.request)
        /\ call' = [state |-> "accepted", request |-> call.request,
                    receipt |-> ReceiptFor(call.request)]
     \/ /\ RelayRefuses(call.request)
        /\ call' = [state |-> "refused", request |-> call.request]
  /\ UNCHANGED <<disk, process, worker, stray, now, used, confirmed, disturbances>>

(* An abandoned request arrives; its answer goes nowhere.  It may stay     *)
(* around: the same event may have been abandoned more than once.          *)
RelayHandlesStray(request) ==
  /\ request \in stray
  /\ RelayAccepts(request) \/ RelayRefuses(request)
  /\ stray' \in {stray, stray \ {request}}
  /\ UNCHANGED <<disk, process, worker, call, now, used, confirmed, disturbances>>

RelayRestart ==
  /\ Disturb
  /\ store # EmptyStore
  /\ store' = EmptyStore
  /\ accepted' = {}
  /\ UNCHANGED <<disk, process, worker, network, now, delivered, used, confirmed>>

Tick ==
  /\ now < MaxTime
  /\ now' = now + 1
  /\ UNCHANGED <<disk, process, worker, network, store, delivered, accepted, used, confirmed,
                 disturbances>>

-----------------------------------------------------------------------------
(***************************************************************************)
(* The vault commands.  The user interface runs one at a time (vaultBusy). *)
(***************************************************************************)
(* enabled_tx.send_replace: a flush that has subscribed is told.           *)
SendReplace == changed' = (phase # "idle")

(* vault_lock: pause_and_wait() disables the worker, ...                   *)
LockVault ==
  /\ command = "none"
  /\ open
  /\ Disturb
  /\ command' = "drain"
  /\ enabled' = FALSE
  /\ SendReplace
  /\ UNCHANGED <<disk, open, worker, network, relay, used, confirmed>>

(* Faulty: the lock command does not wait for the running flush.           *)
DrainedAtOnce ==
  /\ command = "drain"
  /\ command' = "close"
  /\ UNCHANGED <<disk, open, enabled, changed, worker, network, relay, used, confirmed,
                 disturbances>>

(* ... waits for run_lock and lets go of it, ...                           *)
Drained ==
  /\ command = "drain"
  /\ phase = "idle"
  /\ command' = "close"
  /\ UNCHANGED <<disk, open, enabled, changed, worker, network, relay, used, confirmed,
                 disturbances>>

(* ... and Vault::lock takes the connection away.  When closing it fails   *)
(* the connection is gone all the same, and the worker is resumed.         *)
CloseVault ==
  /\ command = "close"
  /\ open' = FALSE
  /\ \/ command' = "none" /\ UNCHANGED disturbances
     \/ command' = "resume" /\ Disturb
  /\ UNCHANGED <<disk, enabled, changed, worker, network, relay, used, confirmed>>

(* vault_unlock (and vault_initialize): the connection is opened, and once *)
(* the blocking task has been awaited, the worker is resumed.              *)
UnlockVault ==
  /\ command = "none"
  /\ ~open
  /\ open' = TRUE
  /\ command' = "resume"
  /\ UNCHANGED <<disk, enabled, changed, worker, network, relay, used, confirmed, disturbances>>

(* resume() swaps the flag, and only if that changed it ...                *)
Resume ==
  /\ command = "resume"
  /\ command' = IF enabled THEN "none" ELSE "send"
  /\ enabled' = TRUE
  /\ UNCHANGED <<disk, open, changed, worker, network, relay, used, confirmed, disturbances>>

(* ... writes to enabled_tx, which cuts short a flush that has started in  *)
(* between.                                                                *)
ResumeSends ==
  /\ command = "send"
  /\ command' = "none"
  /\ SendReplace
  /\ UNCHANGED <<disk, open, enabled, worker, network, relay, used, confirmed, disturbances>>

(* The desktop process is killed.                                          *)
Kill ==
  /\ Disturb
  /\ open' = FALSE
  /\ command' = "none"
  /\ enabled' = FALSE
  /\ Finish
  /\ Abandon
  /\ UNCHANGED <<disk, relay, used, confirmed>>

-----------------------------------------------------------------------------
Flush ==
  \/ FlushStart \/ FlushEnd \/ SkipBlocked \/ Submit \/ Cancel
  \/ CallFails \/ ReceiveRefusal \/ ReceiveReceipt
  \/ Acknowledge \/ AcknowledgeFails

Commands == LockVault \/ Drained \/ CloseVault \/ UnlockVault \/ Resume \/ ResumeSends

Next ==
  \/ \E channel \in Channels, device \in Devices, body \in Bodies :
        QueueMessage(channel, device, body)
  \/ Flush
  \/ RelayHandlesCall
  \/ \E request \in stray : RelayHandlesStray(request)
  \/ RelayRestart
  \/ Tick
  \/ Commands
  \/ Kill

Spec == Init /\ [][Next]_vars

(***************************************************************************)
(* Fairness.  The spawned worker task keeps running: its timer starts a    *)
(* flush every RETRY_INTERVAL and flush_now never stops halfway.  A relay  *)
(* answers a request it has received.  Commands that were started finish,  *)
(* and the user eventually unlocks a locked vault.  (The steps of the      *)
(* worker, and those of the commands, exclude one another, so that one WF  *)
(* stands for a WF of each.)  Nothing is assumed of new messages, strays,  *)
(* time, locking, kills and restarts.                                      *)
(***************************************************************************)
FlushStep ==
  FlushEnd \/ SkipBlocked \/ Submit \/ Cancel \/ ReceiveRefusal \/ ReceiveReceipt \/ Acknowledge

CommandStep == Drained \/ CloseVault \/ UnlockVault \/ Resume \/ ResumeSends

Fairness ==
  /\ WF_vars(FlushStart \/ FlushStep)
  /\ WF_vars(RelayHandlesCall)
  /\ WF_vars(CommandStep)

FairSpec == Spec /\ Fairness

-----------------------------------------------------------------------------
(***************************************************************************)
(* Properties                                                              *)
(***************************************************************************)

(* Type invariant of vault, process, network, relay and history.  What a   *)
(* flush has still to look at is still there: an acknowledged row is not   *)
(* submitted again.                                                        *)
TypeOK ==
  /\ outbox \in SUBSET Row
  /\ snapshot \in [Senders -> Nat]
  /\ open \in BOOLEAN
  /\ command \in {"none", "drain", "close", "resume", "send"}
  /\ enabled \in BOOLEAN
  /\ changed \in BOOLEAN
  /\ phase \in {"idle", "loop", "wait", "acknowledge"}
  /\ items \in SUBSET outbox
  /\ blocked \in SUBSET Devices
  /\ call \in Calls
  /\ stray \in SUBSET Requests
  /\ store \in StoreData
  /\ now \in Nat
  /\ used \in SUBSET EventIds
  /\ delivered \in [Senders -> Nat]
  /\ accepted \in SUBSET Requests
  /\ confirmed \in [Senders -> Nat]
  /\ disturbances \in Nat

RowsOf(s) == {row \in outbox : Sender(row.request) = s}

(* Whatever is killed, locked, lost or refused: the rows of a sender are   *)
(* exactly the events it has committed and not yet acknowledged, and the   *)
(* order of their rowids, in which the worker submits them, is the order   *)
(* of their counters.                                                      *)
OutboxComplete ==
  \A s \in Senders :
    /\ {row.request.sender_counter : row \in RowsOf(s)} = (confirmed[s] + 1) .. snapshot[s]
    /\ \A r, t \in RowsOf(s) :
         r.rowid < t.rowid <=> r.request.sender_counter < t.request.sender_counter

(* vault_lock closes the database only when no flush is running, although  *)
(* pause_and_wait lets go of run_lock before the connection is taken: a    *)
(* flush never sees the vault locked halfway.                              *)
FlushOwnsVault == phase # "idle" => open

Ordered == INSTANCE OrderedOutbox WITH queued <- snapshot

(* The send path implements OrderedOutbox: events of a sender reach the    *)
(* relay in counter order and without a gap, although failed calls leave   *)
(* strays behind and relays restart, and a row is deleted only after its   *)
(* event has been accepted, in the same order.                             *)
ImplementsOrderedOutbox == Ordered!Spec

(* Every committed event is acknowledged in the end, once disturbances     *)
(* stop: "wiederholt ihn bei Netzfehlern idempotent" (Singularis.md:382).  *)
EventuallyConfirmed ==
  \A s \in Senders : \A n \in 1 .. MaxRowid : snapshot[s] >= n ~> confirmed[s] >= n

(* The relay has accepted the event of a row and, without a restart since, *)
(* no longer holds it: the answer was lost and the event has expired.      *)
ExpiredUnconfirmed(row) ==
  LET stored == store.events_by_id[row.request.event_id] IN
  /\ row.request \in accepted
  /\ stored = NoEvent \/ ~Alive(stored, now)

(* Nothing but such a row can stop the outbox: once disturbances stop,     *)
(* every event is acknowledged, whatever was lost, killed, locked or       *)
(* restarted before, and however many rows are ahead of it in the listing. *)
(* (Such a row stops other devices too, when the listing is full of rows   *)
(* of the blocked one.)                                                    *)
ConfirmedUnlessExpired ==
  \A s \in Senders : \A n \in 1 .. MaxRowid :
    snapshot[s] >= n ~> confirmed[s] >= n \/ \E row \in outbox : ExpiredUnconfirmed(row)
=============================================================================
