---------------------------- MODULE OutboxStatus ----------------------------
(***************************************************************************)
(* What the outbox worker reports and what wakes it                        *)
(* (apps/desktop/src-tauri/src/outbox.rs, with the commands of lib.rs that *)
(* call it).                                                               *)
(*                                                                         *)
(* The status has three writers: the flush of the spawned task, the flush  *)
(* of the outbox_retry command, which take turns through run_lock, and     *)
(* pause(), which takes no lock.  Each of them computes a status first and *)
(* stores it later, so that they can overtake one another.  The task       *)
(* sleeps until it is kicked (tokio Notify: one permit is kept) or its     *)
(* timer fires.                                                            *)
(*                                                                         *)
(* Rows are numbered in the order in which they are queued.  The relay is  *)
(* reduced to its answers; Delivery models it.                             *)
(***************************************************************************)
EXTENDS Naturals, FiniteSets

CONSTANTS
  Devices,
  DeviceOf,       \* the device of each row
  OutboxLimit,    \* OUTBOX_LIMIT: rows one listing returns
  MaxRows,        \* bound: rows ever queued
  MaxLocks,       \* bound: vault_lock commands
  MaxFailures     \* bound: failed calls, refusals, failed reads, deletes and closes

Rows == 1 .. MaxRows

ASSUME StatusAssumption ==
  /\ MaxRows \in Nat
  /\ DeviceOf \in [Rows -> Devices]
  /\ OutboxLimit \in Nat \ {0}
  /\ MaxLocks \in Nat
  /\ MaxFailures \in Nat

VARIABLES
  queued,    \* number of rows queued so far
  outbox,    \* the rows in the vault
  open,      \* the vault holds a database connection
  stored,    \* vault_queue_message has committed a row and not yet kicked the task
  command,   \* the vault_lock or vault_unlock command in progress
  noted,     \* the pending count that pause() has read
  enabled,   \* OutboxWorker::enabled
  changed,   \* the running flush's receiver of enabled_tx has an unseen change
  kick,      \* OutboxWorker::kick holds a permit
  waiting,   \* the callers of flush_now that wait for run_lock
  holder,    \* the caller that holds it
  phase,     \* where the flush that holds run_lock is
  items,     \* the rows it has still to look at
  blocked,   \* its blocked_devices
  report,    \* its report
  status,    \* OutboxWorker::status
  locks,     \* how many vault_lock commands there have been
  failures   \* how many failures there have been

flush == <<holder, phase, items, blocked, report>>
vault == <<queued, outbox, open, stored>>
worker == <<enabled, changed, kick, waiting>>
bounds == <<locks, failures>>
vars == <<vault, command, noted, worker, flush, status, bounds>>

Callers == {"task", "retry"}

States == {"paused", "idle", "sending", "deferred"}

(* A status; rows (history) is the listing of the flush that computed it.  *)
OutboxWorkerStatus ==
  [state : States, pending : Nat, acknowledged : Nat, failed : Nat, rows : SUBSET Rows]

Report(state, pending, failed, rows) ==
  [state |-> state, pending |-> pending, acknowledged |-> 0, failed |-> failed, rows |-> rows]

Paused(pending) == Report("paused", pending, 0, {})

Sending(rows) == Report("sending", Cardinality(rows), 0, rows)

Deferred(pending, failed) == Report("deferred", pending, failed, {})

Init ==
  /\ queued = 0
  /\ outbox = {}
  /\ open = FALSE
  /\ stored = FALSE
  /\ command = "none"
  /\ noted = 0
  /\ enabled = FALSE
  /\ changed = FALSE
  /\ kick = FALSE
  /\ waiting = {}
  /\ holder = "nobody"
  /\ phase = "idle"
  /\ items = {}
  /\ blocked = {}
  /\ report = Paused(0)
  /\ status = Paused(0)
  /\ locks = 0
  /\ failures = 0

Fail ==
  /\ failures < MaxFailures
  /\ failures' = failures + 1
  /\ UNCHANGED locks

(* The spawned task is in its select!.                                     *)
TaskSleeps == holder # "task" /\ "task" \notin waiting

-----------------------------------------------------------------------------
(***************************************************************************)
(* vault_queue_message: the row is committed under the vault's mutex;      *)
(* afterwards notify_pending() kicks the task.  The user interface sends   *)
(* one message at a time (composerBusy).                                   *)
(***************************************************************************)
QueueMessage ==
  /\ open
  /\ ~stored
  /\ queued < MaxRows
  /\ queued' = queued + 1
  /\ outbox' = outbox \cup {queued + 1}
  /\ stored' = TRUE
  /\ UNCHANGED <<open, command, noted, worker, flush, status, bounds>>

(* Faulty: a busy task is not woken, and no permit is kept for it.         *)
NotifyWaiters == kick' = (kick \/ TaskSleeps)

NotifyOne == kick' = TRUE

NotifyPending ==
  /\ stored
  /\ stored' = FALSE
  /\ NotifyOne
  /\ UNCHANGED <<queued, outbox, open, command, noted, enabled, changed, waiting, flush, status,
                 bounds>>

-----------------------------------------------------------------------------
(***************************************************************************)
(* Who calls flush_now: the task when it wakes up and finds the worker     *)
(* enabled, and the user.                                                  *)
(***************************************************************************)
Wake ==
  /\ TaskSleeps
  /\ waiting' = IF enabled THEN waiting \cup {"task"} ELSE waiting
  /\ UNCHANGED <<vault, command, noted, enabled, changed, flush, status, bounds>>

Kicked == kick /\ kick' = FALSE /\ Wake

TimerFires == UNCHANGED kick /\ Wake

(* outbox_retry; the user interface sends one at a time (outboxBusy), and  *)
(* only while it takes the vault for unlocked.                             *)
OutboxRetry ==
  /\ open
  /\ holder # "retry"
  /\ waiting' = waiting \cup {"retry"}
  /\ UNCHANGED <<vault, command, noted, enabled, changed, kick, flush, status, bounds>>

-----------------------------------------------------------------------------
(***************************************************************************)
(* flush_now                                                               *)
(***************************************************************************)
InFlush == <<vault, command, noted, worker, status>>

Acquire(caller) ==
  /\ holder = "nobody"
  /\ caller \in waiting
  /\ holder' = caller
  /\ waiting' = waiting \ {caller}
  /\ phase' = "check"
  /\ UNCHANGED <<vault, command, noted, enabled, changed, kick, items, blocked, report, status,
                 bounds>>

(* The worker was disabled while the caller waited for run_lock.           *)
CheckEnabled ==
  /\ phase = "check"
  /\ \/ enabled /\ phase' = "list" /\ UNCHANGED report
     \/ ~enabled /\ phase' = "write" /\ report' = Paused(status.pending)
  /\ UNCHANGED <<InFlush, holder, items, blocked, bounds>>

(* list_pending: the first OutboxLimit rows.                               *)
Listing == {n \in outbox : Cardinality({k \in outbox : k <= n}) <= OutboxLimit}

(* Faulty: a device that was blocked once stays blocked.                   *)
ListKeepsBlocked ==
  /\ phase = "list"
  /\ open
  /\ phase' = "announce"
  /\ items' = Listing
  /\ report' = Sending(Listing)
  /\ UNCHANGED <<InFlush, holder, blocked, bounds>>

List ==
  /\ phase = "list"
  /\ open
  /\ phase' = "announce"
  /\ items' = Listing
  /\ blocked' = {}
  /\ report' = Sending(Listing)
  /\ UNCHANGED <<InFlush, holder, bounds>>

ListLocked ==
  /\ phase = "list"
  /\ ~open
  /\ phase' = "write"
  /\ report' = Paused(0)
  /\ UNCHANGED <<InFlush, holder, items, blocked, bounds>>

ListFails ==
  /\ phase = "list"
  /\ open
  /\ Fail
  /\ phase' = "write"
  /\ report' = Deferred(0, 1)
  /\ UNCHANGED <<InFlush, holder, items, blocked>>

(* set_status, and the flush subscribes to enabled_tx.                     *)
Announce ==
  /\ phase = "announce"
  /\ status' = report
  /\ phase' = "loop"
  /\ UNCHANGED <<vault, command, noted, worker, holder, items, blocked, report, bounds>>

First == CHOOSE n \in items : \A k \in items : n <= k

SkipBlocked ==
  /\ phase = "loop"
  /\ items # {}
  /\ DeviceOf[First] \in blocked
  /\ items' = items \ {First}
  /\ UNCHANGED <<InFlush, holder, phase, blocked, report, bounds>>

Submit ==
  /\ phase = "loop"
  /\ items # {}
  /\ DeviceOf[First] \notin blocked
  /\ enabled
  /\ phase' = "wait"
  /\ UNCHANGED <<InFlush, holder, items, blocked, report, bounds>>

(* The loop ends: nothing is left, the worker has been disabled before a   *)
(* submission, or enabled_tx is written to, with whatever value, while the *)
(* flush waits for the answer.                                             *)
LoopEnds ==
  /\ \/ phase = "loop" /\ items = {}
     \/ phase = "loop" /\ items # {} /\ DeviceOf[First] \notin blocked /\ ~enabled
     \/ phase = "wait" /\ changed
  /\ phase' = "relist"
  /\ changed' = FALSE
  /\ UNCHANGED <<vault, command, noted, enabled, kick, waiting, status, holder, items, blocked,
                 report, bounds>>

(* The relay has accepted the event.                                       *)
Accepted ==
  /\ phase = "wait"
  /\ phase' = "acknowledge"
  /\ UNCHANGED <<InFlush, holder, items, blocked, report, bounds>>

(* Faulty: a row that cannot be deleted counts as acknowledged.            *)
FailedDeleteCounts ==
  /\ phase \in {"wait", "acknowledge"}
  /\ Fail
  /\ phase' = "loop"
  /\ items' = items \ {First}
  /\ blocked' = blocked \cup {DeviceOf[First]}
  /\ report' = IF phase = "acknowledge" THEN [report EXCEPT !.acknowledged = @ + 1]
                                        ELSE [report EXCEPT !.failed = @ + 1]
  /\ UNCHANGED <<InFlush, holder>>

(* A refusal, a lost call or a bad receipt while it waits, or the row      *)
(* cannot be deleted: the row stays and its device is blocked.             *)
ItemFails ==
  /\ phase \in {"wait", "acknowledge"}
  /\ Fail
  /\ phase' = "loop"
  /\ items' = items \ {First}
  /\ blocked' = blocked \cup {DeviceOf[First]}
  /\ report' = [report EXCEPT !.failed = @ + 1]
  /\ UNCHANGED <<InFlush, holder>>

(* Faulty: the acknowledged item is looked at again.                       *)
AcknowledgeKeepsItem ==
  /\ phase = "acknowledge"
  /\ open
  /\ outbox' = outbox \ {First}
  /\ phase' = "loop"
  /\ report' = [report EXCEPT !.acknowledged = @ + 1]
  /\ UNCHANGED <<queued, open, stored, command, noted, worker, holder, items, blocked, status,
                 bounds>>

(* (That the vault is open here is Delivery's FlushOwnsVault.)             *)
Acknowledge ==
  /\ phase = "acknowledge"
  /\ open
  /\ outbox' = outbox \ {First}
  /\ phase' = "loop"
  /\ items' = items \ {First}
  /\ report' = [report EXCEPT !.acknowledged = @ + 1]
  /\ UNCHANGED <<queued, open, stored, command, noted, worker, holder, blocked, status, bounds>>

(* What is pending when the second listing fails: saturating_sub.          *)
PendingByCount ==
  IF report.acknowledged > report.pending THEN 0 ELSE report.pending - report.acknowledged

Relist ==
  /\ phase = "relist"
  /\ phase' = "decide"
  /\ \/ /\ report' = [report EXCEPT !.pending = Cardinality(Listing)]
        /\ UNCHANGED bounds
     \/ /\ Fail
        /\ report' = [report EXCEPT !.pending = PendingByCount]
  /\ UNCHANGED <<InFlush, holder, items, blocked>>

FinalState ==
  IF ~enabled THEN "paused"
  ELSE IF report.failed > 0 \/ report.pending > 0 THEN "deferred"
  ELSE "idle"

Decide ==
  /\ phase = "decide"
  /\ report' = [report EXCEPT !.state = FinalState]
  /\ phase' = "write"
  /\ UNCHANGED <<InFlush, holder, items, blocked, bounds>>

(* Faulty: a paused flush leaves the status to pause().                    *)
WriteUnlessPaused ==
  /\ phase = "write"
  /\ status' = IF report.state = "paused" THEN status ELSE report
  /\ report' = Paused(0)
  /\ phase' = "idle"
  /\ holder' = "nobody"
  /\ items' = {}
  /\ UNCHANGED <<vault, command, noted, worker, blocked, bounds>>

(* set_status, and run_lock is released.  The report goes with the flush.  *)
Write ==
  /\ phase = "write"
  /\ status' = report
  /\ report' = Paused(0)
  /\ phase' = "idle"
  /\ holder' = "nobody"
  /\ items' = {}
  /\ UNCHANGED <<vault, command, noted, worker, blocked, bounds>>

-----------------------------------------------------------------------------
(***************************************************************************)
(* The vault commands; the user interface runs one at a time (vaultBusy).  *)
(***************************************************************************)
(* enabled_tx.send_replace: a flush that has subscribed is told.           *)
Subscribed == {"loop", "wait", "acknowledge"}

SendReplace == changed' = (phase \in Subscribed)

(* vault_lock: pause() disables the worker, ...                            *)
Pause ==
  /\ command = "none"
  /\ open
  /\ locks < MaxLocks
  /\ locks' = locks + 1
  /\ command' = "pause"
  /\ enabled' = FALSE
  /\ SendReplace
  /\ UNCHANGED <<vault, noted, kick, waiting, flush, status, failures>>

(* ... reads the pending count of the present status, ...                  *)
PauseReads ==
  /\ command = "pause"
  /\ command' = "noted"
  /\ noted' = status.pending
  /\ UNCHANGED <<vault, worker, flush, status, bounds>>

(* ... and stores a status with that count.                                *)
PauseWrites ==
  /\ command = "noted"
  /\ command' = "drain"
  /\ status' = Paused(noted)
  /\ noted' = 0
  /\ UNCHANGED <<vault, worker, flush, bounds>>

(* pause_and_wait takes run_lock and lets go of it.                        *)
Drained ==
  /\ command = "drain"
  /\ holder = "nobody"
  /\ command' = "close"
  /\ UNCHANGED <<vault, noted, worker, flush, status, bounds>>

(* Vault::lock; a failing close loses the connection and resumes.          *)
CloseVault ==
  /\ command = "close"
  /\ open' = FALSE
  /\ \/ command' = "none" /\ UNCHANGED bounds
     \/ command' = "resume" /\ Fail
  /\ UNCHANGED <<queued, outbox, stored, noted, worker, flush, status>>

UnlockVault ==
  /\ command = "none"
  /\ ~open
  /\ open' = TRUE
  /\ command' = "resume"
  /\ UNCHANGED <<queued, outbox, stored, noted, worker, flush, status, bounds>>

(* resume() swaps the flag, ...                                            *)
Resume ==
  /\ command = "resume"
  /\ command' = IF enabled THEN "kick" ELSE "send"
  /\ enabled' = TRUE
  /\ UNCHANGED <<vault, noted, changed, kick, waiting, flush, status, bounds>>

(* ... if that changed it writes to enabled_tx, which cuts short a flush   *)
(* that has started in between, ...                                        *)
ResumeSends ==
  /\ command = "send"
  /\ command' = "kick"
  /\ SendReplace
  /\ UNCHANGED <<vault, noted, enabled, kick, waiting, flush, status, bounds>>

(* ... and kicks the task.                                                 *)
ResumeKicks ==
  /\ command = "kick"
  /\ command' = "none"
  /\ NotifyOne
  /\ UNCHANGED <<vault, noted, enabled, changed, waiting, flush, status, bounds>>

-----------------------------------------------------------------------------
FlushStep ==
  \/ CheckEnabled \/ List \/ ListLocked \/ Announce \/ SkipBlocked \/ Submit
  \/ LoopEnds \/ Accepted \/ Acknowledge \/ Relist \/ Decide \/ Write

Next ==
  \/ QueueMessage \/ NotifyPending
  \/ Kicked \/ TimerFires \/ OutboxRetry
  \/ \E caller \in Callers : Acquire(caller)
  \/ FlushStep \/ ListFails \/ ItemFails
  \/ Pause \/ PauseReads \/ PauseWrites \/ Drained \/ CloseVault
  \/ UnlockVault \/ Resume \/ ResumeSends \/ ResumeKicks

Spec == Init /\ [][Next]_vars

(***************************************************************************)
(* Fairness.  The task takes a kick, a flush goes on and its calls are     *)
(* answered, commands that were started finish, a locked vault is unlocked *)
(* in the end.  (The steps of the commands exclude one another, so that    *)
(* one WF stands for a WF of each.)  run_lock is a tokio mutex, which is   *)
(* handed out first come, first served: whoever waits for it gets it       *)
(* (strong fairness).  Nothing is assumed of the timer here.               *)
(***************************************************************************)
CommandGoesOn ==
  PauseReads \/ PauseWrites \/ CloseVault \/ UnlockVault \/ Resume \/ ResumeSends \/ ResumeKicks

Fairness ==
  /\ WF_vars(NotifyPending) /\ WF_vars(Kicked)
  /\ \A caller \in Callers : SF_vars(Acquire(caller))
  /\ WF_vars(FlushStep)
  /\ WF_vars(CommandGoesOn) /\ SF_vars(Drained)

FairSpec == Spec /\ Fairness

-----------------------------------------------------------------------------
(***************************************************************************)
(* Properties                                                              *)
(***************************************************************************)

(* Type invariant of vault, commands, worker and status.                   *)
TypeOK ==
  /\ queued \in 0 .. MaxRows
  /\ outbox \in SUBSET (1 .. queued)
  /\ open \in BOOLEAN
  /\ stored \in BOOLEAN
  /\ command \in {"none", "pause", "noted", "drain", "close", "resume", "send", "kick"}
  /\ noted \in Nat
  /\ enabled \in BOOLEAN
  /\ changed \in BOOLEAN
  /\ changed => phase \in Subscribed
  /\ kick \in BOOLEAN
  /\ waiting \in SUBSET Callers
  /\ holder \in Callers \cup {"nobody"}
  /\ phase \in {"idle", "check", "list", "announce", "loop", "wait", "acknowledge",
                "relist", "decide", "write"}
  /\ holder = "nobody" <=> phase = "idle"
  /\ items \in SUBSET outbox
  /\ blocked \in SUBSET Devices
  /\ report \in OutboxWorkerStatus
  /\ status \in OutboxWorkerStatus
  /\ locks \in Nat
  /\ failures \in Nat

(* The worker reports "sending" only while a flush runs, although pause()  *)
(* and the flush overwrite each other's status: the announcement of a      *)
(* flush that was paused meanwhile does not stay behind.                   *)
NoStaleSending == status.state = "sending" => holder # "nobody"

(* A worker that reports "idle" (shown as "synchron") has got rid of every *)
(* row its flush set out to send, also when the second listing failed.     *)
IdleMeansSent == status.state = "idle" => status.rows \cap outbox = {}

(* As long as nothing fails and a listing holds all rows, every row is     *)
(* sent without waiting for the retry timer: no kick is lost to a flush in *)
(* progress, to outbox_retry or to a lock.                                 *)
KicksSuffice ==
  outbox # {} ~> outbox = {} \/ failures > 0 \/ queued > OutboxLimit

(* With the timer, which fires every RETRY_INTERVAL, failures and a full   *)
(* listing only delay: again and again the worker reports that nothing is  *)
(* left.                                                                   *)
SynchronisedInTheEnd ==
  WF_vars(TimerFires) => []<>(status.state = "idle" /\ status.pending = 0)
=============================================================================
