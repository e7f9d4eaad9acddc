------------------------- MODULE OutboxStatusProofs -------------------------
(***************************************************************************)
(* Proofs about OutboxStatus for every number of rows, devices, locks and  *)
(* failures and every listing limit: what the worker reports is true.      *)
(*                                                                         *)
(* "sending" cannot stay behind because the last status of a flush is      *)
(* stored before run_lock is released.  That "idle" means sent rests on    *)
(* two facts: without a failure, a row that left the flush's list has left *)
(* the outbox (Accounted); and a flush that is cut short does not decide   *)
(* for "idle", because its second listing, or its own count when that      *)
(* fails, still shows the rows it has not looked at (Counted).             *)
(*                                                                         *)
(* At the end: no wake-up of the worker is lost (NoKickLost).              *)
(***************************************************************************)
EXTENDS OutboxStatus, FiniteSetTheorems, WellFoundedInduction, TLAPS

(* From the listing to the decision.                                       *)
Sweep == {"announce", "loop", "wait", "acknowledge", "relist", "decide"}

(* A call is made for a row that is still to be looked at.                 *)
ItemAtHand == phase \in {"wait", "acknowledge"} => items # {}

(* A report never speaks of rows that are not queued yet.                  *)
RowsQueued == report.rows \subseteq 1 .. queued /\ status.rows \subseteq 1 .. queued

(* Unless something has failed, what is still there of the listing is      *)
(* still to be looked at, and no device is blocked.                        *)
Accounted ==
  phase \in Sweep /\ report.failed = 0 => blocked = {} /\ report.rows \cap outbox \subseteq items

(* Unless something has failed, the rows acknowledged and the rows still   *)
(* to be looked at add up to the listing, and once the pending rows have   *)
(* been counted anew, none is left of the listing if none is pending.      *)
Counted ==
  report.failed = 0 =>
    /\ phase \in Sweep \ {"decide"} => report.pending = report.acknowledged + Cardinality(items)
    /\ phase = "decide" /\ report.pending = 0 => report.rows \cap outbox = {}

(* What is about to be stored as the flush's first and last status.        *)
ReportSettled ==
  /\ phase = "announce" => report.state = "sending"
  /\ phase = "write" =>
       /\ report.state # "sending"
       /\ report.state = "idle" => report.rows \cap outbox = {}

SInv ==
  /\ TypeOK
  /\ ItemAtHand
  /\ RowsQueued
  /\ Accounted
  /\ Counted
  /\ ReportSettled
  /\ NoStaleSending
  /\ IdleMeansSent

-----------------------------------------------------------------------------
(* The listing is a finite part of the outbox.                             *)
LEMMA ListingType ==
  ASSUME TypeOK
  PROVE  Listing \subseteq outbox /\ Cardinality(Listing) \in Nat
<1>1. Listing \subseteq outbox /\ outbox \subseteq 1 .. queued /\ queued \in Nat
  BY StatusAssumption DEF TypeOK, Listing
<1>2. IsFiniteSet(1 .. queued)
  BY <1>1, FS_Interval
<1>3. IsFiniteSet(Listing)
  BY <1>1, <1>2, FS_Subset
<1> QED
  BY <1>1, <1>3, FS_CardinalityType

(* A set of numbers has a smallest one.                                    *)
LEMMA MinExists ==
  ASSUME NEW T, T \subseteq Nat, T # {}
  PROVE  \E n \in T : \A k \in T : n <= k
<1> DEFINE R == OpToRel(<, Nat)
<1>1. PICK n \in T : \A k \in T : ~ (<<k, n>> \in R)
  <2>1. IsWellFoundedOn(R, Nat)
    BY NatLessThanWellFounded, Zenon
  <2> HIDE DEF R
  <2> QED
    BY <2>1, WFMin
<1>2. \A k \in T : ~(k < n)
  BY <1>1 DEF OpToRel
<1> QED
  BY <1>2

(* A listing without rows is that of an empty outbox.                      *)
LEMMA EmptyListing ==
  ASSUME TypeOK, Cardinality(Listing) = 0
  PROVE  outbox = {}
<1>1. outbox \subseteq 1 .. queued /\ queued \in Nat /\ OutboxLimit \in Nat \ {0}
  BY StatusAssumption DEF TypeOK
<1>0. outbox \subseteq Nat
  BY <1>1
<1>2. ASSUME outbox # {}
      PROVE  Listing # {}
  <2>1. PICK n \in outbox : \A k \in outbox : n <= k
    BY <1>0, <1>2, MinExists
  <2> DEFINE Before == {k \in outbox : k <= n}
  <2>5. \A k \in outbox : k <= n => k = n
    BY <1>0, <2>1
  <2>6. n <= n
    BY <1>0, <2>1
  <2>2. Before = {n}
    BY <2>5, <2>6, <2>1
  <2>3. Cardinality({n}) = 1
    BY FS_Singleton
  <2>4. Cardinality(Before) <= OutboxLimit
    BY <1>1, <2>2, <2>3
  <2> QED
    BY <2>1, <2>4 DEF Listing
<1>3. IsFiniteSet(Listing)
  <2>1. IsFiniteSet(1 .. queued) /\ Listing \subseteq outbox
    BY <1>1, FS_Interval DEF Listing
  <2> QED
    BY <1>1, <2>1, FS_Subset
<1>4. Listing = {}
  BY <1>3, FS_EmptySet
<1> QED
  BY <1>2, <1>4

(* The rows still to be looked at have a first one, and are one less       *)
(* without it.                                                             *)
LEMMA FirstExists ==
  ASSUME TypeOK, items # {}
  PROVE  /\ First \in items /\ First \in Rows /\ DeviceOf[First] \in Devices
         /\ Cardinality(items \ {First}) = Cardinality(items) - 1
<1>1. items \subseteq Nat /\ items \subseteq Rows /\ items \subseteq 1 .. queued /\ queued \in Nat
  BY StatusAssumption DEF TypeOK, Rows
<1>2. \E n \in items : \A k \in items : n <= k
  BY <1>1, MinExists
<1>3. First \in items
  BY <1>2 DEF First
<1>4. IsFiniteSet(items)
  <2>1. IsFiniteSet(1 .. queued)
    BY <1>1, FS_Interval
  <2> QED
    BY <1>1, <2>1, FS_Subset
<1>5. Cardinality(items \ {First}) = Cardinality(items) - 1
  BY <1>3, <1>4, FS_RemoveElement
<1> QED
  BY <1>1, <1>3, <1>5, StatusAssumption

(* How many rows are still to be looked at.                                *)
LEMMA ItemsCounted ==
  ASSUME TypeOK
  PROVE  /\ Cardinality(items) \in Nat
         /\ Cardinality(items) = 0 => items = {}
<1>1. items \subseteq 1 .. queued /\ queued \in Nat
  BY StatusAssumption DEF TypeOK
<1>2. IsFiniteSet(items)
  <2>1. IsFiniteSet(1 .. queued)
    BY <1>1, FS_Interval
  <2> QED
    BY <1>1, <2>1, FS_Subset
<1> QED
  BY <1>2, FS_CardinalityType, FS_EmptySet

(* What the three kinds of report are.                                     *)
LEMMA ReportFields ==
  ASSUME NEW state \in States, NEW pending \in Nat, NEW failed \in Nat, NEW rows \in SUBSET Rows
  PROVE  LET r == Report(state, pending, failed, rows) IN
         /\ r \in OutboxWorkerStatus
         /\ r.state = state /\ r.failed = failed /\ r.rows = rows
         /\ r.pending = pending /\ r.acknowledged = 0
BY DEF Report, OutboxWorkerStatus

(* The invariant holds at the start.                                       *)
LEMMA InitSInv == Init => SInv
<1> SUFFICES ASSUME Init PROVE SInv
  OBVIOUS
<1>1. Paused(0) \in OutboxWorkerStatus /\ Paused(0).state = "paused" /\ Paused(0).rows = {}
  BY ReportFields DEF Paused, States
<1>2. queued \in 0 .. MaxRows /\ noted \in Nat /\ locks \in Nat /\ failures \in Nat
  BY StatusAssumption DEF Init
<1>3. holder \in Callers \cup {"nobody"} /\ (holder = "nobody" <=> phase = "idle")
  BY DEF Init
<1>4. TypeOK
  BY <1>1, <1>2, <1>3 DEF Init, TypeOK
<1> QED
  BY <1>1, <1>4 DEF Init, SInv, ItemAtHand, RowsQueued, Counted, Accounted,
     ReportSettled, NoStaleSending, IdleMeansSent, Sweep

-----------------------------------------------------------------------------
(***************************************************************************)
(* Steps outside the flush.                                                *)
(***************************************************************************)
(* They leave rows and flush alone and store nothing but "paused".         *)
LEMMA OutsideStep ==
  ASSUME SInv, UNCHANGED <<queued, outbox, holder, phase, items, blocked, report>>,
         UNCHANGED status \/ \E n \in Nat : status' = Paused(n),
         TypeOK'
  PROVE  SInv'
<1>1. \/ UNCHANGED status
      \/ status'.state = "paused" /\ status'.rows = {}
  BY ReportFields DEF Paused, States
<1>2. ItemAtHand' /\ Accounted' /\ Counted' /\ ReportSettled'
  BY DEF SInv, ItemAtHand, Accounted, Counted, ReportSettled
<1>3. RowsQueued' /\ NoStaleSending' /\ IdleMeansSent'
  BY <1>1 DEF SInv, RowsQueued, NoStaleSending, IdleMeansSent
<1> QED
  BY <1>2, <1>3 DEF SInv

(* A new row is in no report.                                              *)
LEMMA QueueStep ==
  ASSUME SInv, QueueMessage
  PROVE  SInv'
<1>1. /\ TypeOK /\ queued' = queued + 1 /\ queued < MaxRows /\ stored' = TRUE
      /\ outbox' = outbox \cup {queued + 1}
      /\ UNCHANGED <<open, command, noted, enabled, changed, kick, waiting, holder, phase, items,
                     blocked, report, status, locks, failures>>
  BY DEF SInv, QueueMessage, worker, flush, bounds
<1>2. queued \in Nat /\ outbox \subseteq 1 .. queued
  BY <1>1, StatusAssumption DEF TypeOK
<1>3. /\ queued' \in 0 .. MaxRows /\ outbox' \in SUBSET (1 .. queued')
      /\ 1 .. queued \subseteq 1 .. queued' /\ queued + 1 \notin 1 .. queued
  BY <1>1, <1>2, StatusAssumption
<1>4. TypeOK'
  BY <1>1, <1>3 DEF TypeOK
<1>5. ItemAtHand' /\ NoStaleSending'
  BY <1>1 DEF SInv, ItemAtHand, NoStaleSending
<1>6. RowsQueued' /\ Accounted' /\ Counted' /\ ReportSettled' /\ IdleMeansSent'
  BY <1>1, <1>3 DEF SInv, RowsQueued, Accounted, Counted, ReportSettled, IdleMeansSent
<1> QED
  BY <1>4, <1>5, <1>6 DEF SInv

(* Kicks, the timer and outbox_retry.                                      *)
LEMMA WakeStep ==
  ASSUME SInv, NotifyPending \/ Kicked \/ TimerFires \/ OutboxRetry
  PROVE  SInv'
<1>1. /\ TypeOK
      /\ UNCHANGED <<queued, outbox, open, command, noted, enabled, changed, holder, phase, items,
                     blocked, report, status, locks, failures>>
      /\ kick' \in BOOLEAN /\ stored' \in BOOLEAN /\ waiting' \in SUBSET Callers
  BY DEF SInv, TypeOK, NotifyPending, NotifyOne, Kicked, TimerFires, Wake, OutboxRetry, Callers,
     vault, flush, bounds
<1>2. TypeOK'
  BY <1>1 DEF TypeOK
<1> QED
  BY <1>1, <1>2, OutsideStep

(* Only a flush that has subscribed is told.                               *)
LEMMA SendReplaceTells ==
  ASSUME SendReplace, UNCHANGED phase
  PROVE  changed' \in BOOLEAN /\ (changed' => phase' \in Subscribed)
<1>1. changed' = (phase \in Subscribed)
  BY DEF SendReplace
<1>2. changed' \in BOOLEAN
  BY <1>1
<1>3. changed' => phase \in Subscribed
  BY <1>1
<1>4. Subscribed' = Subscribed
  BY DEF Subscribed
<1> QED
  BY <1>2, <1>3, <1>4

(* vault_lock disables the worker, reads the count and stores a status.    *)
LEMMA PauseStep ==
  ASSUME SInv, Pause \/ PauseReads \/ PauseWrites
  PROVE  SInv'
<1>1. /\ TypeOK
      /\ UNCHANGED <<queued, outbox, open, stored, kick, waiting, holder, phase, items, blocked,
                     report, failures>>
      /\ command' \in {"pause", "noted", "drain"}
  BY DEF SInv, Pause, PauseReads, PauseWrites, vault, worker, flush, bounds
<1>2. enabled' \in BOOLEAN /\ changed' \in BOOLEAN /\ (changed' => phase' \in Subscribed)
  <2>1. CASE Pause
    <3>1. SendReplace /\ enabled' = FALSE
      BY <2>1 DEF Pause
    <3> QED
      BY <3>1, <1>1, SendReplaceTells
  <2>2. CASE PauseReads \/ PauseWrites
    BY <2>2, <1>1 DEF TypeOK, PauseReads, PauseWrites, worker
  <2> QED
    BY <2>1, <2>2
<1>3. locks' \in Nat
  BY <1>1 DEF TypeOK, Pause, PauseReads, PauseWrites, bounds
<1>4. status.pending \in Nat /\ noted \in Nat
  BY <1>1 DEF TypeOK, OutboxWorkerStatus
<1>5. noted' \in Nat /\ (status' = status \/ \E n \in Nat : status' = Paused(n))
  BY <1>4 DEF Pause, PauseReads, PauseWrites
<1>6. status' \in OutboxWorkerStatus
  BY <1>1, <1>5, ReportFields DEF TypeOK, Paused, States
<1>7. TypeOK'
  BY <1>1, <1>2, <1>3, <1>5, <1>6 DEF TypeOK
<1> QED
  BY <1>1, <1>5, <1>7, OutsideStep

(* The rest of the vault commands.                                         *)
LEMMA CommandStep ==
  ASSUME SInv, Drained \/ CloseVault \/ UnlockVault \/ Resume \/ ResumeSends \/ ResumeKicks
  PROVE  SInv'
<1>1. /\ TypeOK
      /\ UNCHANGED <<queued, outbox, stored, noted, waiting, holder, phase, items, blocked, report,
                     status, locks>>
  BY DEF SInv, Drained, CloseVault, UnlockVault, Resume, ResumeSends, ResumeKicks, Fail, vault,
     worker, flush, bounds
<1>2. failures' \in Nat
  BY <1>1 DEF TypeOK, Drained, CloseVault, UnlockVault, Resume, ResumeSends, ResumeKicks, Fail,
     bounds
<1>3. /\ open' \in BOOLEAN /\ kick' \in BOOLEAN /\ enabled' \in BOOLEAN
      /\ command' \in {"none", "close", "resume", "send", "kick"}
  BY <1>1 DEF TypeOK, Drained, CloseVault, UnlockVault, Resume, ResumeSends, ResumeKicks, NotifyOne,
     vault, worker
<1>5. changed' \in BOOLEAN /\ (changed' => phase' \in Subscribed)
  <2>1. CASE ResumeSends
    BY <2>1, <1>1, SendReplaceTells DEF ResumeSends
  <2>2. CASE Drained \/ CloseVault \/ UnlockVault \/ Resume \/ ResumeKicks
    BY <2>2, <1>1 DEF TypeOK, Drained, CloseVault, UnlockVault, Resume, ResumeKicks, worker
  <2> QED
    BY <2>1, <2>2
<1>4. TypeOK'
  BY <1>1, <1>2, <1>3, <1>5 DEF TypeOK
<1> QED
  BY <1>1, <1>4, OutsideStep

-----------------------------------------------------------------------------
(***************************************************************************)
(* The flush.                                                              *)
(***************************************************************************)
(* A step of the flush: which of the invariant's parts are then still to   *)
(* be shown.                                                               *)
LEMMA FlushFrame ==
  ASSUME SInv,
         UNCHANGED <<queued, open, stored, command, noted, enabled, kick>>,
         changed' \in {changed, FALSE}, changed' => phase' \in Subscribed,
         waiting' \in SUBSET Callers, holder' \in Callers \cup {"nobody"},
         phase' \in {"idle", "check", "list", "announce", "loop", "wait", "acknowledge", "relist",
                    "decide", "write"},
         holder' = "nobody" <=> phase' = "idle",
         outbox' \subseteq outbox, items' \in SUBSET outbox', blocked' \in SUBSET Devices,
         report' \in OutboxWorkerStatus, report'.rows \subseteq 1 .. queued,
         status' = status \/ status' = report,
         locks' \in Nat, failures' \in Nat
  PROVE  TypeOK' /\ RowsQueued'
<1>1. TypeOK'
  BY DEF SInv, TypeOK
<1>2. RowsQueued'
  BY DEF SInv, RowsQueued
<1> QED
  BY <1>1, <1>2

(* run_lock is taken, and enabled is looked at.                            *)
LEMMA AcquireStep ==
  ASSUME SInv, NEW caller \in Callers, Acquire(caller)
  PROVE  SInv'
<1>1. /\ TypeOK /\ holder' = caller /\ holder' # "nobody" /\ phase = "idle" /\ phase' = "check"
      /\ waiting' = waiting \ {caller}
      /\ UNCHANGED <<queued, outbox, open, stored, command, noted, enabled, changed, kick, items,
                     blocked, report, status, locks, failures>>
  BY DEF SInv, TypeOK, Acquire, Callers, vault, bounds
<1>2. ~changed
  BY <1>1 DEF TypeOK, Subscribed
<1>3. TypeOK' /\ RowsQueued'
  BY <1>1, <1>2, FlushFrame DEF SInv, TypeOK, RowsQueued
<1>4. ItemAtHand' /\ Accounted' /\ Counted' /\ ReportSettled' /\ NoStaleSending'
  BY <1>1 DEF ItemAtHand, Accounted, Counted, ReportSettled, NoStaleSending, Sweep
<1>5. IdleMeansSent'
  BY <1>1 DEF SInv, IdleMeansSent
<1> QED
  BY <1>3, <1>4, <1>5 DEF SInv

(* The steps that end a flush before it has begun to send.                 *)
LEMMA ShortFlushStep ==
  ASSUME SInv, CheckEnabled \/ ListLocked \/ ListFails
  PROVE  SInv'
<1>1. /\ TypeOK /\ holder # "nobody" /\ phase \in {"check", "list"}
      /\ UNCHANGED <<queued, outbox, open, stored, command, noted, enabled, changed, kick, waiting,
                     holder, items, blocked, status, locks>>
      /\ \/ phase' = "list" /\ enabled /\ UNCHANGED report
         \/ /\ phase' = "write"
            /\ \/ report' = Paused(status.pending) \/ report' = Paused(0)
               \/ report' = Deferred(0, 1)
  BY DEF SInv, TypeOK, CheckEnabled, ListLocked, ListFails, Fail, InFlush, vault, worker, bounds
<1>2. failures' \in Nat /\ ~changed
  BY <1>1 DEF TypeOK, Subscribed, CheckEnabled, ListLocked, ListFails, Fail, bounds
<1>3. status.pending \in Nat
  BY <1>1 DEF TypeOK, OutboxWorkerStatus
<1>4. /\ report' \in OutboxWorkerStatus /\ report'.rows \subseteq 1 .. queued
      /\ phase' = "write" => report'.state \notin {"sending", "idle"}
  BY <1>1, <1>3, ReportFields DEF SInv, TypeOK, RowsQueued, Paused, Deferred, States
<1>5. TypeOK' /\ RowsQueued'
  BY <1>1, <1>2, <1>4, FlushFrame DEF TypeOK
<1>6. ItemAtHand' /\ Accounted' /\ Counted' /\ ReportSettled'
  BY <1>1, <1>4 DEF ItemAtHand, Accounted, Counted, ReportSettled, Sweep
<1>7. NoStaleSending' /\ IdleMeansSent'
  BY <1>1 DEF SInv, NoStaleSending, IdleMeansSent
<1> QED
  BY <1>5, <1>6, <1>7 DEF SInv

(* The listing: everything in the report is still to be looked at.         *)
LEMMA ListStep ==
  ASSUME SInv, List
  PROVE  SInv'
<1>1. /\ TypeOK /\ phase = "list" /\ phase' = "announce" /\ items' = Listing /\ blocked' = {}
      /\ report' = Sending(Listing)
      /\ UNCHANGED <<queued, outbox, open, stored, command, noted, enabled, changed, kick, waiting,
                     holder, status, locks, failures>>
  BY DEF SInv, List, InFlush, vault, worker, bounds
<1>2. Listing \subseteq outbox /\ Cardinality(Listing) \in Nat
  BY <1>1, ListingType
<1>3. Listing \subseteq 1 .. queued /\ Listing \in SUBSET Rows /\ ~changed
  BY <1>1, <1>2, StatusAssumption DEF TypeOK, Rows, Subscribed
<1>4. /\ report' \in OutboxWorkerStatus /\ report'.rows = Listing /\ report'.state = "sending"
      /\ report'.pending = Cardinality(Listing) /\ report'.acknowledged = 0
  <2>1. "sending" \in States /\ 0 \in Nat
    BY DEF States
  <2> QED
    BY <2>1, <1>1, <1>2, <1>3, ReportFields DEF Sending
<1>5. TypeOK' /\ RowsQueued'
  BY <1>1, <1>2, <1>3, <1>4, FlushFrame DEF TypeOK
<1>6. ItemAtHand' /\ Accounted' /\ ReportSettled'
  BY <1>1, <1>4 DEF ItemAtHand, Accounted, ReportSettled
<1>7. Counted'
  BY <1>1, <1>2, <1>4 DEF Counted
<1>8. NoStaleSending' /\ IdleMeansSent'
  BY <1>1 DEF SInv, NoStaleSending, IdleMeansSent
<1> QED
  BY <1>5, <1>6, <1>7, <1>8 DEF SInv

(* The flush goes from phase to phase without touching rows or report.     *)
LEMMA PhaseStep ==
  ASSUME SInv, Submit \/ LoopEnds \/ Accepted
  PROVE  SInv'
<1>1. /\ TypeOK /\ holder # "nobody"
      /\ phase \in {"loop", "wait"} /\ phase' \in {"wait", "acknowledge", "relist"}
      /\ changed' \in {changed, FALSE} /\ (changed' => phase' \in Subscribed)
      /\ UNCHANGED <<queued, outbox, open, stored, command, noted, enabled, kick, waiting, holder,
                     items, blocked, report, status, locks, failures>>
  BY DEF SInv, TypeOK, Submit, LoopEnds, Accepted, Subscribed, InFlush, vault, worker, bounds
<1>2. TypeOK' /\ RowsQueued'
  BY <1>1, FlushFrame DEF SInv, TypeOK, RowsQueued
<1>3. ItemAtHand'
  BY <1>1 DEF SInv, ItemAtHand, Submit, LoopEnds, Accepted
<1>4. Accounted' /\ Counted' /\ ReportSettled'
  BY <1>1 DEF SInv, Accounted, Counted, ReportSettled, Sweep
<1>5. NoStaleSending' /\ IdleMeansSent'
  BY <1>1 DEF SInv, NoStaleSending, IdleMeansSent
<1> QED
  BY <1>2, <1>3, <1>4, <1>5 DEF SInv

(* "sending" is stored while run_lock is held.                             *)
LEMMA AnnounceStep ==
  ASSUME SInv, Announce
  PROVE  SInv'
<1>1. /\ TypeOK /\ holder # "nobody" /\ phase = "announce" /\ phase' = "loop" /\ status' = report
      /\ UNCHANGED <<queued, outbox, open, stored, command, noted, enabled, changed, kick, waiting,
                     holder, items, blocked, report, locks, failures>>
  BY DEF SInv, TypeOK, Announce, vault, worker, bounds
<1>2. TypeOK' /\ RowsQueued'
  BY <1>1, FlushFrame DEF SInv, TypeOK, RowsQueued, Subscribed
<1>3. ItemAtHand' /\ ReportSettled'
  BY <1>1 DEF ItemAtHand, ReportSettled
<1>4. Accounted' /\ Counted'
  BY <1>1 DEF SInv, Accounted, Counted, Sweep
<1>5. NoStaleSending' /\ IdleMeansSent'
  BY <1>1 DEF SInv, ReportSettled, NoStaleSending, IdleMeansSent
<1> QED
  BY <1>2, <1>3, <1>4, <1>5 DEF SInv

(* A row of a blocked device is passed over: something has failed before.  *)
LEMMA SkipBlockedStep ==
  ASSUME SInv, SkipBlocked
  PROVE  SInv'
<1>1. /\ TypeOK /\ holder # "nobody" /\ phase = "loop" /\ blocked # {}
      /\ items' = items \ {First}
      /\ UNCHANGED <<queued, outbox, open, stored, command, noted, enabled, changed, kick, waiting,
                     holder, phase, blocked, report, status, locks, failures>>
  BY DEF SInv, TypeOK, SkipBlocked, InFlush, vault, worker, bounds
<1>2. TypeOK' /\ RowsQueued'
  BY <1>1, FlushFrame DEF SInv, TypeOK, RowsQueued, Subscribed
<1>3. ItemAtHand' /\ ReportSettled'
  BY <1>1 DEF ItemAtHand, ReportSettled
<1>4. report.failed # 0 /\ Accounted' /\ Counted'
  BY <1>1 DEF SInv, Accounted, Counted, Sweep
<1>5. NoStaleSending' /\ IdleMeansSent'
  BY <1>1 DEF SInv, NoStaleSending, IdleMeansSent
<1> QED
  BY <1>2, <1>3, <1>4, <1>5 DEF SInv

(* One field of a report is set.                                           *)
LEMMA ReportUpdate ==
  ASSUME NEW r \in OutboxWorkerStatus, NEW n \in Nat, NEW state \in States
  PROVE  /\ r.failed \in Nat /\ r.acknowledged \in Nat /\ r.pending \in Nat
         /\ LET s == [r EXCEPT !.failed = n] IN
            s \in OutboxWorkerStatus /\ s.failed = n /\ s.rows = r.rows /\ s.state = r.state
         /\ LET s == [r EXCEPT !.acknowledged = n] IN
            /\ s \in OutboxWorkerStatus /\ s.failed = r.failed /\ s.rows = r.rows
            /\ s.state = r.state /\ s.acknowledged = n /\ s.pending = r.pending
         /\ LET s == [r EXCEPT !.pending = n] IN
            /\ s \in OutboxWorkerStatus /\ s.failed = r.failed /\ s.rows = r.rows
            /\ s.state = r.state /\ s.pending = n
         /\ LET s == [r EXCEPT !.state = state] IN
            s \in OutboxWorkerStatus /\ s.failed = r.failed /\ s.rows = r.rows /\ s.state = state
BY DEF OutboxWorkerStatus

(* A row fails, and the report says so.                                    *)
LEMMA ItemFailsStep ==
  ASSUME SInv, ItemFails
  PROVE  SInv'
<1>1. /\ TypeOK /\ holder # "nobody" /\ phase \in {"wait", "acknowledge"} /\ phase' = "loop"
      /\ items' = items \ {First}
      /\ blocked' = blocked \cup {DeviceOf[First]}
      /\ report' = [report EXCEPT !.failed = report.failed + 1]
      /\ UNCHANGED <<queued, outbox, open, stored, command, noted, enabled, changed, kick, waiting,
                     holder, status, locks>>
  BY DEF SInv, TypeOK, ItemFails, Fail, InFlush, vault, worker
<1>2. failures' \in Nat
  BY <1>1 DEF TypeOK, ItemFails, Fail
<1>3. report.failed \in Nat /\ report \in OutboxWorkerStatus
  BY <1>1, ReportUpdate DEF TypeOK, States
<1>4. report.failed + 1 \in Nat /\ report.failed + 1 # 0
  BY <1>3
<1>5. report' \in OutboxWorkerStatus /\ report'.failed # 0 /\ report'.rows = report.rows
  BY <1>1, <1>3, <1>4, ReportUpdate DEF States
<1>6. DeviceOf[First] \in Devices
  BY <1>1, FirstExists DEF SInv, ItemAtHand
<1>7. TypeOK' /\ RowsQueued'
  BY <1>1, <1>2, <1>5, <1>6, FlushFrame DEF SInv, TypeOK, RowsQueued, Subscribed
<1>8. ItemAtHand' /\ ReportSettled' /\ Accounted' /\ Counted'
  BY <1>1, <1>5 DEF ItemAtHand, ReportSettled, Accounted, Counted
<1>9. NoStaleSending' /\ IdleMeansSent'
  BY <1>1 DEF SInv, NoStaleSending, IdleMeansSent
<1> QED
  BY <1>7, <1>8, <1>9 DEF SInv

(* An acknowledged row leaves the list and the outbox together.            *)
LEMMA AcknowledgeStep ==
  ASSUME SInv, Acknowledge
  PROVE  SInv'
<1>1. /\ TypeOK /\ holder # "nobody" /\ phase = "acknowledge" /\ phase' = "loop"
      /\ items' = items \ {First} /\ outbox' = outbox \ {First}
      /\ report' = [report EXCEPT !.acknowledged = report.acknowledged + 1]
      /\ UNCHANGED <<queued, open, stored, command, noted, enabled, changed, kick, waiting, holder,
                     blocked, status, locks, failures>>
  BY DEF SInv, TypeOK, Acknowledge, worker, bounds
<1>2. /\ report.acknowledged \in Nat /\ report.pending \in Nat /\ report \in OutboxWorkerStatus
      /\ Cardinality(items) \in Nat
  BY <1>1, ReportUpdate, ItemsCounted DEF TypeOK, States
<1>3. report.acknowledged + 1 \in Nat
  BY <1>2
<1>4. /\ report' \in OutboxWorkerStatus /\ report'.failed = report.failed
      /\ report'.rows = report.rows /\ report'.pending = report.pending
      /\ report'.acknowledged = report.acknowledged + 1
  BY <1>1, <1>2, <1>3, ReportUpdate DEF States
<1>5. TypeOK' /\ RowsQueued'
  BY <1>1, <1>4, FlushFrame DEF SInv, TypeOK, RowsQueued, Subscribed
<1>6. ItemAtHand' /\ ReportSettled'
  BY <1>1 DEF ItemAtHand, ReportSettled
<1>7. Accounted'
  BY <1>1, <1>4 DEF SInv, Accounted, Sweep
<1>8. Counted'
  <2>1. Cardinality(items') = Cardinality(items) - 1
    BY <1>1, FirstExists DEF SInv, ItemAtHand
  <2>2. report'.failed = 0 => report.pending = report.acknowledged + Cardinality(items)
    BY <1>1, <1>4 DEF SInv, Counted, Sweep
  <2>3. report'.failed = 0 => report'.pending = report'.acknowledged + Cardinality(items')
    BY <2>1, <2>2, <1>2, <1>4
  <2> QED
    BY <2>3, <1>1 DEF Counted
<1>9. NoStaleSending' /\ IdleMeansSent'
  BY <1>1 DEF SInv, NoStaleSending, IdleMeansSent
<1> QED
  BY <1>5, <1>6, <1>7, <1>8, <1>9 DEF SInv

(* The second listing: if nothing has failed and nothing is pending, the   *)
(* outbox is empty, or the listing failed and every row that was to be     *)
(* looked at has been acknowledged.                                        *)
LEMMA RelistStep ==
  ASSUME SInv, Relist
  PROVE  SInv'
<1>1. /\ TypeOK /\ holder # "nobody" /\ phase = "relist" /\ phase' = "decide"
      /\ \/ report' = [report EXCEPT !.pending = Cardinality(Listing)]
         \/ report' = [report EXCEPT !.pending = PendingByCount]
      /\ UNCHANGED <<queued, outbox, open, stored, command, noted, enabled, changed, kick, waiting,
                     holder, items, blocked, status, locks>>
  BY DEF SInv, TypeOK, Relist, Fail, InFlush, vault, worker, bounds
<1>2. failures' \in Nat /\ ~changed
  BY <1>1 DEF TypeOK, Subscribed, Relist, Fail, bounds
<1>3. report.acknowledged \in Nat /\ report.pending \in Nat /\ report \in OutboxWorkerStatus
  BY <1>1, ReportUpdate DEF TypeOK, States
<1>4. PendingByCount \in Nat /\ Cardinality(Listing) \in Nat
  BY <1>1, <1>3, ListingType DEF PendingByCount
<1>5. PICK n \in {PendingByCount, Cardinality(Listing)} : report' = [report EXCEPT !.pending = n]
  BY <1>1
<1>6. /\ report' \in OutboxWorkerStatus /\ report'.failed = report.failed
      /\ report'.rows = report.rows /\ report'.pending = n
  <2>1. n \in Nat /\ "idle" \in States
    BY <1>4, <1>5 DEF States
  <2> QED
    BY <2>1, <1>3, <1>5, ReportUpdate
<1>7. TypeOK' /\ RowsQueued'
  BY <1>1, <1>2, <1>6, FlushFrame DEF SInv, TypeOK, RowsQueued
<1>8. ItemAtHand' /\ ReportSettled'
  BY <1>1 DEF SInv, ItemAtHand, ReportSettled
<1>9. Accounted'
  BY <1>1, <1>6 DEF SInv, Accounted, Sweep
<1>10. Counted'
  <2> SUFFICES ASSUME report.failed = 0, n = 0
               PROVE  report.rows \cap outbox = {}
    BY <1>1, <1>6 DEF Counted
  <2>1. CASE n = Cardinality(Listing)
    BY <2>1, <1>1, EmptyListing
  <2>2. CASE n = PendingByCount
    <3>1. report.pending = report.acknowledged + Cardinality(items)
      BY <1>1 DEF SInv, Counted, Sweep
    <3>2. Cardinality(items) \in Nat /\ (Cardinality(items) = 0 => items = {})
      BY <1>1, ItemsCounted
    <3>3. PendingByCount = Cardinality(items)
      BY <3>1, <3>2, <1>3 DEF PendingByCount
    <3>4. items = {}
      BY <2>2, <3>2, <3>3
    <3> QED
      BY <3>4, <1>1 DEF SInv, Accounted, Sweep
  <2> QED
    BY <2>1, <2>2
<1>11. NoStaleSending' /\ IdleMeansSent'
  BY <1>1 DEF SInv, NoStaleSending, IdleMeansSent
<1> QED
  BY <1>7, <1>8, <1>9, <1>10, <1>11 DEF SInv

(* "idle" is decided when nothing has failed and nothing is pending.       *)
LEMMA DecideStep ==
  ASSUME SInv, Decide
  PROVE  SInv'
<1>1. /\ TypeOK /\ holder # "nobody" /\ phase = "decide" /\ phase' = "write"
      /\ report' = [report EXCEPT !.state = FinalState]
      /\ UNCHANGED <<queued, outbox, open, stored, command, noted, enabled, changed, kick, waiting,
                     holder, items, blocked, status, locks, failures>>
  BY DEF SInv, TypeOK, Decide, InFlush, vault, worker, bounds
<1>2. FinalState \in States /\ FinalState # "sending"
  BY DEF FinalState, States
<1>3. report.failed \in Nat /\ report.pending \in Nat /\ report \in OutboxWorkerStatus
  BY <1>1, ReportUpdate DEF TypeOK, States
<1>4. report' \in OutboxWorkerStatus /\ report'.state = FinalState /\ report'.rows = report.rows
  BY <1>1, <1>2, <1>3, ReportUpdate
<1>5. TypeOK' /\ RowsQueued'
  BY <1>1, <1>4, FlushFrame DEF SInv, TypeOK, RowsQueued, Subscribed
<1>6. ItemAtHand' /\ Accounted' /\ Counted'
  BY <1>1 DEF ItemAtHand, Accounted, Counted, Sweep
<1>7. FinalState = "idle" => report.failed = 0 /\ report.pending = 0
  BY <1>3 DEF FinalState
<1>8. FinalState = "idle" => report.rows \cap outbox = {}
  BY <1>1, <1>7 DEF SInv, Counted
<1>9. ReportSettled'
  BY <1>1, <1>2, <1>4, <1>8 DEF ReportSettled
<1>10. NoStaleSending' /\ IdleMeansSent'
  BY <1>1 DEF SInv, NoStaleSending, IdleMeansSent
<1> QED
  BY <1>5, <1>6, <1>9, <1>10 DEF SInv

(* The last status is stored, and run_lock released.                       *)
LEMMA WriteStep ==
  ASSUME SInv, Write
  PROVE  SInv'
<1>1. /\ TypeOK /\ phase = "write" /\ phase' = "idle" /\ holder' = "nobody" /\ status' = report
      /\ items' = {} /\ report' = Paused(0)
      /\ UNCHANGED <<queued, outbox, open, stored, command, noted, enabled, changed, kick, waiting,
                     blocked, locks, failures>>
  BY DEF SInv, Write, vault, worker, bounds
<1>2. report' \in OutboxWorkerStatus /\ report'.rows = {} /\ ~changed
  BY <1>1, ReportFields DEF Paused, States, TypeOK, Subscribed
<1>3. TypeOK' /\ RowsQueued'
  BY <1>1, <1>2, FlushFrame DEF SInv, TypeOK, RowsQueued
<1>4. ItemAtHand' /\ ReportSettled' /\ Accounted' /\ Counted'
  BY <1>1 DEF ItemAtHand, ReportSettled, Accounted, Counted, Sweep
<1>5. NoStaleSending' /\ IdleMeansSent'
  BY <1>1 DEF SInv, ReportSettled, NoStaleSending, IdleMeansSent
<1> QED
  BY <1>3, <1>4, <1>5 DEF SInv

-----------------------------------------------------------------------------
(* Every step keeps the invariant.                                         *)
LEMMA NextSInv == SInv /\ [Next]_vars => SInv'
<1> SUFFICES ASSUME SInv, [Next]_vars PROVE SInv'
  OBVIOUS
<1>1. CASE Next
  BY <1>1, QueueStep, WakeStep, AcquireStep, PauseStep, CommandStep, ShortFlushStep, ListStep,
     PhaseStep, AnnounceStep, SkipBlockedStep, ItemFailsStep, AcknowledgeStep, RelistStep,
     DecideStep, WriteStep DEF Next, FlushStep
<1>2. CASE UNCHANGED vars
  <2>1. UNCHANGED <<queued, outbox, open, stored, command, noted, enabled, changed, kick, waiting,
                    holder, phase, items, blocked, report, status, locks, failures>>
    BY <1>2 DEF vars, vault, worker, flush, bounds
  <2>2. TypeOK'
    BY <2>1 DEF SInv, TypeOK
  <2> QED
    BY <2>1, <2>2, OutsideStep
<1> QED
  BY <1>1, <1>2

(* The invariant holds in every reachable state.                           *)
LEMMA Invariance == Spec => []SInv
BY InitSInv, NextSInv, PTL DEF Spec

(* Vault, commands, worker and status stay within their types, and a flush *)
(* looks only at rows that are still there.                                *)
THEOREM TypeCorrect == Spec => []TypeOK
<1>1. SInv => TypeOK
  BY DEF SInv
<1> QED
  BY <1>1, Invariance, PTL

(* "sending" is reported only while a flush holds run_lock, however pause()*)
(* and the flush overtake each other.                                      *)
THEOREM SendingIsCurrent == Spec => []NoStaleSending
<1>1. SInv => NoStaleSending
  BY DEF SInv
<1> QED
  BY <1>1, Invariance, PTL

(* "idle" is reported only when every row the flush set out to send has    *)
(* left the outbox.                                                        *)
THEOREM IdleIsTrue == Spec => []IdleMeansSent
<1>1. SInv => IdleMeansSent
  BY DEF SInv
<1> QED
  BY <1>1, Invariance, PTL

-----------------------------------------------------------------------------
(***************************************************************************)
(* No wake-up is lost.  This is what KicksSuffice owes to the code and not *)
(* to fairness: as long as nothing has failed and one listing holds all    *)
(* rows, whenever a row is left something is on its way that sends it.     *)
(***************************************************************************)
(* A message's notify_pending() is to come or has left its permit; or the  *)
(* vault is locked or a command under way, which will kick when it has     *)
(* resumed the worker; or a flush is about to list the outbox, or has      *)
(* every row still before it.                                              *)
NoKickLost ==
  failures = 0 /\ queued <= OutboxLimit /\ outbox # {} =>
    \/ stored \/ kick
    \/ ~open \/ command # "none"
    \/ waiting # {} \/ phase \in {"check", "list"}
    \/ phase \in {"announce", "loop", "wait", "acknowledge"} /\ outbox \subseteq items

(* Between commands the worker is disabled only while the vault is locked. *)
DisabledIsLocked ==
  /\ ~enabled /\ command = "none" => ~open
  /\ command \in {"send", "kick"} => enabled

(* A flush that is about to be cut short is followed by another: the       *)
(* command that wrote to enabled_tx goes on, or has kicked the task.       *)
ChangeIsFollowed ==
  changed => kick \/ ~open \/ command # "none" \/ waiting # {}

(* A flush reports no failure that has not happened.                       *)
FailuresCounted == phase \in Sweep /\ failures = 0 => report.failed = 0

KickInv == DisabledIsLocked /\ ChangeIsFollowed /\ FailuresCounted /\ NoKickLost

(* A listing that is not full holds every row.                             *)
LEMMA ListingIsAll ==
  ASSUME TypeOK, queued <= OutboxLimit
  PROVE  Listing = outbox
<1>1. outbox \subseteq 1 .. queued /\ queued \in Nat /\ OutboxLimit \in Nat
  BY StatusAssumption DEF TypeOK
<1>2. ASSUME NEW n \in outbox
      PROVE  Cardinality({k \in outbox : k <= n}) <= OutboxLimit
  <2> DEFINE T == {k \in outbox : k <= n}
  <2>1. T \subseteq 1 .. queued
    BY <1>1
  <2>2. IsFiniteSet(1 .. queued) /\ Cardinality(1 .. queued) = queued
    BY <1>1, FS_Interval
  <2> HIDE DEF T
  <2>3. Cardinality(T) <= queued /\ Cardinality(T) \in Nat
    BY <2>1, <2>2, FS_Subset, FS_CardinalityType
  <2>4. Cardinality(T) <= OutboxLimit
    BY <2>3, <1>1
  <2> QED
    BY <2>4 DEF T
<1> QED
  BY <1>2 DEF Listing

LEMMA InitKickInv == Init => KickInv
BY DEF Init, KickInv, DisabledIsLocked, ChangeIsFollowed, FailuresCounted, NoKickLost, Sweep

(* Messages, kicks, the timer and outbox_retry: a kick that finds the      *)
(* worker disabled is given up, but then the vault is locked or about to   *)
(* be.                                                                     *)
LEMMA WakeKick ==
  ASSUME SInv, KickInv, QueueMessage \/ NotifyPending \/ Kicked \/ TimerFires \/ OutboxRetry
  PROVE  KickInv'
<1>1. UNCHANGED <<open, command, enabled, changed, phase, items, report, failures>>
  BY DEF QueueMessage, NotifyPending, Kicked, TimerFires, Wake, OutboxRetry, vault, worker, flush,
     bounds
<1>2. DisabledIsLocked' /\ FailuresCounted'
  BY <1>1 DEF KickInv, DisabledIsLocked, FailuresCounted
<1>3. NoKickLost'
  <2>1. CASE QueueMessage \/ NotifyPending \/ OutboxRetry
    BY <2>1 DEF NoKickLost, QueueMessage, NotifyPending, NotifyOne, OutboxRetry
  <2>2. CASE Wake /\ enabled
    BY <2>2 DEF NoKickLost, Wake
  <2>3. CASE Wake /\ ~enabled
    BY <2>3, <1>1 DEF KickInv, DisabledIsLocked, NoKickLost
  <2>4. CASE TimerFires /\ ~enabled
    BY <2>4, <2>3 DEF TimerFires
  <2> QED
    BY <2>1, <2>2, <2>3, <2>4 DEF Kicked, TimerFires
<1>4. ChangeIsFollowed'
  <2>1. CASE QueueMessage \/ NotifyPending \/ TimerFires \/ OutboxRetry
    BY <2>1, <1>1 DEF KickInv, ChangeIsFollowed, QueueMessage, NotifyPending, NotifyOne, TimerFires,
       Wake, OutboxRetry, worker
  <2>2. CASE Kicked
    BY <2>2, <1>1 DEF KickInv, ChangeIsFollowed, DisabledIsLocked, Kicked, Wake
  <2> QED
    BY <2>1, <2>2
<1> QED
  BY <1>2, <1>3, <1>4 DEF KickInv

(* The commands: each step leaves a command to go on, a locked vault, or,  *)
(* once the worker is resumed, a kick.                                     *)
LEMMA CommandKick ==
  ASSUME SInv, KickInv,
         \/ Pause \/ PauseReads \/ PauseWrites \/ Drained \/ CloseVault
         \/ UnlockVault \/ Resume \/ ResumeSends \/ ResumeKicks
  PROVE  KickInv'
<1>1. /\ UNCHANGED <<phase, report>>
      /\ failures' = failures \/ failures' = failures + 1
      /\ failures \in Nat
  BY DEF SInv, TypeOK, Pause, PauseReads, PauseWrites, Drained, CloseVault, UnlockVault, Resume,
     ResumeSends, ResumeKicks, Fail, flush, bounds
<1>2. /\ command' # "none" \/ ~open' \/ (kick' /\ enabled')
      /\ command' \in {"send", "kick"} => enabled'
  BY DEF KickInv, DisabledIsLocked, Pause, PauseReads, PauseWrites, Drained, CloseVault,
     UnlockVault, Resume, ResumeSends, ResumeKicks, NotifyOne
<1>3. DisabledIsLocked' /\ ChangeIsFollowed' /\ NoKickLost'
  BY <1>2 DEF DisabledIsLocked, ChangeIsFollowed, NoKickLost
<1>4. FailuresCounted'
  BY <1>1 DEF KickInv, FailuresCounted
<1> QED
  BY <1>3, <1>4 DEF KickInv

(* The flush up to its listing, which holds every row; a flush that finds  *)
(* the worker disabled leaves the rows to the unlocking that follows.      *)
LEMMA ListKick ==
  ASSUME SInv, KickInv,
         (\E caller \in Callers : Acquire(caller)) \/ CheckEnabled \/ List \/ ListLocked
  PROVE  KickInv'
<1>1. UNCHANGED <<queued, outbox, open, stored, command, enabled, changed, kick, failures>>
  BY DEF Acquire, CheckEnabled, List, ListLocked, InFlush, vault, worker, bounds
<1>2. DisabledIsLocked' /\ ChangeIsFollowed'
  <2>1. ~changed
    BY DEF SInv, TypeOK, Subscribed, Acquire, CheckEnabled, List, ListLocked
  <2> QED
    BY <2>1, <1>1 DEF KickInv, DisabledIsLocked, ChangeIsFollowed
<1>3. CASE \E caller \in Callers : Acquire(caller)
  BY <1>2, <1>3 DEF KickInv, Acquire, FailuresCounted, NoKickLost, Sweep
<1>4. CASE CheckEnabled
  BY <1>1, <1>2, <1>4 DEF KickInv, CheckEnabled, DisabledIsLocked, FailuresCounted, NoKickLost, Sweep
<1>5. CASE List
  <2>1. /\ TypeOK /\ phase' = "announce" /\ items' = Listing /\ report' = Sending(Listing)
    BY <1>5 DEF SInv, List
  <2>2. report'.failed = 0
    BY <2>1 DEF Sending, Report
  <2>3. queued <= OutboxLimit => outbox' \subseteq items'
    BY <2>1, <1>1, ListingIsAll
  <2> QED
    BY <2>1, <2>2, <2>3, <1>1, <1>2 DEF KickInv, FailuresCounted, NoKickLost
<1>6. CASE ListLocked
  BY <1>1, <1>2, <1>6 DEF KickInv, ListLocked, FailuresCounted, NoKickLost, Sweep
<1> QED
  BY <1>3, <1>4, <1>5, <1>6

(* The loop: without a failure no device is blocked, so that a row leaves  *)
(* the list only with its row in the outbox; the loop ends with nothing    *)
(* left, because the worker has been disabled, or because enabled_tx has   *)
(* been written to.                                                        *)
LEMMA LoopKick ==
  ASSUME SInv, KickInv,
         Announce \/ SkipBlocked \/ Submit \/ Accepted \/ Acknowledge \/ LoopEnds
  PROVE  KickInv'
<1>1. /\ UNCHANGED <<queued, open, stored, command, enabled, kick, waiting, failures>>
      /\ changed' => changed
      /\ phase \in Sweep
  BY DEF Announce, SkipBlocked, Submit, Accepted, Acknowledge, LoopEnds, InFlush, vault, worker,
     bounds, Sweep
<1>2. DisabledIsLocked' /\ ChangeIsFollowed'
  BY <1>1 DEF KickInv, DisabledIsLocked, ChangeIsFollowed
<1>3. report'.failed = report.failed
  BY DEF SInv, TypeOK, OutboxWorkerStatus, Announce, SkipBlocked, Submit, Accepted, Acknowledge,
     LoopEnds
<1>4. FailuresCounted'
  BY <1>1, <1>3 DEF KickInv, FailuresCounted
<1>5. NoKickLost'
  <2>1. CASE Announce \/ Submit \/ Accepted
    BY <2>1, <1>1 DEF KickInv, NoKickLost, Announce, Submit, Accepted, InFlush, vault
  <2>2. CASE SkipBlocked
    <3>1. failures # 0
      BY <2>2, <1>1 DEF SInv, KickInv, FailuresCounted, Accounted, SkipBlocked
    <3> QED
      BY <3>1, <1>1 DEF NoKickLost
  <2>3. CASE Acknowledge
    BY <2>3, <1>1 DEF KickInv, NoKickLost, Acknowledge
  <2>4. CASE LoopEnds /\ items = {}
    BY <2>4, <1>1 DEF KickInv, NoKickLost, LoopEnds, vault
  <2>5. CASE LoopEnds /\ ~enabled
    BY <2>5, <1>1 DEF KickInv, DisabledIsLocked, NoKickLost
  <2>6. CASE LoopEnds /\ changed
    BY <2>6, <1>1 DEF KickInv, ChangeIsFollowed, NoKickLost
  <2> QED
    BY <2>1, <2>2, <2>3, <2>4, <2>5, <2>6 DEF LoopEnds
<1> QED
  BY <1>2, <1>4, <1>5 DEF KickInv

(* After the loop: what the flush has left, something else will send.      *)
LEMMA EndKick ==
  ASSUME SInv, KickInv, Relist \/ Decide \/ Write
  PROVE  KickInv'
<1>1. /\ UNCHANGED <<queued, outbox, open, stored, command, enabled, changed, kick, waiting>>
      /\ phase \in {"relist", "decide", "write"} /\ phase' \in {"decide", "write", "idle"}
      /\ failures' = failures \/ failures' = failures + 1
      /\ failures \in Nat
  BY DEF SInv, TypeOK, Relist, Decide, Write, Fail, InFlush, vault, worker, bounds
<1>2. DisabledIsLocked' /\ ChangeIsFollowed'
  BY <1>1 DEF KickInv, DisabledIsLocked, ChangeIsFollowed
<1>3. phase' = "decide" => report'.failed = report.failed /\ phase = "relist"
  BY <1>1 DEF SInv, TypeOK, OutboxWorkerStatus, Relist, Decide, Write
<1>4. FailuresCounted'
  BY <1>1, <1>3 DEF KickInv, FailuresCounted, Sweep
<1>5. NoKickLost'
  BY <1>1 DEF KickInv, NoKickLost
<1> QED
  BY <1>2, <1>4, <1>5 DEF KickInv

(* A failure is counted.                                                   *)
LEMMA FailureKick ==
  ASSUME SInv, KickInv, ListFails \/ ItemFails
  PROVE  KickInv'
<1>1. failures' # 0 /\ UNCHANGED <<open, command, enabled, changed, kick, waiting>>
  BY DEF SInv, TypeOK, ListFails, ItemFails, Fail, InFlush, vault, worker
<1> QED
  BY <1>1 DEF KickInv, DisabledIsLocked, ChangeIsFollowed, FailuresCounted, NoKickLost

LEMMA NextKickInv == SInv /\ KickInv /\ [Next]_vars => KickInv'
<1> SUFFICES ASSUME SInv, KickInv, [Next]_vars PROVE KickInv'
  OBVIOUS
<1>1. CASE Next
  BY <1>1, WakeKick, CommandKick, ListKick, LoopKick, EndKick, FailureKick DEF Next, FlushStep
<1>2. CASE UNCHANGED vars
  BY <1>2 DEF vars, vault, worker, flush, bounds, KickInv, DisabledIsLocked, ChangeIsFollowed,
     FailuresCounted, NoKickLost
<1> QED
  BY <1>1, <1>2

(* A kick that comes while a flush runs, while the user retries or while   *)
(* the vault is being locked or unlocked leads to a listing all the same.  *)
THEOREM KicksReachTheTask == Spec => []NoKickLost
<1>1. KickInv => NoKickLost
  BY DEF KickInv
<1> QED
  BY <1>1, InitKickInv, NextKickInv, Invariance, PTL DEF Spec
=============================================================================
