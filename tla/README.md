# Singularis: a TLA+ verification project

Singularis is an end-to-end encrypted messenger: a desktop application (Tauri,
Rust and Vue) with an encrypted local vault, an MLS client, and a relay that
holds opaque ciphertext for a limited time. This directory models the parts of
it that carry protocol state, model-checks them with TLC and proves the main
results with TLAPS. Source paths below are relative to the repository root.

## 1. The system

| Component | State it keeps | Operations | What is hard |
|---|---|---|---|
| protocol types `crates/singularis-protocol` | none | decoding of `SubmitEvent`, `ServerTtl`, opaque messages | boundaries of the TTL |
| relay store `crates/singularis-server/src/store.rs` | events by channel, events by identifier, highest counter per sender, next sequence per channel; in memory only | `accept`, `list_active`, `prune_expired` | two indexes pruned separately; counters outlive events; restart loses everything |
| relay service `api.rs`, `main.rs` | handlers in progress | `submit_event`, `list_events`, `health` | the clock is read before the lock is awaited; clients disconnect |
| vault `crates/singularis-vault` | SQLCipher database: messages, MLS snapshots, outbox, local device; key header; the open connection | initialize, unlock, lock, store transaction, bounded listings, acknowledge, migrations | crash between steps, failing close, rowid order |
| MLS client `crates/singularis-mls` | groups, sender chains, seen identifiers, snapshot | create, add, join, encrypt, decrypt, transact with rollback | chains that admit only the next counter, epochs, late joiners |
| outbox worker `apps/desktop/src-tauri/src/outbox.rs` | enabled flag, run lock, status | flush, pause, resume, retry timer | network call without the vault lock; cancellation; retries; head-of-line blocking |
| desktop commands `lib.rs`, `messaging.rs` | the managed vault and worker | vault, outbox, audio and video commands | pause/close/resume order |
| user interface `apps/desktop/src/App.vue` | session refs, busy flags, message lists | submit, lock, unlock, search, capture | continuations after an await against a lock |
| audio and video `audio.rs`, `video.rs`, `App.vue` | capture state | toggles, capture start/stop | promises that resolve too late |

A message takes this way: `vault_queue_message` encrypts it with the MLS client
and commits archive row, successor snapshot and outbox row in one transaction;
the worker lists the outbox, submits each row over HTTP without holding the
vault, and deletes the row when a matching receipt arrives; the relay gives the
event a sequence number and an expiry and serves it to readers until then.
Components share the vault behind a mutex, the worker's `enabled` flag with its
watch channel, and the relay's store behind a read-write lock.

What makes each part correct: the relay must treat a retry as the same event,
keep per-sender order, number a channel densely, keep what it acknowledged until
it expires and serve nothing expired; the send path must neither lose, duplicate
nor reorder an event of a sender through any crash, lock, lost answer or
restart, and must get every event confirmed in the end; the vault must be closed
only when nobody uses it; an MLS receiver must be able to process every event
that reaches it in order; the user interface must hold no plaintext of a locked
vault.

## 2. Modules

| Module | Models | Role |
|---|---|---|
| `EventStore` | `store.rs`, protocol records | the store as a value and the operators its critical sections are made of |
| `Relay` | `api.rs` + `store.rs` | concurrent handlers around one store |
| `OrderedOutbox` | - | abstract: what the send path promises |
| `Delivery` | `outbox.rs`, `lib.rs`, `messaging.rs`, outbox part of `vault.rs`, outgoing counter of `client.rs`, relay store | the whole send path |
| `MlsChannel` | `client.rs`, `event.rs` of `singularis-mls`, snapshot part of `vault.rs` | the devices' MLS clients in one channel |
| `VaultLifecycle` | `vault.rs`, `key_header.rs` | creation, opening, migration and locking of a vault on disk |
| `RelayReader` | `Relay` + an external reader | a device that polls the relay with a cursor |
| `OutboxStatus` | `outbox.rs`, `lib.rs` | what the worker reports, and what wakes it |
| `DesktopSession` | `App.vue`, `lib.rs`, listing and search of `vault.rs` | what the user interface holds of a vault |
| `MediaSession` | `audio.rs`, `video.rs`, `lib.rs`, `App.vue` | voice rooms, push-to-talk, camera, screen |
| `QueueMessage` | `messaging.rs`, `client.rs`, `store_mls_transaction` | `queue_message` statement by statement |
| `MC...` | - | instances of these for TLC |
| `RelayProofs`, `VaultLifecycleProofs`, `DeliveryProofs`, `QueueMessageProofs`, `OutboxStatusProofs`, `MlsChannelProofs`, `MediaSessionProofs`, `DesktopSessionProofs` | - | theorems and their proofs |

Definitions marked "Faulty" are plausible wrong versions of the definition that
follows them. No specification uses them; substituted for the real definition
they show that the property they are listed with in `PROJECT.json` can fail.

### EventStore

A channel's vector is appended to with the next sequence number and filtered,
so it is represented by the set of its entries. Absent map entries read as 0 or
`NoEvent`. A request keeps identifier, channel, device, counter and TTL; community
and ciphertext are one `body`, since the store only compares them. Time is in
abstract units.

### Relay

Each handler is two steps. `SubmitEvent` and `ListEvents` validate and read
the clock; `Accept` and `ListActive` are the critical sections, run later with
that reading (`task[h].at`). `Disconnect` drops a waiting handler. `Restart` is
the next run of `main` with an empty store. `issued` is a history of all answers
with status 202, tagged with the process life that gave them. The clock does not
run backwards. Sequence numbers and counters are `u64` in the code; reaching
2^64 is out of the question, so they are naturals.

### Delivery

The variables are grouped by what survives what: `outbox` and `snapshot` are on
disk and survive a `Kill`; `open`, `command`, `enabled`, `changed` and the flush
(`phase`, `items`, `blocked`) do not; `call` and `stray` are the network; `store`
and `now` the relay. `flush_now` is split where it gives up control: at the start (under the
vault lock), at the network call (a `select!` with the enabled flag), and at the
acknowledgement. A call can fail in any state (`CallFails`): its request is then
lost, was answered unseen, or stays behind in `stray` and may arrive at any later
time, more than once. `LockVault`, `Drained` and `CloseVault` are the three parts
of `vault_lock`: disable the worker, wait for `run_lock` and let go of it, close.
`resume()` is two steps, because it sets the flag (`Resume`) before it writes to
`enabled_tx` (`ResumeSends`), and a flush may start in between. `changed` says that
`enabled_tx` has been written to since the flush subscribed; a flush that waits for
its call then drops it (`Cancel`), whether the worker was disabled or resumed.
`vault_queue_message` is one step, because it holds the vault mutex throughout and
commits once. The user interface serialises vault commands (`vaultBusy`), so one
`command` is in progress at a time. The application has one local device per
vault; the run has two devices and exercises what the worker and the vault
interface allow ("device-agnostic", ADR 0004). Not in this module: the worker's
reported status (`OutboxStatus`), and rows that do not validate (no code writes
one).

`OrderedOutbox` says: each sender's events are delivered in counter order
without a gap, and confirmed in order, each after its delivery. `Delivery`
implements it under the mapping `queued <- snapshot`; `delivered` and
`confirmed` are histories. So is `accepted`: the request that the running relay
process has accepted last from each sender. It is what `ExpiredUnconfirmed` means by
an event that was accepted, and tells such a row from one that another request of
its sender has overtaken.

### MlsChannel

`VaultMlsClient` for every device, one channel. Each operation of the code is
`transact`: encode a snapshot, change the client in memory, save, hand out the
result. The model has these as separate steps (`Operate`, `Checkpoint` or
`CheckpointFails`, `Return`), with `Crash` between any two; only `vault` survives
it. An outgoing event's outbox row is in the same transaction as the snapshot
(`queue_outgoing`), so an application message is on the network from `Checkpoint`
on; commits and welcomes only from `Return` on. The network keeps everything and
may deliver it never, late, or again. OpenMLS is external: a group state is the
sequence of additions that led to it, its keys open messages of that state only,
each once. A snapshot's size is counted in seen identifiers. Only one channel is
modelled, since groups, chains and identifiers are kept per channel; the body of
an event is left out, since no check reads it.

### VaultLifecycle

`initialize` is split at every system call whose effect survives: database,
header, sync of the temporary directory, rename, sync of the parent, opening.
`unlock` is the header, the reading of `user_version`, and one step per migration
transaction. `local_device_id` is a `SELECT` and an `INSERT`. Every step can fail
or be the process's last. `PowerLoss` also drops directory entries that were not
synced (`sync_directory` does so on Unix; elsewhere it does nothing and the
platform's guarantees are assumed). Several processes share the directory, because
the application does not prevent a second instance. A temporary directory left
behind is never read again and is dropped from the model. `promised` is the key of
a vault whose `initialize` returned success: a vault that another instance opens
between the rename and the sync of the parent, or whose sync failed, is complete
but may still vanish in a power loss.

### RelayReader

`Relay` extended by a device that keeps, per channel, the highest sequence number
it has seen and asks for what came after it. The listing's `after_sequence` is
made for such a reader, but the code has none yet, so the reader is external and
does only this. The last answer of a handler stays in `reply` and may be taken up
late, again, or never. The reader's cursors survive a relay restart.

### OutboxStatus

Where `Delivery` asks what happens to events, this module asks what the worker
says and when it acts. The status has three writers: the flush of the spawned
task, the flush of `outbox_retry` (the two take turns through `run_lock`), and
`pause()`, which takes no lock. Each computes a status and stores it in a later
step (`CheckEnabled`/`Decide` and `Write`, `PauseReads` and `PauseWrites`).
`kick` is the one permit of a tokio `Notify`. A committed row and the kick that
follows it are two steps (`QueueMessage`, `NotifyPending`). The relay is reduced
to accepting or failing. `report.rows` is a history: the listing a status is about.
`resume()` has three parts (`Resume`, `ResumeSends`, `ResumeKicks`). A flush
subscribes to `enabled_tx` after its first status; from then on a write, also that
of `resume()`, ends it while it waits for the relay (`LoopEnds`), with the worker
enabled or not.

### DesktopSession

Each async function of the user interface is cut at its awaits: a call is sent,
executed on the native side, and its reply taken up, with anything in between.
`submit`, `lock`, `load` and `searches` are the functions in progress. Replies of
different calls come in any order, since the commands in question are async or run
on different threads; every command may fail. A failing `vault_lock` has lost the
connection and leaves the user interface as it was. Initializing and unlocking a
vault look the same from here. `lastLoad` is a history: whether a submission, a
lock or a change of channel has interfered since the last loading of the messages.
The periodic request for the outbox status is left out; it changes only a label.

### MediaSession

`audio.rs` and `video.rs` are functions from state to state, and so are the
operators with their names. Their commands are synchronous: the model executes
them in the order sent and answers in that order (`calls`, `replies`), an
assumption on Tauri. Each call carries the place (`then`) where its caller goes
on. `asks` counts requests for microphone, camera and screen that the browser has
not answered; they are answered in any order, granted or refused. Commands do not
fail here (a poisoned mutex or an unknown room cannot occur from this user
interface). `late` is a history of the devices that were switched off, or asked for
again, while a request was open: the code does not look again when a request is
granted, so such a stream may stay on although it is not wanted, and
`CaptureMatchesStatus` is about all other cases. Reloading the page is not modelled.

### QueueMessage

`queue_message` loads the client, or creates and saves it, creates and saves the
channel, and commits message, successor snapshot and outbox row. Each of these is a
step, since each is a statement or transaction of its own, and any of them may fail
or be the process's last. `outbox` keeps acknowledged rows, so that it is the
sequence of all events ever queued. `MlsChannel` has the same client with receivers
and one channel; here it has several channels and possibly several processes.

## 3. Runs

| Run | Config | Shows |
|---|---|---|
| `relay` | `MCRelay.cfg` | `IndexesAgree`, `SequenceNumbering`, `OneReceiptPerRequest`, `SenderOrder`, `LiveEventsRetained`, `ListingExact`, `CursorMissesNothingInOneLife`: two handlers, two channels, a restart, a reader |
| `delivery` | `MCDelivery.cfg` | `TypeOK`, `OutboxComplete`, `FlushOwnsVault`, `ImplementsOrderedOutbox`, `ConfirmedUnlessExpired`: two devices, one outbox |
| `delivery_expiry` | `MCDeliveryExpiry.cfg` | violation: `EventuallyConfirmed` |
| `mls` | `MCMlsChannel.cfg` | `TypeOK`, `KeysNeverReused`, `MemoryMatchesVault`, `RefusalUndone`, `ShownInOrder`, `LossBounded`: two devices, the snapshot limit is reached |
| `mls_fork` | `MCMlsChannelFork.cfg` | `ChainsAgree`: three devices, forked group states |
| `mls_join` | `MCMlsChannelJoin.cfg` | violation: `MembersCanRead` |
| `vault` | `MCVaultLifecycle.cfg` | `AbsentOrComplete`, `ReportedVaultRemains`, `SchemaMatchesVersion`, `DeviceIdentityFixed`, `MigrationCompletes`: two instances |
| `status` | `MCOutboxStatus.cfg` | `TypeOK`, `NoStaleSending`, `IdleMeansSent`: the status never claims more than is true; `KicksSuffice`: no wake-up is lost; `SynchronisedInTheEnd`: failures and the listing limit only delay |
| `session` | `MCDesktopSession.cfg` | `TypeOK`, `HistoryComplete`, `SearchResultsCurrent`, `DraftKept` |
| `session_lock` | `MCDesktopSessionLock.cfg` | violation: `LockedShowsNothing` |
| `media` | `MCMediaSession.cfg` | `TypeOK`, `StatusCurrent`, `CaptureMatchesStatus`, `PressedOnlyWhileHeld` |
| `queue` | `MCQueueMessage.cfg` | `TypeOK`, `RefersToQueued`, `SenderChainUnbroken`: two instances |

The type invariants of `Relay` and `VaultLifecycle` are not among these; they are
proved (section 5).

Bounds. Relay: two handlers are enough for every overtaking between a clock
reading and a critical section, and for a response that overtakes another; the
clock passes the shortest TTL; the requests contain a repeat of an identifier with
another body, a successor, a second channel with its own counter, a zero counter
and a TTL out of range. Delivery: three messages of two devices with a listing
limit of 2, so that a message is beyond the limit and one device can fill the
listing; two disturbances (failed call, failed delete, lock, kill, relay restart,
failing close, in any mixture), which is what the interesting cases take: a lost
answer and a crash, a lock and a failing close; the clock passes the TTL. Devices
are interchangeable, so the run names the one that sends most (`Submissions`): the
other sends at most half of the messages, and no behaviour is lost but for mirror
images.
`MaxRowid` equals the number of messages, so that it limits nothing else. When all
bounds are used up the worker can still start an empty flush, so that deadlock is
checked.
MlsChannel: four events with a snapshot limit of three, so that the limit is hit;
two failures; one key package per device; with three devices two members can add
the third independently, so that group states fork. VaultLifecycle: two processes
for the races, three keys so that a fresh one always exists, three failures so that
both processes and the machine can fail in one behaviour; vaults of versions 1 to 5
and no vault are initial states. OutboxStatus: three rows of two devices with a
listing limit of 2, so that a device is blocked and a row is beyond the limit; a
lock and two failures, so that a delete and the listing after it can both fail.
DesktopSession: two messages in two channels with a listing limit of 1, so that one
is beyond the limit; one query, whose search may be outdated by a change of query,
channel or lock. MediaSession: `MaxPending` bounds what is under way when the user
acts; 3 admits a toggle and its reversal while a third call or a request is open.
A user makes use of one of three sets of controls (`Users`): push-to-talk with
deafening, microphone with screen, camera with screen; each with rooms, the last
two with the lock. QueueMessage: five messages in two channels, so that each has a
first event and successors, and two processes; the run may stop, when every message
is written. Handlers, devices, rooms, channels, messages and processes are
symmetric where the cfg says so, never in a run with liveness.

Fairness (`Delivery!Fairness`). Weak fairness of starting a flush (the spawned
task wakes every `RETRY_INTERVAL`), of each step of a running flush (an async
function that is not cancelled), of the relay answering a request it received,
of finishing a command that was started, and of the user unlocking a locked
vault. Steps of the worker that are enabled together (a cancelled call and its
answer) end the same wait, and only one step of a command is enabled at a time, so
that the fairness of each is stated as that of their disjunction. No fairness on new messages, strays, time, or any disturbance. Disturbances
are finitely many, so liveness says: once they stop, everything is confirmed.

Fairness (`VaultLifecycle!Fairness`). A call that has been made runs to its end,
and a user who finds the vault locked enters its passphrase; failures are bounded.

Fairness (`OutboxStatus!Fairness`). The task takes a kick, a flush goes on and its
calls are answered (requests have a timeout), commands finish, a locked vault is
unlocked again. Strong fairness of taking `run_lock`, because a tokio mutex is fair
(first come, first served); otherwise a user who retries for ever could keep
`vault_lock` waiting. The steps of a command exclude one another, so one weak
fairness stands for that of each (`CommandGoesOn`). Nothing is assumed of the timer, except as the premise of
`SynchronisedInTheEnd`.

## 4. Findings

* `delivery_expiry`: the relay accepts an event, the answer is lost, the TTL
  passes. The relay has then pruned the identifier but kept the sender's highest
  counter, and answers every retry with 409 `sender_counter_replay`. The worker
  treats this like any other refusal: it keeps the row and blocks the device.
  The row is never deleted and nothing the device queues later is sent, against
  Singularis.md:382 and ADR 0004, item 12.
* `mls_join`: a receiver admits a sender's events from counter 1 on, a joiner
  starts with no chains, and the sender's counter runs on when a member is added.
  A device that joins after a sender's first event can decrypt that sender's
  later events but refuses all of them (`InvalidSenderChain`), against
  Singularis.md:209. The same happens to a receiver that misses an expired event.
* `session_lock`: a submission that was committed just before the vault closed
  returns after `quickLock` has cleared the lists, and its plaintext stays in them
  while the vault is locked, against ADR 0004, item 6.

`ConfirmedUnlessExpired` (run `delivery`) is the other side of `delivery_expiry`:
nothing else can hold the outbox up for good.

Met while modelling, and stated as conditions of the properties:

* Relay restart. The store starts empty, so a retry is accepted anew with a later
  expiry (Singularis.md:844: a restart extends no TTL), and a reader that keeps its
  cursor misses events until the channel has passed the old number
  (Singularis.md:733). `CursorMissesNothingInOneLife` is about one process.
* Listing limit. A loading shows the oldest `LIST_LIMIT` messages of a channel; in
  a longer channel the newest are missing. `HistoryComplete` promises all messages
  up to the limit and the oldest ones beyond it.
* Submission and loading. A message submitted while the messages are being loaded
  is shown twice, or not until the next loading; one whose commit returns after a
  change of channel is shown in the wrong one. `HistoryComplete` excludes both
  (`lastLoad`).
* Two instances. If their calls of `queue_message` overlap, they encrypt from the
  same snapshot and queue events with the same counter and predecessor. Nothing
  prevents a second instance, and the transaction does not check that the stored
  snapshot is still the one that was loaded. `SenderChainUnbroken` excludes the
  overlap (`overlap`); `RefersToQueued` holds with it.
* Late streams. See `MediaSession`: `late`.

## 5. Proofs

`RelayProofs` proves, for all constants satisfying `StoreAssumption`,
`NoEventAssumption` and `RelayAssumption`: `TypeCorrect`, `IndexAgreement`,
`IdempotentRetry`, `SenderFifo`, `DenseSequences`, `LiveRetention` (invariants)
and `ExactListings` (an action property).

None of the invariants is inductive alone. The strengthening `IInv` is the
conjunction of `TypeOK`, `TasksSound` (a waiting handler's request is valid and its
clock reading not in the future), `NoFutureLife`, `SenderOrder`,
`OneReceiptPerRequest`, and `Ledger`, which ties what the running process has
acknowledged to its store: the two indexes agree (`Indexed`), what is stored was
acknowledged (`StoredAcknowledged`), the highest counter of a sender is at least
that of every acknowledged event (`CountersDominate`), sequence numbers are dense
and used once (`Dense`, `NoNumberTwice`), and whatever was acknowledged and has not
expired is stored (`Retained`). From this a repeat finds either the stored event
(same receipt) or a counter that is not fresh (no second receipt), which is the
argument for idempotence. `PruneLedger` and `InsertLedger` carry the ledger through
the two store operations; each action of `Relay` then is one step of `NextIInv`.

`RelayProofs` also proves `CursorComplete` about `RelayReader`, whose steps are
`Relay`'s plus those of the reader. The invariant (`ReaderInv`) is that a
waiting listing starts from a number the reader has passed (`ListsFromCursor`), that
numbers in answers and cursors have been given out, and that an answer, however
late it is taken up, lacks no unexpired event up to its last one, except what the
reader has received already (`RepliesComplete`).

`VaultLifecycleProofs` proves, for all constants satisfying `LifecycleAssumption`
and `NoneAssumption`, any number of processes and failures: `TypeCorrect`,
`NeverCorrupt`, `ReportedStays`, `SchemaAgreement` (invariants) and
`DeviceIdentity` (an action property). The strengthening `IInv` adds what a process
relies on between two of its steps: its temporary directory is of one piece, and
complete and durable before the rename (`DirectoryFits`); a process past the rename
or with a connection finds at root the vault it has the key of, with a schema at
least as new as the one it has read (`RootFits`); the root is durable from the
inside (`RootSound`), and its entry is durable once it is promised (`PromiseKept`).
`RootStep` reduces an action to its own process plus the claim that no other
process is disturbed. The interesting steps are `RenameIInv` (nothing was at root,
so nobody can have relied on it), `MigrateIInv` (a table that can be created means
that the version read is still true) and `PowerLossRoot`.

`DeliveryProofs` proves `TypeCorrect`, `CompleteOutbox`, `VaultOwnedByFlush` and
`RefinesOrderedOutbox`, for every set of devices, every listing limit and every
number of disturbances, from `DeliveryAssumption` and the assumptions of
`EventStore`. The refinement is proved step by step: the initial state maps to one
of `OrderedOutbox`, a commit of `vault_queue_message` to `Queue`, an acceptance by
the relay to `Deliver` or a stutter, an acknowledgement to `Confirm`, everything
else to a stutter. What it rests on (`DInv`): the items that a flush has still to
look at leave out no row of a device that is not blocked (`ItemsComplete`), so the
row submitted is its sender's first; every request ever sent, waiting, answered or
stray, is at most one past what was delivered (`Due`), and the one under way is the next to
be confirmed (`CallsInOrder`); the relay holds only what has been delivered
(`CountersOrdered`); and a draining command has disabled the worker
(`CommandsPause`).

It also proves what the liveness of the send path owes to the protocol:
`ReceiptsAreValid` (a receipt the worker gets always passes its check) and
`OnlyExpiryRefuses` (when the relay refuses a call, the row is an
`ExpiredUnconfirmed` one: this relay process has accepted this very event before and
no longer holds it, so that finding `delivery_expiry` is the only way to be refused).
An identifier stands for one request, in the outbox, on the way and in the relay
(`Genuine`, `Receipted`), so that there is no conflict of identifiers; what is left is
a counter that is not above the sender's highest. That the event was accepted itself,
and not overtaken, is `AcceptedInv`: no call, no stray and no highest counter is more
than one ahead of what is confirmed (`CallNotAhead`, `NotAhead`, `HighestNotAhead`), the
highest counter belongs to the sender's accepted request (`HighestIsAccepted`), and no
row but the request's own has its counter (`Alone`). The row refused is the next to be
confirmed, so its counter is the highest one and its request the accepted one.

`QueueMessageProofs` proves `TypeCorrect`, `PredecessorsQueued` and
`ChainUnbroken`, for any number of processes, channels and messages. The first two
hold with overlapping calls: the head of every chain, in the vault or in a call's
memory, is an event that has been queued (`Grounded`, `HasClient`). For the third,
as long as no calls have overlapped, the one call under way has in memory what the
vault has stored (`Alone`). `SenderChainUnbroken` speaks of the positions of a
channel's events in the outbox (`Places`), since the provers cannot reason about
filtered sequences.

`OutboxStatusProofs` proves `TypeCorrect`, `SendingIsCurrent` and `IdleIsTrue`, for
any number of rows, devices, locks and failures. "idle" is true when it is stored
because a row that left the flush's list without a failure has left the outbox
(`Accounted`), and without a failure the rows acknowledged and the rows still to be
looked at add up to the listing (`Counted`): a flush that was cut short, by `pause()`
or by `resume()`, sees the rest in its second listing, or in its own count when that
listing fails, and does not decide for "idle".

`KicksReachTheTask` is the part of `KicksSuffice` that does not depend on fairness.
As long as nothing has failed and a listing holds all rows, a row that is left always
has something on its way that sends it (`NoKickLost`): a kick that is due or whose
permit is kept, a flush that will list the outbox or still has every row before it, or
a lock or unlock that ends in `resume()`, which kicks. A kick taken while the worker
is disabled does no harm, since then a command is in progress or the vault is locked
(`DisabledIsLocked`). A flush that `resume()` cuts short is followed by another, since
`resume()` kicks after it has written (`ChangeIsFollowed`).

`MlsChannelProofs` proves `TypeCorrect`, `KeysUsedOnce`, `PrefixesRecorded`,
`MemoryIsSaved`, `RefusedStaysReadable`, `GivenInOrder` and `LossesBounded`: every
safety property of the runs `mls` and `mls_fork`, for any set of devices and
identifiers, any snapshot limit and any number of failures. `SnapshotRoundTrip`
shows that decoding an encoded client gives the client back, which makes the
rollback of `transact` exact. `Ledger` relates the application messages that have
been released to the stored clients: no released message is ahead of its sender's
stored chain (`Behind`), no two share an identifier, a counter or a key (`Unique`),
and a receiver's stored chain records a sender's messages from the
first on without a gap (`Received`). What an operation under way has changed in
memory is described relative to the stored client (`Waiting`), and becomes part of
the ledger in the step that saves it. Counting the losses takes one more fact, that
what is recorded and not shown is being returned or was lost to one of the failures
(`Losses`).

`MediaSessionProofs` proves `TypeCorrect`, `StatusIsCurrent`, `TalksOnlyWhileHeld`
and `CaptureIsWanted`, for any number of rooms and any bound on the calls and
requests under way, from `MediaAssumption` and `NoneAssumption` (the value for "none"
is not a room, a status or a kind of stream). The user interface decides by the
status it shows, so the invariant has to say how far that status can be from the
native one, for every content of the queues. The last reply on its way, or without
one the status shown, is the native state (`LastShown`); the native room, the
push-to-talk setting and the pressed key are what the shown ones become when the
calls and replies of their functions arrive (`RoomFollows`, `TalkFollows`,
`PressFollows`); without a room camera and screen are off or about to be switched
off (`VideoNeedsRoom`). What the browser captures is wanted by the status shown,
or a function under way will look at it again, or it is one of the late streams
(`MicFits`, `VideoFits`).

`DesktopSessionProofs` proves `TypeCorrect`, `ResultsAreCurrent`, `HistoryIsComplete`
and `DraftIsKept`, for any set of channels and queries, any listing limit and any
number of messages and searches, from `SessionAssumption` and `NoneAssumption` (the
value for "none" is no reply). The invariant (`SessionInv`) describes what each
function in progress may wait for (`Tasks`; `quickLock` and the gate exclude each
other), and then:

* `SearchesCurrent`: a search that is current asks for the query and channel on
  display, and what it has found can still be found, since the archive loses nothing.
  An answer that is late is not current and changes nothing.
* `DraftIsNewest`: what is in the composer or being submitted is the newest draft, is
  stored nowhere before its commit, and is greater than everything in the archive.
* `Undisturbed`: while nothing has interfered with the last loading, a submission and
  a loader exclude each other, the listings taken are what the archive holds, and
  what a channel shows is its listing, except for a message whose commit has not
  been reported. This is what `lastLoad = "complete"` has to exclude.

`HistoryComplete` is about `InOrder(ListMessages(c))`, the first `ListLimit` messages
of a channel in order, which the model chooses by cardinality. The proofs look at it
through ranks: `Rank(set, m)` counts the messages up to `m`. It is a bijection from
the set onto the positions (by counting, without an induction), so that an
increasing sequence of a set exists and there is only one, and the chosen listing is the
set of the messages with a rank up to the limit. A new message has the highest rank:
below the limit the listing grows by it at its end, which is where
`submitMessage` pushes it, and from the limit on the listing stays what it was.

Every safety property of the passing runs is proved. Only model-checked: liveness
(`ConfirmedUnlessExpired`, `MigrationCompletes`, `KicksSuffice`,
`SynchronisedInTheEnd`), which is out of TLAPS's reach here, because its proof needs
`ENABLED` for each fair action and an induction over what is left to do. Of the first
and the third the part that is an invariant or a step property is proved (`OnlyExpiryRefuses`,
`ReceiptsAreValid`, `KicksReachTheTask`); these three are stated in the proof modules. The runs
that expect a violation show a behaviour; there is nothing to prove about them.

## 6. Not modelled

Not modelled: key derivation, SQLCipher and OpenMLS cryptography (external and
assumed to work); base64 and JSON encodings; the relay's configuration, which is read
once at start and appears as the constant `InstanceMaxTtl`; CORS and URL validation;
edited and deleted event bodies, which no check reads; the browser preview without a
native side; a runtime without media devices; the health request, labels and styling.

The plan is carried out. What could be added: one abstract specification of a room's
history that both `Delivery` and `MlsChannel` implement, so that what is queued on one
device is related to what is shown on another; it would have to state the two
known gaps (an expired event, a member that joins late) as conditions.
