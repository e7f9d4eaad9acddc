--------------------------- MODULE VaultLifecycle ---------------------------
(***************************************************************************)
(* How a vault comes into being and is opened                              *)
(* (crates/singularis-vault/src/vault.rs): initialize, unlock with its     *)
(* migrations, lock, and the lazily created device identifier.             *)
(*                                                                         *)
(* The vault's root is a directory with two files, the encrypted database  *)
(* and the key header.  Several application processes may work on the same *)
(* root: nothing in the desktop application keeps a second instance from   *)
(* starting.  A process can end at any step, and the machine can lose      *)
(* power, after which a directory entry that was not synced may be there   *)
(* or not.  A committed SQLite transaction and a synced file are durable.  *)
(*                                                                         *)
(* SQLCipher and the wrapping of the data key are external: a database     *)
(* opens with the key it was created with, a header gives its key to the   *)
(* passphrase it was made for.                                             *)
(***************************************************************************)
EXTENDS Naturals, FiniteSets

CONSTANTS
  Processes,    \* running instances of the desktop application
  Passphrases,  \* what users type
  Keys,         \* random data keys
  DeviceIds,    \* random device identifiers
  None,         \* an absent file, directory, row or value
  MaxFailures   \* bound: failed calls, ended processes and power losses

ASSUME LifecycleAssumption == MaxFailures \in Nat

VARIABLES
  root,      \* the directory paths.root
  anchored,  \* whether the entry of root in its parent directory is synced
  process,   \* what each process is doing
  promised,  \* history: data key of the vault an initialize has reported
  failures   \* number of failures so far

vars == <<root, anchored, process, promised, failures>>

-----------------------------------------------------------------------------
SCHEMA_VERSION == 4

(* What each schema version added to the one before.                       *)
TableAdded(version) ==
  CASE version = 1 -> "local_messages"
    [] version = 2 -> "mls_client_snapshots"
    [] version = 3 -> "mls_outbox"
    [] version = 4 -> "local_device"

Schema(version) == {TableAdded(v) : v \in 1 .. version}

(* The database file; `device' is the row of local_device.                 *)
Database ==
  [key : Keys, version : 1 .. SCHEMA_VERSION + 1,
   tables : SUBSET Schema(SCHEMA_VERSION), device : DeviceIds \cup {None}]

Header == [passphrase : Passphrases, key : Keys]

(* A directory; `synced' says that its entries are durable.                *)
Directory ==
  [database : Database \cup {None}, header : Header \cup {None}, synced : BOOLEAN]

ASSUME NoneAssumption ==
  None \notin Keys \cup DeviceIds \cup Database \cup Header \cup Directory

EmptyDirectory == [database |-> None, header |-> None, synced |-> FALSE]

(* A process: the step it is at, with the passphrase and the data key, the *)
(* directory .vault-init-* it fills, and the schema version it has read.   *)
Steps == {"create_database", "write_header", "sync", "rename", "sync_parent",
          "open_database", "migrate", "unlocked", "insert_device"}

Closed == [step |-> "closed"]

Process ==
  {Closed} \cup
  [step : Steps, passphrase : Passphrases, key : Keys, directory : Directory,
   version : 0 .. SCHEMA_VERSION + 1, initializing : BOOLEAN, device : DeviceIds \cup {None}]

(* Vaults of earlier and later releases.                                   *)
ExistingVault(version, passphrase, key) ==
  [database |-> [key |-> key, version |-> version,
                 tables |-> Schema(IF version > SCHEMA_VERSION THEN SCHEMA_VERSION ELSE version),
                 device |-> None],
   header |-> [passphrase |-> passphrase, key |-> key], synced |-> TRUE]

Init ==
  /\ \/ root = None /\ anchored = FALSE
     \/ \E version \in 1 .. SCHEMA_VERSION + 1, passphrase \in Passphrases, key \in Keys :
          /\ root = ExistingVault(version, passphrase, key)
          /\ anchored = TRUE
  /\ process = [p \in Processes |-> Closed]
  /\ promised = None
  /\ failures = 0

Fail ==
  /\ failures < MaxFailures
  /\ failures' = failures + 1

At(p, step) == process[p].step = step

(* disk_state, with the error CorruptState as a third value.               *)
DiskState(directory) ==
  IF directory = None THEN "uninitialized"
  ELSE IF directory.database # None /\ directory.header # None THEN "locked"
  ELSE "corrupt"

(* A random data key is none that is in use.                               *)
KeysInUse ==
  {process[p].key : p \in {q \in Processes : ~At(q, "closed")}}
    \cup (IF root = None THEN {} ELSE {root.header.key})

-----------------------------------------------------------------------------
(***************************************************************************)
(* initialize.                                                             *)
(***************************************************************************)
(* The check, the new data key and the empty temporary directory.  A weak  *)
(* passphrase is refused and changes nothing.                              *)
Initialize(p, passphrase) ==
  /\ At(p, "closed")
  /\ DiskState(root) = "uninitialized"
  /\ \E key \in Keys \ KeysInUse :
       process' = [process EXCEPT ![p] =
         [step |-> "create_database", passphrase |-> passphrase, key |-> key,
          directory |-> EmptyDirectory, version |-> 0, initializing |-> TRUE,
          device |-> None]]
  /\ UNCHANGED <<root, anchored, promised, failures>>

CreateDatabase(p) ==
  /\ At(p, "create_database")
  /\ process' = [process EXCEPT
       ![p].step = "write_header",
       ![p].directory.database =
         [key |-> process[p].key, version |-> SCHEMA_VERSION,
          tables |-> Schema(SCHEMA_VERSION), device |-> None]]
  /\ UNCHANGED <<root, anchored, promised, failures>>

WritePrivateFile(p) ==
  /\ At(p, "write_header")
  /\ process' = [process EXCEPT
       ![p].step = "sync",
       ![p].directory.header = [passphrase |-> process[p].passphrase, key |-> process[p].key]]
  /\ UNCHANGED <<root, anchored, promised, failures>>

(* Faulty: the temporary directory is renamed without syncing it.          *)
SkipSync(p) ==
  /\ At(p, "sync")
  /\ process' = [process EXCEPT ![p].step = "rename"]
  /\ UNCHANGED <<root, anchored, promised, failures>>

SyncDirectory(p) ==
  /\ At(p, "sync")
  /\ process' = [process EXCEPT ![p].step = "rename", ![p].directory.synced = TRUE]
  /\ UNCHANGED <<root, anchored, promised, failures>>

(* Faulty: an existing root is replaced.                                   *)
RenameReplaces(p) == At(p, "rename")

(* rename refuses a target directory that is not empty, so the vault of a  *)
(* process that was faster stays.                                          *)
CanRename(p) == At(p, "rename") /\ root = None

Rename(p) ==
  /\ CanRename(p)
  /\ root' = process[p].directory
  /\ anchored' = FALSE
  /\ process' = [process EXCEPT ![p].step = "sync_parent", ![p].directory = EmptyDirectory]
  /\ UNCHANGED <<promised, failures>>

SyncParent(p) ==
  /\ At(p, "sync_parent")
  /\ anchored' = TRUE
  /\ process' = [process EXCEPT ![p].step = "open_database"]
  /\ UNCHANGED <<root, promised, failures>>

(* One of the calls fails: the temporary directory is removed, under the   *)
(* name that it no longer has once it was renamed.                         *)
InitializeFails(p) ==
  /\ process[p].step \in {"create_database", "write_header", "sync", "rename", "sync_parent"}
  /\ \/ Fail
     \/ At(p, "rename") /\ ~CanRename(p) /\ UNCHANGED failures
  /\ process' = [process EXCEPT ![p] = Closed]
  /\ UNCHANGED <<root, anchored, promised>>

-----------------------------------------------------------------------------
(***************************************************************************)
(* unlock, open_database with its migrations, lock.                        *)
(***************************************************************************)
(* Another passphrase is refused by the header and changes nothing.        *)
Unlock(p, passphrase) ==
  /\ At(p, "closed")
  /\ DiskState(root) = "locked"
  /\ root.header.passphrase = passphrase
  /\ process' = [process EXCEPT ![p] =
       [step |-> "open_database", passphrase |-> passphrase, key |-> root.header.key,
        directory |-> EmptyDirectory, version |-> 0, initializing |-> FALSE,
        device |-> None]]
  /\ UNCHANGED <<root, anchored, promised, failures>>

(* Faulty: only a vault of the first release is migrated.                  *)
SupportsFirst(version) == version \in {1, SCHEMA_VERSION}

(* The versions open_database has a case for.                              *)
Supported(version) == version \in 1 .. SCHEMA_VERSION

CanOpen(p) ==
  /\ At(p, "open_database")
  /\ root.database.key = process[p].key
  /\ Supported(root.database.version)

(* The key is verified, then user_version is read, outside of any          *)
(* transaction.                                                            *)
OpenDatabase(p) ==
  /\ CanOpen(p)
  /\ process' = [process EXCEPT ![p].step = "migrate", ![p].version = root.database.version]
  /\ UNCHANGED <<root, anchored, promised, failures>>

(* Faulty: CREATE TABLE IF NOT EXISTS.                                     *)
CanMigrateAgain(p) == At(p, "migrate") /\ process[p].version < SCHEMA_VERSION

(* CREATE TABLE fails when another process has made the same migration.    *)
CanMigrate(p) ==
  /\ At(p, "migrate")
  /\ process[p].version < SCHEMA_VERSION
  /\ TableAdded(process[p].version + 1) \notin root.database.tables

(* migrate_v1_to_v2, migrate_v2_to_v3, migrate_v3_to_v4: the table and the *)
(* new version number in one transaction each.                             *)
Migrate(p) ==
  /\ CanMigrate(p)
  /\ LET version == process[p].version + 1 IN
     /\ root' = [root EXCEPT !.database.version = version,
                             !.database.tables = @ \cup {TableAdded(version)}]
     /\ process' = [process EXCEPT ![p].version = version]
  /\ UNCHANGED <<anchored, promised, failures>>

(* The connection is kept, and the caller told so.                         *)
Unlocked(p) ==
  /\ At(p, "migrate")
  /\ process[p].version = SCHEMA_VERSION
  /\ process' = [process EXCEPT ![p].step = "unlocked"]
  /\ promised' = IF process[p].initializing THEN process[p].key ELSE promised
  /\ UNCHANGED <<root, anchored, failures>>

(* Opening fails: an I/O error, another key, an unsupported version, a     *)
(* migration that somebody else has made.  The error of an initialize that *)
(* gets here leaves a complete vault behind.                               *)
OpenFails(p) ==
  /\ \/ process[p].step \in {"open_database", "migrate"} /\ Fail
     \/ At(p, "open_database") /\ ~CanOpen(p) /\ UNCHANGED failures
     \/ /\ At(p, "migrate")
        /\ process[p].version < SCHEMA_VERSION
        /\ ~CanMigrate(p)
        /\ UNCHANGED failures
  /\ process' = [process EXCEPT ![p] = Closed]
  /\ UNCHANGED <<root, anchored, promised>>

(* The connection is taken before it is closed, so that it is gone also    *)
(* when closing fails.                                                     *)
Lock(p) ==
  /\ At(p, "unlocked")
  /\ process' = [process EXCEPT ![p] = Closed]
  /\ UNCHANGED <<root, anchored, promised, failures>>

-----------------------------------------------------------------------------
(***************************************************************************)
(* local_device_id: SELECT, then INSERT when there was no row.             *)
(***************************************************************************)
SelectDevice(p) ==
  /\ At(p, "unlocked")
  /\ process' = [process EXCEPT
       ![p].step = IF root.database.device = None THEN "insert_device" ELSE "unlocked",
       ![p].device = root.database.device]
  /\ UNCHANGED <<root, anchored, promised, failures>>

(* Faulty: INSERT OR REPLACE.                                              *)
CanReplace(p) == At(p, "insert_device")

(* The table has one row at most.                                          *)
CanInsert(p) == At(p, "insert_device") /\ root.database.device = None

InsertDevice(p) ==
  /\ CanInsert(p)
  /\ \E id \in DeviceIds \ {root.database.device} :
       /\ root' = [root EXCEPT !.database.device = id]
       /\ process' = [process EXCEPT ![p].step = "unlocked", ![p].device = id]
  /\ UNCHANGED <<anchored, promised, failures>>

InsertFails(p) ==
  /\ At(p, "insert_device")
  /\ \/ Fail
     \/ ~CanInsert(p) /\ UNCHANGED failures
  /\ process' = [process EXCEPT ![p].step = "unlocked"]
  /\ UNCHANGED <<root, anchored, promised>>

-----------------------------------------------------------------------------
(***************************************************************************)
(* The environment.                                                        *)
(***************************************************************************)
(* A process ends; its temporary directory stays behind and is never read. *)
Kill(p) ==
  /\ ~At(p, "closed")
  /\ Fail
  /\ process' = [process EXCEPT ![p] = Closed]
  /\ UNCHANGED <<root, anchored, promised>>

(* What may be left of a directory: its entries, or some of them when they *)
(* were not synced.                                                        *)
Survivors(directory) ==
  IF directory.synced THEN {directory}
  ELSE {[directory EXCEPT !.database = d, !.header = h] :
          d \in {None, directory.database}, h \in {None, directory.header}}

(* Every process ends; a rename that was not synced may be undone.         *)
PowerLoss ==
  /\ Fail
  /\ process' = [p \in Processes |-> Closed]
  /\ root' \in (IF root = None THEN {None} ELSE Survivors(root))
                 \cup (IF anchored THEN {} ELSE {None})
  /\ anchored' = (root' # None)
  /\ UNCHANGED promised

(* A step of a call that has been made.                                    *)
Step(p) ==
  \/ CreateDatabase(p) \/ WritePrivateFile(p) \/ SyncDirectory(p)
  \/ Rename(p) \/ SyncParent(p) \/ InitializeFails(p)
  \/ OpenDatabase(p) \/ Migrate(p) \/ Unlocked(p) \/ OpenFails(p)
  \/ InsertDevice(p) \/ InsertFails(p)

Next ==
  \/ PowerLoss
  \/ \E p \in Processes :
       \/ \E passphrase \in Passphrases : Initialize(p, passphrase) \/ Unlock(p, passphrase)
       \/ Step(p) \/ Lock(p) \/ SelectDevice(p) \/ Kill(p)

(* A call that has been made runs to its end, and a user who finds the     *)
(* vault locked enters its passphrase.                                     *)
Fairness ==
  \A p \in Processes :
    /\ WF_vars(Step(p))
    /\ WF_vars(\E passphrase \in Passphrases : Unlock(p, passphrase))

Spec == Init /\ [][Next]_vars /\ Fairness

-----------------------------------------------------------------------------
(***************************************************************************)
(* Properties                                                              *)
(***************************************************************************)

(* Type invariant of the disk, the processes and the history.              *)
TypeOK ==
  /\ root \in Directory \cup {None}
  /\ anchored \in BOOLEAN
  /\ process \in [Processes -> Process]
  /\ promised \in Keys \cup {None}
  /\ failures \in 0 .. MaxFailures

(* Whatever process ends or call fails at whatever step, and through a     *)
(* power loss, the vault is absent or complete, and complete means that    *)
(* the key in its header is the key of its database.                       *)
AbsentOrComplete ==
  /\ DiskState(root) # "corrupt"
  /\ root # None => root.header.key = root.database.key

(* A vault that initialize has reported is there for good, through power   *)
(* losses and the initialize of another instance that had already checked  *)
(* that there was none.                                                    *)
ReportedVaultRemains ==
  promised # None => root # None /\ root.database.key = promised

(* The schema version in the database is that of its tables, although the  *)
(* migrations of an unlock are interrupted or made by two instances at the *)
(* same time from a version number that is no longer true; and a process   *)
(* with an open connection finds every table it uses.                      *)
SchemaMatchesVersion ==
  root # None =>
    /\ root.database.version <= SCHEMA_VERSION =>
         root.database.tables = Schema(root.database.version)
    /\ \A p \in Processes :
         process[p].step \in {"unlocked", "insert_device"} =>
           root.database.version = SCHEMA_VERSION

(* "The local device ID must be generated once inside SQLCipher and remain *)
(* unchanged after restart" (ADR 0004), also when two instances find none  *)
(* at the same time.                                                       *)
DeviceIdentityFixed ==
  [][ \A id \in DeviceIds :
        root # None /\ root' # None /\ root.database.device = id =>
          root'.database.device = id ]_vars

(* Interrupted migrations are made up for: a vault of an earlier release   *)
(* reaches the current schema once processes stop ending half-way.         *)
MigrationCompletes ==
  (root # None /\ root.database.version < SCHEMA_VERSION)
    ~> (root # None /\ root.database.version = SCHEMA_VERSION)
=============================================================================
