------------------------ MODULE VaultLifecycleProofs ------------------------
(***************************************************************************)
(* Proofs about VaultLifecycle, for any number of processes, keys and      *)
(* failures.                                                               *)
(***************************************************************************)
EXTENDS VaultLifecycle, TLAPS

(* A record of a process that is in the middle of a call or unlocked.      *)
Busy ==
  [step : Steps, passphrase : Passphrases, key : Keys, directory : Directory,
   version : 0 .. SCHEMA_VERSION + 1, initializing : BOOLEAN, device : DeviceIds \cup {None}]

(* The steps at which a process relies on the vault at root.               *)
OpenSteps == {"open_database", "migrate", "unlocked", "insert_device"}

(* What is in a temporary directory belongs together, and is complete and  *)
(* durable before it is renamed.                                           *)
DirectoryFits(r) ==
  /\ r.directory.database # None =>
       r.directory.database = [key |-> r.key, version |-> SCHEMA_VERSION,
                               tables |-> Schema(SCHEMA_VERSION), device |-> None]
  /\ r.directory.header # None => r.directory.header.key = r.key
  /\ r.step \in {"write_header", "sync", "rename"} => r.directory.database # None
  /\ r.step \in {"sync", "rename"} => r.directory.header # None
  /\ r.step = "rename" => r.directory.synced

(* A process that has come as far as the root finds the vault it has the   *)
(* key of, with a schema at least as new as the one it has read; and a     *)
(* process that has initialized it has synced the root's entry.            *)
RootFits(r, vault, durable) ==
  /\ r.step \in OpenSteps \cup {"sync_parent"} => vault # None /\ vault.database.key = r.key
  /\ r.step \in OpenSteps /\ r.initializing => durable
  /\ r.step = "migrate" =>
       /\ r.version \in 1 .. vault.database.version
       /\ vault.database.version <= SCHEMA_VERSION
  /\ r.step \in {"unlocked", "insert_device"} => vault.database.version = SCHEMA_VERSION

(* The vault at root is complete, durable and of one piece.                *)
RootSound ==
  root # None =>
    /\ root.database # None
    /\ root.header # None
    /\ root.synced
    /\ root.header.key = root.database.key
    /\ root.database.version <= SCHEMA_VERSION =>
         root.database.tables = Schema(root.database.version)

(* A promise is kept by a root whose entry is durable.                     *)
PromiseKept ==
  promised # None => root # None /\ root.database.key = promised /\ anchored

IInv ==
  /\ TypeOK
  /\ \A p \in Processes :
       process[p] # Closed => DirectoryFits(process[p]) /\ RootFits(process[p], root, anchored)
  /\ RootSound
  /\ PromiseKept

-----------------------------------------------------------------------------
(* A process that is not closed has the fields of a call.                  *)
LEMMA BusyProcess ==
  ASSUME TypeOK, NEW p \in Processes, process[p].step # "closed"
  PROVE  process[p] \in Busy /\ process[p] # Closed
BY DEF TypeOK, Process, Busy, Closed

(* A step of one process may change the root as far as the other processes *)
(* can stand it.                                                           *)
LEMMA RootStep ==
  ASSUME IInv, NEW p \in Processes, NEW r,
         process' = [process EXCEPT ![p] = r],
         r = Closed \/ (r \in Busy /\ DirectoryFits(r) /\ RootFits(r, root', anchored')),
         root' \in Directory \cup {None},
         anchored' \in BOOLEAN,
         promised' \in Keys \cup {None},
         failures' \in 0 .. MaxFailures,
         \A b \in Busy : RootFits(b, root, anchored) => RootFits(b, root', anchored'),
         RootSound',
         PromiseKept'
  PROVE  IInv'
<1>1. TypeOK'
  BY DEF IInv, TypeOK, Process, Busy
<1>2. ASSUME NEW q \in Processes, process'[q] # Closed
      PROVE  DirectoryFits(process'[q]) /\ RootFits(process'[q], root', anchored')
  <2>1. CASE q = p
    BY <1>2, <2>1 DEF IInv, TypeOK
  <2>2. CASE q # p
    <3>1. process'[q] = process[q]
      BY <2>2 DEF IInv, TypeOK
    <3>2. process[q] \in Busy
      BY <1>2, <3>1 DEF IInv, TypeOK, Process, Busy
    <3> QED BY <1>2, <3>1, <3>2 DEF IInv
  <2> QED BY <2>1, <2>2
<1>3. (\A q \in Processes :
        process[q] # Closed => DirectoryFits(process[q]) /\ RootFits(process[q], root, anchored))'
  BY <1>2 DEF DirectoryFits, RootFits
<1> QED BY <1>1, <1>3 DEF IInv

(* What a step does to its own process, while the root stays as it is.     *)
LEMMA ProcessStep ==
  ASSUME IInv, NEW p \in Processes, NEW r,
         process' = [process EXCEPT ![p] = r],
         r = Closed \/ (r \in Busy /\ DirectoryFits(r) /\ RootFits(r, root, anchored)),
         UNCHANGED <<root, anchored>>,
         promised' = promised \/
           (promised' \in Keys /\ anchored /\ root # None /\ root.database.key = promised'),
         failures' \in 0 .. MaxFailures
  PROVE  IInv'
<1>1. RootSound' /\ PromiseKept'
  BY DEF IInv, RootSound, PromiseKept
<1>2. promised' \in Keys \cup {None} /\ root' \in Directory \cup {None} /\ anchored' \in BOOLEAN
  BY DEF IInv, TypeOK
<1>3. \A b \in Busy : RootFits(b, root, anchored) => RootFits(b, root', anchored')
  OBVIOUS
<1>4. r = Closed \/ (r \in Busy /\ DirectoryFits(r) /\ RootFits(r, root', anchored'))
  OBVIOUS
<1> QED BY <1>1, <1>2, <1>3, <1>4, RootStep

(* A bounded failure keeps the count in its range.                         *)
LEMMA FailType ==
  ASSUME TypeOK, Fail \/ UNCHANGED failures
  PROVE  failures' \in 0 .. MaxFailures
BY LifecycleAssumption DEF TypeOK, Fail

(* A process may always end its call or its life.                          *)
LEMMA CloseStep ==
  ASSUME IInv, NEW p \in Processes,
         process' = [process EXCEPT ![p] = Closed],
         Fail \/ UNCHANGED failures,
         UNCHANGED <<root, anchored, promised>>
  PROVE  IInv'
<1>1. failures' \in 0 .. MaxFailures
  BY FailType DEF IInv
<1> QED BY <1>1, ProcessStep

(* Every initial disk, with a vault of any release or none, satisfies IInv. *)
LEMMA InitIInv == Init => IInv
<1> SUFFICES ASSUME Init PROVE IInv
  OBVIOUS
<1>1. (root = None \/ (root \in Directory /\ RootSound)) /\ anchored \in BOOLEAN
  <2>1. CASE root = None /\ anchored = FALSE
    BY <2>1
  <2>2. ASSUME NEW version \in 1 .. SCHEMA_VERSION + 1, NEW passphrase \in Passphrases,
               NEW key \in Keys,
               root = ExistingVault(version, passphrase, key), anchored = TRUE
        PROVE  root \in Directory /\ RootSound /\ anchored \in BOOLEAN
    <3>1. root.database \in Database
      BY <2>2 DEF ExistingVault, Database, Schema, SCHEMA_VERSION
    <3>2. root.header \in Header
      BY <2>2 DEF ExistingVault, Header
    <3>3. root \in Directory
      BY <2>2, <3>1, <3>2 DEF ExistingVault, Directory
    <3>4. RootSound
      BY <2>2, <3>1, <3>2, NoneAssumption DEF ExistingVault, RootSound, SCHEMA_VERSION
    <3> QED BY <2>2, <3>3, <3>4
  <2> QED BY <2>1, <2>2 DEF Init
<1>2. process \in [Processes -> Process] /\ \A p \in Processes : process[p] = Closed
  BY DEF Init, Process
<1>3. promised = None /\ failures \in 0 .. MaxFailures
  BY LifecycleAssumption DEF Init
<1>4. TypeOK
  BY <1>1, <1>2, <1>3 DEF TypeOK
<1>5. RootSound /\ PromiseKept
  BY <1>1, <1>3 DEF RootSound, PromiseKept
<1> QED BY <1>2, <1>4, <1>5 DEF IInv

-----------------------------------------------------------------------------
(* The first part of initialize preserves IInv.                            *)
LEMMA InitializeIInv ==
  ASSUME IInv, NEW p \in Processes, NEW passphrase \in Passphrases, Initialize(p, passphrase)
  PROVE  IInv'
<1>1. PICK key \in Keys \ KeysInUse :
        process' = [process EXCEPT ![p] =
          [step |-> "create_database", passphrase |-> passphrase, key |-> key,
           directory |-> EmptyDirectory, version |-> 0, initializing |-> TRUE,
           device |-> None]]
  BY DEF Initialize
<1> DEFINE r == [step |-> "create_database", passphrase |-> passphrase, key |-> key,
                 directory |-> EmptyDirectory, version |-> 0, initializing |-> TRUE,
                 device |-> None]
<1>2. EmptyDirectory \in Directory
  BY DEF EmptyDirectory, Directory
<1>3. r \in Busy
  BY <1>2 DEF Busy, Steps, SCHEMA_VERSION
<1>4. DirectoryFits(r) /\ RootFits(r, root, anchored)
  BY DEF DirectoryFits, RootFits, EmptyDirectory, OpenSteps
<1>5. failures' \in 0 .. MaxFailures /\ promised' = promised /\ UNCHANGED <<root, anchored>>
  BY DEF Initialize, IInv, TypeOK
<1>6. process' = [process EXCEPT ![p] = r]
  BY <1>1
<1> HIDE DEF r
<1> QED BY <1>3, <1>4, <1>5, <1>6, ProcessStep

(* unlock takes the key of the vault that is at root.                      *)
LEMMA UnlockIInv ==
  ASSUME IInv, NEW p \in Processes, NEW passphrase \in Passphrases, Unlock(p, passphrase)
  PROVE  IInv'
<1> DEFINE r == [step |-> "open_database", passphrase |-> passphrase, key |-> root.header.key,
                 directory |-> EmptyDirectory, version |-> 0, initializing |-> FALSE,
                 device |-> None]
<1>1. EmptyDirectory \in Directory
  BY DEF EmptyDirectory, Directory
<1>2. root # None /\ root \in Directory
  BY DEF Unlock, DiskState, IInv, TypeOK
<1>3. root.header.key \in Keys /\ root.header.key = root.database.key
  BY <1>2 DEF IInv, RootSound, Directory, Header
<1>4. r \in Busy
  BY <1>1, <1>3 DEF Busy, Steps, SCHEMA_VERSION
<1>5. DirectoryFits(r) /\ RootFits(r, root, anchored)
  BY <1>2, <1>3 DEF DirectoryFits, RootFits, EmptyDirectory, OpenSteps
<1>6. failures' \in 0 .. MaxFailures /\ promised' = promised /\ UNCHANGED <<root, anchored>>
  BY DEF Unlock, IInv, TypeOK
<1>7. process' = [process EXCEPT ![p] = r]
  BY DEF Unlock
<1> HIDE DEF r
<1> QED BY <1>4, <1>5, <1>6, <1>7, ProcessStep

(* create_database fills the temporary directory with its own key.         *)
LEMMA CreateDatabaseIInv ==
  ASSUME IInv, NEW p \in Processes, CreateDatabase(p)
  PROVE  IInv'
<1> DEFINE database == [key |-> process[p].key, version |-> SCHEMA_VERSION,
                        tables |-> Schema(SCHEMA_VERSION), device |-> None]
           r == [process[p] EXCEPT !.step = "write_header", !.directory.database = database]
<1>1. process[p] \in Busy /\ process[p] # Closed /\ process[p].step = "create_database"
  BY BusyProcess DEF CreateDatabase, At, IInv
<1>2. DirectoryFits(process[p])
  BY <1>1 DEF IInv
<1>3. database \in Database
  BY <1>1 DEF Database, Busy, SCHEMA_VERSION
<1>4. r \in Busy
  BY <1>1, <1>3 DEF Busy, Directory, Steps
<1>5. r.step = "write_header" /\ r.key = process[p].key
  /\ r.directory.database = database /\ r.directory.header = process[p].directory.header
  BY <1>1 DEF Busy, Directory
<1>6. DirectoryFits(r)
  BY <1>2, <1>3, <1>5, NoneAssumption DEF DirectoryFits
<1>7. RootFits(r, root, anchored)
  BY <1>5 DEF RootFits, OpenSteps
<1>8. failures' \in 0 .. MaxFailures /\ promised' = promised /\ UNCHANGED <<root, anchored>>
  BY DEF CreateDatabase, IInv, TypeOK
<1>9. process' = [process EXCEPT ![p] = r]
  BY DEF CreateDatabase
<1> HIDE DEF r
<1> QED BY <1>4, <1>6, <1>7, <1>8, <1>9, ProcessStep

(* The header gets the key of the database beside it.                      *)
LEMMA WritePrivateFileIInv ==
  ASSUME IInv, NEW p \in Processes, WritePrivateFile(p)
  PROVE  IInv'
<1> DEFINE header == [passphrase |-> process[p].passphrase, key |-> process[p].key]
           r == [process[p] EXCEPT !.step = "sync", !.directory.header = header]
<1>1. process[p] \in Busy /\ process[p] # Closed /\ process[p].step = "write_header"
  BY BusyProcess DEF WritePrivateFile, At, IInv
<1>2. DirectoryFits(process[p])
  BY <1>1 DEF IInv
<1>3. header \in Header
  BY <1>1 DEF Header, Busy
<1>4. r \in Busy
  BY <1>1, <1>3 DEF Busy, Directory, Steps
<1>5. r.step = "sync" /\ r.key = process[p].key
  /\ r.directory.header = header /\ r.directory.database = process[p].directory.database
  BY <1>1 DEF Busy, Directory
<1>6. DirectoryFits(r)
  BY <1>1, <1>2, <1>3, <1>5, NoneAssumption DEF DirectoryFits
<1>7. RootFits(r, root, anchored)
  BY <1>5 DEF RootFits, OpenSteps
<1>8. failures' \in 0 .. MaxFailures /\ promised' = promised /\ UNCHANGED <<root, anchored>>
  BY DEF WritePrivateFile, IInv, TypeOK
<1>9. process' = [process EXCEPT ![p] = r]
  BY DEF WritePrivateFile
<1> HIDE DEF r
<1> QED BY <1>4, <1>6, <1>7, <1>8, <1>9, ProcessStep

(* Before the rename both files are there and durable.                     *)
LEMMA SyncDirectoryIInv ==
  ASSUME IInv, NEW p \in Processes, SyncDirectory(p)
  PROVE  IInv'
<1> DEFINE r == [process[p] EXCEPT !.step = "rename", !.directory.synced = TRUE]
<1>1. process[p] \in Busy /\ process[p] # Closed /\ process[p].step = "sync"
  BY BusyProcess DEF SyncDirectory, At, IInv
<1>2. DirectoryFits(process[p])
  BY <1>1 DEF IInv
<1>3. r \in Busy
  BY <1>1 DEF Busy, Directory, Steps
<1>4. r.step = "rename" /\ r.key = process[p].key /\ r.directory.synced
  /\ r.directory.header = process[p].directory.header
  /\ r.directory.database = process[p].directory.database
  BY <1>1 DEF Busy, Directory
<1>5. DirectoryFits(r)
  BY <1>1, <1>2, <1>4 DEF DirectoryFits
<1>6. RootFits(r, root, anchored)
  BY <1>4 DEF RootFits, OpenSteps
<1>7. failures' \in 0 .. MaxFailures /\ promised' = promised /\ UNCHANGED <<root, anchored>>
  BY DEF SyncDirectory, IInv, TypeOK
<1>8. process' = [process EXCEPT ![p] = r]
  BY DEF SyncDirectory
<1> HIDE DEF r
<1> QED BY <1>3, <1>5, <1>6, <1>7, <1>8, ProcessStep

(* The rename puts a complete directory where nothing was, so that no      *)
(* process can have relied on the root.                                    *)
LEMMA RenameIInv ==
  ASSUME IInv, NEW p \in Processes, Rename(p)
  PROVE  IInv'
<1> DEFINE r == [process[p] EXCEPT !.step = "sync_parent", !.directory = EmptyDirectory]
<1>1. process[p] \in Busy /\ process[p] # Closed /\ process[p].step = "rename"
  BY BusyProcess DEF Rename, CanRename, At, IInv
<1>2. DirectoryFits(process[p]) /\ root = None
  BY <1>1 DEF IInv, Rename, CanRename
<1>3. root' = process[p].directory /\ root' \in Directory /\ root' # None
  BY <1>1, NoneAssumption DEF Rename, Busy
<1>4. /\ root'.database = [key |-> process[p].key, version |-> SCHEMA_VERSION,
                           tables |-> Schema(SCHEMA_VERSION), device |-> None]
      /\ root'.database # None
      /\ root'.header # None
      /\ root'.header.key = process[p].key
      /\ root'.synced
  BY <1>1, <1>2, <1>3 DEF DirectoryFits
<1>5. EmptyDirectory \in Directory
  BY DEF EmptyDirectory, Directory
<1>6. r \in Busy
  BY <1>1, <1>5 DEF Busy, Steps
<1>7. r.step = "sync_parent" /\ r.key = process[p].key /\ r.directory = EmptyDirectory
  BY <1>1 DEF Busy
<1>8. DirectoryFits(r)
  BY <1>7 DEF DirectoryFits, EmptyDirectory
<1>9. RootFits(r, root', anchored')
  BY <1>3, <1>4, <1>7 DEF RootFits, OpenSteps
<1>10. \A b \in Busy : RootFits(b, root, anchored) => RootFits(b, root', anchored')
  BY <1>2 DEF RootFits, OpenSteps
<1>11. RootSound' /\ PromiseKept'
  BY <1>2, <1>4 DEF RootSound, PromiseKept, IInv, Rename
<1>12. /\ failures' \in 0 .. MaxFailures /\ promised' \in Keys \cup {None}
       /\ anchored' \in BOOLEAN /\ process' = [process EXCEPT ![p] = r]
  BY DEF Rename, IInv, TypeOK
<1> HIDE DEF r
<1> QED BY <1>3, <1>6, <1>8, <1>9, <1>10, <1>11, <1>12, RootStep

(* Syncing the parent directory only makes the root more durable.          *)
LEMMA SyncParentIInv ==
  ASSUME IInv, NEW p \in Processes, SyncParent(p)
  PROVE  IInv'
<1> DEFINE r == [process[p] EXCEPT !.step = "open_database"]
<1>1. process[p] \in Busy /\ process[p] # Closed /\ process[p].step = "sync_parent"
  BY BusyProcess DEF SyncParent, At, IInv
<1>2. DirectoryFits(process[p]) /\ RootFits(process[p], root, anchored)
  BY <1>1 DEF IInv
<1>3. r \in Busy /\ r.step = "open_database" /\ r.key = process[p].key
  /\ r.directory = process[p].directory
  BY <1>1 DEF Busy, Steps
<1>4. DirectoryFits(r)
  BY <1>2, <1>3 DEF DirectoryFits
<1>5. root' = root /\ anchored' = TRUE /\ promised' = promised
  BY DEF SyncParent
<1>6. RootFits(r, root', anchored')
  BY <1>1, <1>2, <1>3, <1>5 DEF RootFits, OpenSteps
<1>7. \A b \in Busy : RootFits(b, root, anchored) => RootFits(b, root', anchored')
  BY <1>5 DEF RootFits
<1>8. RootSound' /\ PromiseKept'
  BY <1>5 DEF RootSound, PromiseKept, IInv
<1>9. /\ failures' \in 0 .. MaxFailures /\ promised' \in Keys \cup {None}
      /\ root' \in Directory \cup {None} /\ process' = [process EXCEPT ![p] = r]
  BY DEF SyncParent, IInv, TypeOK
<1> HIDE DEF r
<1> QED BY <1>3, <1>4, <1>5, <1>6, <1>7, <1>8, <1>9, RootStep

(* The version read is the version of the database at that moment.         *)
LEMMA OpenDatabaseIInv ==
  ASSUME IInv, NEW p \in Processes, OpenDatabase(p)
  PROVE  IInv'
<1> DEFINE r == [process[p] EXCEPT !.step = "migrate", !.version = root.database.version]
<1>1. process[p] \in Busy /\ process[p] # Closed /\ process[p].step = "open_database"
  BY BusyProcess DEF OpenDatabase, CanOpen, At, IInv
<1>2. DirectoryFits(process[p]) /\ RootFits(process[p], root, anchored)
  BY <1>1 DEF IInv
<1>3. root.database.version \in 1 .. SCHEMA_VERSION
  BY DEF OpenDatabase, CanOpen, Supported
<1>4. r \in Busy
  <2>1. root.database.version \in 0 .. SCHEMA_VERSION + 1
    BY <1>3 DEF SCHEMA_VERSION
  <2> QED BY <1>1, <2>1 DEF Busy, Steps
<1>9. r.step = "migrate" /\ r.key = process[p].key
  /\ r.directory = process[p].directory /\ r.version = root.database.version
  /\ (r.initializing => process[p].initializing)
  BY <1>1 DEF Busy
<1>5. DirectoryFits(r)
  BY <1>2, <1>9 DEF DirectoryFits
<1>6. RootFits(r, root, anchored)
  BY <1>1, <1>2, <1>3, <1>9 DEF RootFits, OpenSteps, SCHEMA_VERSION
<1>7. failures' \in 0 .. MaxFailures /\ promised' = promised /\ UNCHANGED <<root, anchored>>
  BY DEF OpenDatabase, IInv, TypeOK
<1>8. process' = [process EXCEPT ![p] = r]
  BY DEF OpenDatabase
<1> HIDE DEF r
<1> QED BY <1>4, <1>5, <1>6, <1>7, <1>8, ProcessStep

(* What a schema has is what its version number says.                      *)
LEMMA SchemaMember ==
  ASSUME NEW v \in 1 .. SCHEMA_VERSION, NEW w \in 1 .. SCHEMA_VERSION
  PROVE  TableAdded(v) \in Schema(w) <=> v <= w
BY DEF Schema, TableAdded, SCHEMA_VERSION

(* A migration leads from one schema to the next.                          *)
LEMMA SchemaGrows ==
  ASSUME NEW v \in 1 .. SCHEMA_VERSION - 1
  PROVE  Schema(v) \cup {TableAdded(v + 1)} = Schema(v + 1)
BY DEF Schema, SCHEMA_VERSION

(* A process can migrate only from the version the database has: what it   *)
(* has read is not newer, and a table it would create is not there yet.    *)
LEMMA MigrateIInv ==
  ASSUME IInv, NEW p \in Processes, Migrate(p)
  PROVE  IInv'
<1> DEFINE v == process[p].version + 1
           r == [process[p] EXCEPT !.version = v]
<1>1. process[p] \in Busy /\ process[p] # Closed /\ process[p].step = "migrate"
  BY BusyProcess DEF Migrate, CanMigrate, At, IInv
<1>2. DirectoryFits(process[p]) /\ RootFits(process[p], root, anchored)
  BY <1>1 DEF IInv
<1>3. root \in Directory /\ root # None /\ root.database # None /\ root.database \in Database
  BY <1>1, <1>2 DEF IInv, TypeOK, RootFits, RootSound, OpenSteps, Directory
<1>4. root.database.version \in 1 .. SCHEMA_VERSION /\ process[p].version \in 1 .. SCHEMA_VERSION - 1
  BY <1>1, <1>2, <1>3 DEF RootFits, Database, Migrate, CanMigrate, SCHEMA_VERSION
<1>5. root.database.tables = Schema(root.database.version)
  BY <1>3, <1>4 DEF IInv, RootSound, SCHEMA_VERSION
<1>6. v \in 1 .. SCHEMA_VERSION /\ ~(v <= root.database.version)
  <2>1. v \in 1 .. SCHEMA_VERSION
    BY <1>4 DEF SCHEMA_VERSION
  <2>2. TableAdded(v) \notin Schema(root.database.version)
    BY <1>5 DEF Migrate, CanMigrate
  <2> QED BY <1>4, <2>1, <2>2, SchemaMember
<1>7. process[p].version = root.database.version
  BY <1>1, <1>2, <1>4, <1>6 DEF RootFits, SCHEMA_VERSION
<1>8. Schema(root.database.version) \cup {TableAdded(v)} = Schema(v)
  BY <1>4, <1>7, SchemaGrows
<1>9. root' = [root EXCEPT !.database.version = v,
                           !.database.tables = @ \cup {TableAdded(v)}]
  BY DEF Migrate
<1>10. /\ root'.database.version = v
       /\ root'.database.tables = Schema(v)
       /\ root'.database.key = root.database.key
       /\ root'.database.device = root.database.device
       /\ root'.header = root.header
       /\ (root'.synced <=> root.synced)
  BY <1>3, <1>5, <1>8, <1>9 DEF Directory, Database
<1>11. root' \in Directory /\ root'.database \in Database
  <2>1. v \in 1 .. SCHEMA_VERSION + 1 /\ Schema(v) \in SUBSET Schema(SCHEMA_VERSION)
    BY <1>6 DEF Schema, SCHEMA_VERSION
  <2>2. [root.database EXCEPT !.version = v, !.tables = Schema(v)] \in Database
    BY <1>3, <2>1 DEF Database
  <2>3. root' = [root EXCEPT !.database = [root.database EXCEPT !.version = v, !.tables = Schema(v)]]
    BY <1>3, <1>5, <1>8, <1>9 DEF Directory, Database
  <2> QED BY <1>3, <2>2, <2>3 DEF Directory
<1>12. root' # None /\ root'.database # None
  BY <1>11, NoneAssumption
<1>13. r \in Busy
  <2>1. v \in 0 .. SCHEMA_VERSION + 1
    BY <1>6 DEF SCHEMA_VERSION
  <2> QED BY <1>1, <2>1 DEF Busy
<1>14. r.step = "migrate" /\ r.key = process[p].key /\ r.directory = process[p].directory
  /\ r.version = v /\ (r.initializing => process[p].initializing)
  BY <1>1 DEF Busy
<1>15. DirectoryFits(r)
  BY <1>1, <1>2, <1>14 DEF DirectoryFits
<1>16. anchored' = anchored /\ promised' = promised /\ process' = [process EXCEPT ![p] = r]
  BY DEF Migrate
<1>17. RootFits(r, root', anchored')
  BY <1>1, <1>2, <1>6, <1>10, <1>12, <1>14, <1>16 DEF RootFits, OpenSteps, SCHEMA_VERSION
<1>18. ASSUME NEW b \in Busy, RootFits(b, root, anchored)
       PROVE  RootFits(b, root', anchored')
  <2>1. b.version \in Nat
    BY DEF Busy, SCHEMA_VERSION
  <2>2. root.database.version \in Nat /\ root.database.version < SCHEMA_VERSION /\ v = root.database.version + 1
    BY <1>4, <1>7 DEF SCHEMA_VERSION
  <2> QED
    BY <1>6, <1>10, <1>12, <1>16, <1>18, <2>1, <2>2 DEF RootFits, SCHEMA_VERSION
<1>19. RootSound'
  BY <1>3, <1>10, <1>12 DEF RootSound, IInv
<1>20. PromiseKept'
  BY <1>10, <1>12, <1>16 DEF PromiseKept, IInv
<1>21. failures' \in 0 .. MaxFailures /\ promised' \in Keys \cup {None} /\ anchored' \in BOOLEAN
  BY DEF Migrate, IInv, TypeOK
<1> HIDE DEF r
<1> QED BY <1>11, <1>13, <1>15, <1>16, <1>17, <1>18, <1>19, <1>20, <1>21, RootStep

(* An unlocked process has a vault of the current schema.                  *)
LEMMA UnlockedIInv ==
  ASSUME IInv, NEW p \in Processes, Unlocked(p)
  PROVE  IInv'
<1> DEFINE r == [process[p] EXCEPT !.step = "unlocked"]
<1>1. process[p] \in Busy /\ process[p] # Closed /\ process[p].step = "migrate"
  BY BusyProcess DEF Unlocked, At, IInv
<1>2. DirectoryFits(process[p]) /\ RootFits(process[p], root, anchored)
  BY <1>1 DEF IInv
<1>3. r \in Busy
  BY <1>1 DEF Busy, Steps
<1>4. r.step = "unlocked" /\ r.key = process[p].key /\ r.directory = process[p].directory
  /\ (r.initializing => process[p].initializing)
  BY <1>1 DEF Busy
<1>5. DirectoryFits(r)
  BY <1>2, <1>4 DEF DirectoryFits
<1>6. root # None /\ root \in Directory /\ root.database \in Database
  BY <1>1, <1>2 DEF IInv, TypeOK, RootFits, RootSound, OpenSteps, Directory
<1>7. root.database.version = SCHEMA_VERSION
  BY <1>1, <1>2, <1>6 DEF RootFits, Unlocked, Database, SCHEMA_VERSION
<1>8. RootFits(r, root, anchored)
  BY <1>1, <1>2, <1>4, <1>6, <1>7 DEF RootFits, OpenSteps
<1>9. promised' = promised \/
        (promised' \in Keys /\ anchored /\ root # None /\ root.database.key = promised')
  BY <1>1, <1>2, <1>6 DEF Unlocked, Busy, RootFits, OpenSteps
<1>10. /\ failures' \in 0 .. MaxFailures /\ UNCHANGED <<root, anchored>>
       /\ process' = [process EXCEPT ![p] = r]
  BY DEF Unlocked, IInv, TypeOK
<1> HIDE DEF r
<1> QED BY <1>3, <1>5, <1>8, <1>9, <1>10, ProcessStep

(* While a process holds a connection, the root is a vault.                *)
LEMMA ConnectedRoot ==
  ASSUME IInv, NEW p \in Processes, process[p].step \in OpenSteps
  PROVE  /\ process[p] \in Busy
         /\ DirectoryFits(process[p])
         /\ RootFits(process[p], root, anchored)
         /\ root \in Directory
         /\ root # None
         /\ root.database \in Database
<1>1. process[p] \in Busy /\ process[p] # Closed
  BY BusyProcess DEF IInv, OpenSteps
<1>2. DirectoryFits(process[p]) /\ RootFits(process[p], root, anchored)
  BY <1>1 DEF IInv
<1>3. root \in Directory /\ root # None /\ root.database \in Database
  BY <1>2 DEF IInv, TypeOK, RootFits, RootSound, Directory
<1> QED BY <1>1, <1>2, <1>3

(* Reading the device identifier changes only the process.                 *)
LEMMA SelectDeviceIInv ==
  ASSUME IInv, NEW p \in Processes, SelectDevice(p)
  PROVE  IInv'
<1> DEFINE step == IF root.database.device = None THEN "insert_device" ELSE "unlocked"
           r == [process[p] EXCEPT !.step = step, !.device = root.database.device]
<1>1. process[p].step = "unlocked"
  BY DEF SelectDevice, At
<1>2. process[p].step \in OpenSteps
  BY <1>1 DEF OpenSteps
<1>3. /\ process[p] \in Busy /\ DirectoryFits(process[p]) /\ RootFits(process[p], root, anchored)
      /\ root \in Directory /\ root # None /\ root.database \in Database
  BY <1>2, ConnectedRoot
<1>4. root.database.device \in DeviceIds \cup {None}
  BY <1>3 DEF Database
<1>5. step \in {"insert_device", "unlocked"}
  OBVIOUS
<1> HIDE DEF step
<1>6. r \in Busy
  BY <1>3, <1>4, <1>5 DEF Busy, Steps
<1>7. r.step = step /\ r.key = process[p].key /\ r.directory = process[p].directory
  /\ (r.initializing => process[p].initializing)
  BY <1>3 DEF Busy
<1>8. DirectoryFits(r)
  BY <1>3, <1>5, <1>7 DEF DirectoryFits
<1>9. RootFits(r, root, anchored)
  BY <1>1, <1>3, <1>5, <1>7 DEF RootFits, OpenSteps
<1>10. failures' \in 0 .. MaxFailures /\ promised' = promised /\ UNCHANGED <<root, anchored>>
  BY DEF SelectDevice, IInv, TypeOK
<1>11. process' = [process EXCEPT ![p] = r]
  BY DEF SelectDevice, step
<1> HIDE DEF r
<1> QED BY <1>6, <1>8, <1>9, <1>10, <1>11, ProcessStep

(* A failed INSERT changes only the process.                               *)
LEMMA InsertFailsIInv ==
  ASSUME IInv, NEW p \in Processes, InsertFails(p)
  PROVE  IInv'
<1> DEFINE r == [process[p] EXCEPT !.step = "unlocked"]
<1>1. process[p].step = "insert_device"
  BY DEF InsertFails, At
<1>2. process[p].step \in OpenSteps
  BY <1>1 DEF OpenSteps
<1>3. process[p] \in Busy /\ DirectoryFits(process[p]) /\ RootFits(process[p], root, anchored)
  BY <1>2, ConnectedRoot
<1>4. r \in Busy
  BY <1>3 DEF Busy, Steps
<1>5. r.step = "unlocked" /\ r.key = process[p].key /\ r.directory = process[p].directory
  /\ (r.initializing => process[p].initializing)
  BY <1>3 DEF Busy
<1>6. DirectoryFits(r)
  BY <1>3, <1>5 DEF DirectoryFits
<1>7. RootFits(r, root, anchored)
  BY <1>1, <1>3, <1>5 DEF RootFits, OpenSteps
<1>8. failures' \in 0 .. MaxFailures
  BY FailType DEF InsertFails, IInv
<1>9. promised' = promised /\ UNCHANGED <<root, anchored>> /\ process' = [process EXCEPT ![p] = r]
  BY DEF InsertFails
<1> HIDE DEF r
<1> QED BY <1>4, <1>6, <1>7, <1>8, <1>9, ProcessStep

(* The INSERT changes nothing another process relies on.                   *)
LEMMA InsertDeviceIInv ==
  ASSUME IInv, NEW p \in Processes, InsertDevice(p)
  PROVE  IInv'
<1>1. PICK id \in DeviceIds \ {root.database.device} :
        /\ root' = [root EXCEPT !.database.device = id]
        /\ process' = [process EXCEPT ![p].step = "unlocked", ![p].device = id]
  BY DEF InsertDevice
<1> DEFINE r == [process[p] EXCEPT !.step = "unlocked", !.device = id]
<1>2. process[p].step = "insert_device" /\ process[p].step \in OpenSteps
  BY DEF InsertDevice, CanInsert, At, OpenSteps
<1>3. /\ process[p] \in Busy /\ DirectoryFits(process[p]) /\ RootFits(process[p], root, anchored)
      /\ root \in Directory /\ root # None /\ root.database \in Database
  BY <1>2, ConnectedRoot
<1>4. /\ root'.database.version = root.database.version
      /\ root'.database.tables = root.database.tables
      /\ root'.database.key = root.database.key
      /\ root'.header = root.header
      /\ (root'.synced <=> root.synced)
  BY <1>1, <1>3 DEF Directory, Database
<1>5. root' \in Directory /\ root'.database \in Database
  <2>1. [root.database EXCEPT !.device = id] \in Database
    BY <1>3 DEF Database
  <2> QED BY <1>1, <1>3, <2>1 DEF Directory
<1>6. root' # None /\ root'.database # None
  BY <1>5, NoneAssumption
<1>7. r \in Busy
  BY <1>3 DEF Busy, Steps
<1>8. r.step = "unlocked" /\ r.key = process[p].key /\ r.directory = process[p].directory
  /\ (r.initializing => process[p].initializing)
  BY <1>3 DEF Busy
<1>9. DirectoryFits(r)
  BY <1>3, <1>8 DEF DirectoryFits
<1>10. anchored' = anchored /\ promised' = promised /\ process' = [process EXCEPT ![p] = r]
  BY <1>1 DEF InsertDevice
<1>11. RootFits(r, root', anchored')
  BY <1>2, <1>3, <1>4, <1>6, <1>8, <1>10 DEF RootFits, OpenSteps
<1>12. \A b \in Busy : RootFits(b, root, anchored) => RootFits(b, root', anchored')
  BY <1>4, <1>6, <1>10 DEF RootFits
<1>13. RootSound' /\ PromiseKept'
  BY <1>3, <1>4, <1>6, <1>10 DEF RootSound, PromiseKept, IInv
<1>14. failures' \in 0 .. MaxFailures /\ promised' \in Keys \cup {None} /\ anchored' \in BOOLEAN
  BY DEF InsertDevice, IInv, TypeOK
<1> HIDE DEF r
<1> QED BY <1>5, <1>7, <1>9, <1>10, <1>11, <1>12, <1>13, <1>14, RootStep

(* A power loss leaves the root as it was or, unless its entry is durable, *)
(* nothing: the directory was synced before it was renamed.                *)
LEMMA PowerLossRoot ==
  ASSUME IInv, PowerLoss
  PROVE  root' = root \/ (root' = None /\ ~anchored)
<1>1. root # None => Survivors(root) = {root}
  BY DEF IInv, RootSound, Survivors
<1> QED BY <1>1 DEF PowerLoss

(* A power loss preserves IInv.                                            *)
LEMMA PowerLossIInv ==
  ASSUME IInv, PowerLoss
  PROVE  IInv'
<1>1. root' = root \/ (root' = None /\ ~anchored)
  BY PowerLossRoot
<1>2. anchored' = (root' # None) /\ promised' = promised
  BY DEF PowerLoss
<1>3. process' \in [Processes -> Process] /\ \A p \in Processes : process'[p] = Closed
  BY DEF PowerLoss, Process
<1>4. failures' \in 0 .. MaxFailures
  BY FailType DEF PowerLoss, IInv
<1>5. TypeOK'
  BY <1>1, <1>2, <1>3, <1>4 DEF IInv, TypeOK
<1>6. RootSound' /\ PromiseKept'
  BY <1>1, <1>2 DEF IInv, RootSound, PromiseKept
<1> QED BY <1>3, <1>5, <1>6 DEF IInv

(* One case for each action.                                               *)
LEMMA NextIInv == IInv /\ [Next]_vars => IInv'
<1> SUFFICES ASSUME IInv, [Next]_vars PROVE IInv'
  OBVIOUS
<1>1. CASE UNCHANGED vars
  <2>1. /\ TypeOK' /\ RootSound' /\ PromiseKept'
    BY <1>1 DEF vars, IInv, TypeOK, RootSound, PromiseKept
  <2>2. (\A p \in Processes :
          process[p] # Closed => DirectoryFits(process[p]) /\ RootFits(process[p], root, anchored))'
    BY <1>1 DEF vars, IInv, DirectoryFits, RootFits
  <2> QED BY <2>1, <2>2 DEF IInv
<1>2. CASE PowerLoss
  BY <1>2, PowerLossIInv
<1>3. ASSUME NEW p \in Processes, NEW passphrase \in Passphrases,
             Initialize(p, passphrase) \/ Unlock(p, passphrase)
      PROVE  IInv'
  BY <1>3, InitializeIInv, UnlockIInv
<1>4. ASSUME NEW p \in Processes, Step(p) PROVE IInv'
  <2>1. CASE InitializeFails(p)
    BY <2>1, CloseStep DEF InitializeFails
  <2>2. CASE OpenFails(p)
    BY <2>2, CloseStep DEF OpenFails
  <2> QED
    BY <1>4, <2>1, <2>2, CreateDatabaseIInv, WritePrivateFileIInv, SyncDirectoryIInv,
       RenameIInv, SyncParentIInv, OpenDatabaseIInv, MigrateIInv, UnlockedIInv,
       InsertDeviceIInv, InsertFailsIInv DEF Step
<1>5. ASSUME NEW p \in Processes, Lock(p) \/ SelectDevice(p) \/ Kill(p) PROVE IInv'
  <2>1. CASE Lock(p)
    BY <2>1, CloseStep DEF Lock
  <2>2. CASE Kill(p)
    BY <2>2, CloseStep DEF Kill
  <2> QED BY <1>5, <2>1, <2>2, SelectDeviceIInv
<1> QED BY <1>1, <1>2, <1>3, <1>4, <1>5 DEF Next

(* IInv is an invariant of the specification.                              *)
LEMMA Invariance == Spec => []IInv
<1> QED BY InitIInv, NextIInv, PTL DEF Spec

-----------------------------------------------------------------------------
(* The disk, the processes and the history keep their types.               *)
THEOREM TypeCorrect == Spec => []TypeOK
<1>1. IInv => TypeOK
  BY DEF IInv
<1> QED BY <1>1, Invariance, PTL

(* initialize leaves no vault or a complete one, whatever ends it.         *)
THEOREM NeverCorrupt == Spec => []AbsentOrComplete
<1>1. IInv => AbsentOrComplete
  BY DEF IInv, RootSound, AbsentOrComplete, DiskState
<1> QED BY <1>1, Invariance, PTL

(* A vault that initialize has reported stays, through power losses and    *)
(* concurrent initializations.                                             *)
THEOREM ReportedStays == Spec => []ReportedVaultRemains
<1>1. IInv => ReportedVaultRemains
  BY DEF IInv, PromiseKept, ReportedVaultRemains
<1> QED BY <1>1, Invariance, PTL

(* Version number and tables agree, whoever migrates and wherever it ends. *)
THEOREM SchemaAgreement == Spec => []SchemaMatchesVersion
<1>1. IInv => SchemaMatchesVersion
  <2> SUFFICES ASSUME IInv, root # None PROVE SchemaMatchesVersion
    BY DEF SchemaMatchesVersion
  <2>1. ASSUME NEW p \in Processes, process[p].step \in {"unlocked", "insert_device"}
        PROVE  root.database.version = SCHEMA_VERSION
    <3>1. process[p].step \in OpenSteps
      BY <2>1 DEF OpenSteps
    <3> QED BY <2>1, <3>1, ConnectedRoot DEF RootFits
  <2> QED BY <2>1 DEF SchemaMatchesVersion, IInv, RootSound
<1> QED BY <1>1, Invariance, PTL

(* The device identifier of a vault never changes.                         *)
THEOREM DeviceIdentity == Spec => DeviceIdentityFixed
<1> DEFINE Fixed == \A id \in DeviceIds :
             root # None /\ root' # None /\ root.database.device = id =>
               root'.database.device = id
<1>1. IInv /\ [Next]_vars => [Fixed]_vars
  <2> SUFFICES ASSUME IInv, Next, NEW id \in DeviceIds,
                      root # None, root' # None, root.database.device = id
               PROVE  root'.database.device = id
    BY DEF vars
  <2>1. CASE PowerLoss
    BY <2>1, PowerLossRoot
  <2>2. ASSUME NEW p \in Processes, Migrate(p)
        PROVE  root'.database.device = id
    <3>1. process[p].step \in OpenSteps
      BY <2>2 DEF Migrate, CanMigrate, At, OpenSteps
    <3>2. root \in Directory /\ root.database \in Database
      BY <3>1, ConnectedRoot
    <3> QED BY <2>2, <3>2 DEF Migrate, Directory, Database
  <2>3. ASSUME NEW p \in Processes, Rename(p) \/ InsertDevice(p)
        PROVE  FALSE
    BY <2>3, NoneAssumption DEF Rename, CanRename, InsertDevice, CanInsert
  <2>4. ASSUME NEW p \in Processes, NEW passphrase \in Passphrases,
               Initialize(p, passphrase) \/ Unlock(p, passphrase)
        PROVE  root' = root
    BY <2>4 DEF Initialize, Unlock
  <2>5. ASSUME NEW p \in Processes, Step(p) \/ Lock(p) \/ SelectDevice(p) \/ Kill(p)
        PROVE  Migrate(p) \/ Rename(p) \/ InsertDevice(p) \/ root' = root
    BY <2>5 DEF Step, Lock, SelectDevice, Kill, CreateDatabase, WritePrivateFile,
       SyncDirectory, SyncParent, InitializeFails, OpenDatabase, Unlocked, OpenFails, InsertFails
  <2> QED BY <2>1, <2>2, <2>3, <2>4, <2>5 DEF Next
<1> QED BY <1>1, Invariance, PTL DEF Spec, DeviceIdentityFixed
=============================================================================
