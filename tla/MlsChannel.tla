----------------------------- MODULE MlsChannel -----------------------------
(***************************************************************************)
(* One channel as the devices' MLS clients see it: VaultMlsClient and the  *)
(* MlsClient it wraps (crates/singularis-mls/src/client.rs).               *)
(*                                                                         *)
(* An operation changes the client in memory, then writes a snapshot of it *)
(* to the device's vault, then gives its result to the caller.  The write  *)
(* can fail, which restores the snapshot taken before, and the process can *)
(* end between any two of these steps.  Only the vault survives.           *)
(*                                                                         *)
(* OpenMLS is external and modelled by what the client relies on.  A group *)
(* state is identified by the commits that led to it; keys of a state open *)
(* only messages of the same state (max_past_epochs is 0), each message    *)
(* key once, and never the device's own messages.  OUT_OF_ORDER_TOLERANCE  *)
(* and MAXIMUM_FORWARD_DISTANCE are not exceeded.  SHA-256 is injective:   *)
(* an event's identifier stands for its hash.  The network may lose,       *)
(* reorder and duplicate: any released message can be tried at any time,   *)
(* any number of times, or never.                                          *)
(***************************************************************************)
EXTENDS Naturals, Sequences, FiniteSets

CONSTANTS
  Devices,      \* the devices, one vault and one client each
  EventIds,     \* the event identifiers (UUIDs)
  NoHash,       \* previous_event_hash of a sender's first event
  NoClient,     \* no client in memory, or no snapshot in the vault
  SnapshotLimit, \* MAX_CLIENT_SNAPSHOT_BYTES, counted in seen_event_ids
  MaxPackages,  \* bound: key packages one device publishes
  MaxFailures   \* bound: failed checkpoints and ended processes

ASSUME ChannelAssumption ==
  /\ NoHash \notin EventIds
  /\ SnapshotLimit \in Nat
  /\ MaxPackages \in Nat
  /\ MaxFailures \in Nat

VARIABLES
  client,    \* VaultMlsClient::client of each device
  vault,     \* the snapshot in each device's vault
  work,      \* the operation each device is in the middle of
  network,   \* everything that has been handed out for sending
  shown,     \* history: the plaintext events each device's caller was given
  drawn,     \* history: event identifiers drawn so far
  failures   \* number of failures so far

vars == <<client, vault, work, network, shown, drawn, failures>>

-----------------------------------------------------------------------------
(* SenderChain; counter 0 stands for None.                                 *)
SenderChain == [counter : Nat, event_hash : EventIds \cup {NoHash}]
NoChain == [counter |-> 0, event_hash |-> NoHash]

(* A group state: its creation and the additions committed since.          *)
Group == Seq([by : Devices, added : Devices])
NoGroup == <<>>

PlaintextEvent ==
  [event_id : EventIds, sender_device_id : Devices, sender_counter : Nat \ {0},
   previous_event_hash : EventIds \cup {NoHash}]

(* MlsClient with its provider's keys and the ChannelState of the channel: *)
(* private keys of unused key packages, group state, number of messages    *)
(* encrypted in it, message keys already used up, chains and identifiers.  *)
MlsClient ==
  [packages : SUBSET Nat, next_package : Nat, group : Group, generation : Nat,
   spent : SUBSET (Devices \X Nat), outgoing_chain : SenderChain,
   incoming_chains : [Devices -> SenderChain], seen_event_ids : SUBSET EventIds]

(* MlsClientSnapshot: the same, with the incoming chains as entries.       *)
IncomingChainSnapshot == [sender_device_id : Devices, chain : SenderChain]

MlsClientSnapshot ==
  [packages : SUBSET Nat, next_package : Nat, group : Group, generation : Nat,
   spent : SUBSET (Devices \X Nat), outgoing_chain : SenderChain,
   incoming_chains : SUBSET IncomingChainSnapshot, seen_event_ids : SUBSET EventIds]

ASSUME NoClientAssumption == NoClient \notin MlsClient \cup MlsClientSnapshot

NewClient ==
  [packages |-> {}, next_package |-> 0, group |-> NoGroup, generation |-> 0,
   spent |-> {}, outgoing_chain |-> NoChain,
   incoming_chains |-> [s \in Devices |-> NoChain], seen_event_ids |-> {}]

Messages ==
  [kind : {"package"}, device : Devices, package : Nat]
    \cup [kind : {"commit"}, group : Group, sender : Devices]
    \cup [kind : {"welcome"}, group : Group, device : Devices, package : Nat]
    \cup [kind : {"application"}, group : Group, sender : Devices,
          generation : Nat, event : PlaintextEvent]

(* Where a device's operation is: `messages' and `plaintext' are what it   *)
(* will give to its caller, `previous' the snapshot a failure restores.    *)
Nothing == [step |-> "none"]

Work ==
  {Nothing}
    \cup [step : {"save", "return"}, previous : MlsClientSnapshot,
          messages : SUBSET Messages, plaintext : SUBSET PlaintextEvent]

Init ==
  /\ client = [d \in Devices |-> NoClient]
  /\ vault = [d \in Devices |-> NoClient]
  /\ work = [d \in Devices |-> Nothing]
  /\ network = {}
  /\ shown = [d \in Devices |-> <<>>]
  /\ drawn = {}
  /\ failures = 0

Fail ==
  /\ failures < MaxFailures
  /\ failures' = failures + 1

-----------------------------------------------------------------------------
(***************************************************************************)
(* Snapshots.                                                              *)
(***************************************************************************)
(* Faulty: chains that do not exist yet are written as well.               *)
EncodeAllChains(c) ==
  [c EXCEPT !.incoming_chains =
     {[sender_device_id |-> s, chain |-> c.incoming_chains[s]] : s \in Devices}]

(* encode_snapshot: one entry for each chain that exists.                  *)
EncodeSnapshot(c) ==
  [c EXCEPT !.incoming_chains =
     {[sender_device_id |-> s, chain |-> c.incoming_chains[s]] :
        s \in {t \in Devices : c.incoming_chains[t].counter > 0}}]

(* ... which fails when the result is too large.                           *)
Encodes(c) == Cardinality(c.seen_event_ids) <= SnapshotLimit

(* decode_snapshot refuses a chain without events and a sender with two    *)
(* chains.                                                                 *)
Decodes(snapshot) ==
  /\ \A entry \in snapshot.incoming_chains : entry.chain.counter # 0
  /\ \A e, f \in snapshot.incoming_chains :
       e.sender_device_id = f.sender_device_id => e = f

DecodeSnapshot(snapshot) ==
  [snapshot EXCEPT !.incoming_chains =
     [s \in Devices |->
        IF \E e \in snapshot.incoming_chains : e.sender_device_id = s
        THEN (CHOOSE e \in snapshot.incoming_chains : e.sender_device_id = s).chain
        ELSE NoChain]]

-----------------------------------------------------------------------------
(***************************************************************************)
(* VaultMlsClient: loading, and the three stages of transact().            *)
(***************************************************************************)
(* create: an empty client, saved before it is returned.                   *)
Create(d) ==
  /\ client[d] = NoClient
  /\ vault[d] = NoClient
  /\ client' = [client EXCEPT ![d] = NewClient]
  /\ vault' = [vault EXCEPT ![d] = EncodeSnapshot(NewClient)]
  /\ UNCHANGED <<work, network, shown, drawn, failures>>

(* load: a snapshot that does not decode can never be loaded.              *)
Load(d) ==
  /\ client[d] = NoClient
  /\ vault[d] # NoClient
  /\ Decodes(vault[d])
  /\ client' = [client EXCEPT ![d] = DecodeSnapshot(vault[d])]
  /\ UNCHANGED <<vault, work, network, shown, drawn, failures>>

Ready(d) == client[d] # NoClient /\ work[d] = Nothing /\ Encodes(client[d])

(* The operation itself, in memory, after a snapshot has been encoded.     *)
Operate(d, successor, messages, plaintext) ==
  /\ client' = [client EXCEPT ![d] = successor]
  /\ work' = [work EXCEPT ![d] =
                [step |-> "save", previous |-> EncodeSnapshot(client[d]),
                 messages |-> messages, plaintext |-> plaintext]]
  /\ UNCHANGED <<vault, network, shown, failures>>

(* Faulty: the result is handed out before it is saved.                    *)
ReleaseEarly(d) ==
  /\ work[d].step = "save"
  /\ vault' = vault
  /\ network' = network \cup work[d].messages
  /\ work' = [work EXCEPT ![d].step = "return"]
  /\ UNCHANGED <<client, shown, drawn, failures>>

(* save_to_vault, or store_mls_transaction for an outgoing event, which    *)
(* writes the outbox row together with the snapshot: from then on the      *)
(* event is sure to be sent.                                               *)
Checkpoint(d) ==
  /\ work[d].step = "save"
  /\ Encodes(client[d])
  /\ vault' = [vault EXCEPT ![d] = EncodeSnapshot(client[d])]
  /\ network' = network \cup {m \in work[d].messages : m.kind = "application"}
  /\ work' = [work EXCEPT ![d].step = "return"]
  /\ UNCHANGED <<client, shown, drawn, failures>>

(* Faulty: a failed operation leaves its traces.                           *)
KeepChanges(previous, current) == current

(* restore: the client as it was before the failed operation.              *)
Restore(previous, current) == DecodeSnapshot(previous)

(* The write fails, or the snapshot has become too large.                  *)
CheckpointFails(d) ==
  /\ work[d].step = "save"
  /\ \/ Fail
     \/ ~Encodes(client[d]) /\ UNCHANGED failures
  /\ client' = [client EXCEPT ![d] = Restore(work[d].previous, client[d])]
  /\ work' = [work EXCEPT ![d] = Nothing]
  /\ UNCHANGED <<vault, network, shown, drawn>>

(* Faulty: only what is to be sent is returned.                            *)
ReturnMessages(d) ==
  /\ work[d].step = "return"
  /\ network' = network \cup work[d].messages
  /\ work' = [work EXCEPT ![d] = Nothing]
  /\ UNCHANGED <<client, vault, shown, drawn, failures>>

(* The caller gets the result.                                             *)
Return(d) ==
  /\ work[d].step = "return"
  /\ network' = network \cup work[d].messages
  /\ \/ work[d].plaintext = {} /\ UNCHANGED shown
     \/ \E event \in work[d].plaintext : shown' = [shown EXCEPT ![d] = Append(@, event)]
  /\ work' = [work EXCEPT ![d] = Nothing]
  /\ UNCHANGED <<client, vault, drawn, failures>>

(* The process ends.                                                       *)
Crash(d) ==
  /\ client[d] # NoClient
  /\ Fail
  /\ client' = [client EXCEPT ![d] = NoClient]
  /\ work' = [work EXCEPT ![d] = Nothing]
  /\ UNCHANGED <<vault, network, shown, drawn>>

-----------------------------------------------------------------------------
(***************************************************************************)
(* MlsClient: membership.                                                  *)
(***************************************************************************)
Members(group) == {group[i].added : i \in DOMAIN group}

PublishKeyPackage(d) ==
  /\ Ready(d)
  /\ client[d].next_package < MaxPackages
  /\ LET n == client[d].next_package + 1 IN
     Operate(d, [client[d] EXCEPT !.packages = @ \cup {n}, !.next_package = n],
             {[kind |-> "package", device |-> d, package |-> n]}, {})
  /\ UNCHANGED drawn

CreateChannel(d) ==
  /\ Ready(d)
  /\ client[d].group = NoGroup
  /\ Operate(d, [client[d] EXCEPT !.group = <<[by |-> d, added |-> d]>>], {}, {})
  /\ UNCHANGED drawn

(* add_member merges its own commit at once: the group state, and with it  *)
(* every message key, is a new one.  OpenMLS refuses a device that is a    *)
(* member already.                                                         *)
AddMember(d, m) ==
  /\ Ready(d)
  /\ client[d].group # NoGroup
  /\ m.kind = "package"
  /\ m.device \notin Members(client[d].group)
  /\ LET group == Append(client[d].group, [by |-> d, added |-> m.device]) IN
     Operate(d, [client[d] EXCEPT !.group = group, !.generation = 0, !.spent = {}],
             {[kind |-> "commit", group |-> client[d].group, sender |-> d],
              [kind |-> "welcome", group |-> group, device |-> m.device,
               package |-> m.package]}, {})
  /\ UNCHANGED drawn

(* join_channel uses up the key package's private key.                     *)
JoinChannel(d, m) ==
  /\ Ready(d)
  /\ client[d].group = NoGroup
  /\ m.kind = "welcome"
  /\ m.device = d
  /\ m.package \in client[d].packages
  /\ Operate(d, [client[d] EXCEPT !.group = m.group, !.packages = @ \ {m.package}], {}, {})
  /\ UNCHANGED drawn

-----------------------------------------------------------------------------
(***************************************************************************)
(* MlsClient: events.                                                      *)
(***************************************************************************)
(* Faulty: the first event has counter 0.                                  *)
SameCounter(chain) == chain.counter

NextCounter(chain) == chain.counter + 1

NextInChain(chain, event) ==
  /\ event.sender_counter = NextCounter(chain)
  /\ event.previous_event_hash = chain.event_hash

ChainAfter(event) ==
  [counter |-> event.sender_counter, event_hash |-> event.event_id]

(* encrypt_text: the next event of the outgoing chain, under the next      *)
(* message key.                                                            *)
EncryptText(d) ==
  /\ Ready(d)
  /\ client[d].group # NoGroup
  /\ \E id \in EventIds \ drawn :
       LET event ==
             [event_id |-> id, sender_device_id |-> d,
              sender_counter |-> NextCounter(client[d].outgoing_chain),
              previous_event_hash |-> client[d].outgoing_chain.event_hash]
       IN /\ Operate(d,
               [client[d] EXCEPT !.outgoing_chain = ChainAfter(event),
                                 !.seen_event_ids = @ \cup {id},
                                 !.generation = @ + 1],
               {[kind |-> "application", group |-> client[d].group, sender |-> d,
                 generation |-> client[d].generation + 1, event |-> event]}, {})
          /\ drawn' = drawn \cup {id}

(* process_message succeeds: same group state, someone else's message, and *)
(* its key has not been used.                                              *)
Opens(c, d, m) ==
  /\ m.kind = "application"
  /\ m.group = c.group
  /\ m.sender # d
  /\ <<m.sender, m.generation>> \notin c.spent

AfterOpening(c, m) == [c EXCEPT !.spent = @ \cup {<<m.sender, m.generation>>}]

(* Faulty: any later event of the sender is admitted.                      *)
AdmitsLater(c, event) ==
  /\ event.event_id \notin c.seen_event_ids
  /\ event.sender_counter > c.incoming_chains[event.sender_device_id].counter

(* Faulty: only the identifier is checked.                                 *)
AdmitsUnseen(c, event) == event.event_id \notin c.seen_event_ids

(* validate_and_record_incoming: a new identifier, and the next event of   *)
(* its sender's chain.                                                     *)
Admits(c, event) ==
  /\ event.event_id \notin c.seen_event_ids
  /\ NextInChain(c.incoming_chains[event.sender_device_id], event)

AfterRecording(c, event) ==
  [c EXCEPT !.incoming_chains[event.sender_device_id] = ChainAfter(event),
            !.seen_event_ids = @ \cup {event.event_id}]

(* decrypt_delivered_event.                                                *)
Decrypt(d, m) ==
  /\ Ready(d)
  /\ Opens(client[d], d, m)
  /\ Admits(client[d], m.event)
  /\ Operate(d, AfterRecording(AfterOpening(client[d], m), m.event), {}, {m.event})
  /\ UNCHANGED drawn

(* ... fails: a commit, which holds no event and which the client has no   *)
(* way to apply; a message that cannot be opened (MessageRejected); or one *)
(* that was opened, which used up its key, and is not the next of its      *)
(* chain (ReplayDetected, InvalidSenderChain).  transact restores the      *)
(* client.                                                                 *)
DecryptFails(d, m) ==
  /\ Ready(d)
  /\ m.kind \in {"commit", "application"}
  /\ \/ /\ ~Opens(client[d], d, m)
        /\ UNCHANGED client
     \/ /\ Opens(client[d], d, m)
        /\ ~Admits(client[d], m.event)
        /\ client' = [client EXCEPT ![d] =
                        Restore(EncodeSnapshot(client[d]), AfterOpening(client[d], m))]
  /\ UNCHANGED <<vault, work, network, shown, drawn, failures>>

-----------------------------------------------------------------------------
Next ==
  \E d \in Devices :
    \/ Create(d) \/ Load(d)
    \/ Checkpoint(d) \/ CheckpointFails(d) \/ Return(d) \/ Crash(d)
    \/ PublishKeyPackage(d) \/ CreateChannel(d) \/ EncryptText(d)
    \/ \E m \in network :
         AddMember(d, m) \/ JoinChannel(d, m) \/ Decrypt(d, m) \/ DecryptFails(d, m)

Spec == Init /\ [][Next]_vars

-----------------------------------------------------------------------------
(***************************************************************************)
(* Properties                                                              *)
(***************************************************************************)

(* Type invariant of clients, vaults, operations, network and history.     *)
TypeOK ==
  /\ client \in [Devices -> MlsClient \cup {NoClient}]
  /\ vault \in [Devices -> MlsClientSnapshot \cup {NoClient}]
  /\ work \in [Devices -> Work]
  /\ network \in SUBSET Messages
  /\ shown \in [Devices -> Seq(PlaintextEvent)]
  /\ drawn \in SUBSET EventIds
  /\ failures \in Nat

Application == {m \in network : m.kind = "application"}

(* Crashes, failed checkpoints, reordering and repeats notwithstanding, a  *)
(* counter of a sender names one event, and what a vault has recorded of   *)
(* another device is a prefix of what that device has released: the events *)
(* up to the recorded counter, without a gap.                              *)
ChainsAgree ==
  /\ \A m, n \in Application :
       m.sender = n.sender /\ m.event.sender_counter = n.event.sender_counter => m = n
  /\ \A d, s \in Devices :
       d # s /\ vault[d] # NoClient =>
         LET chain == DecodeSnapshot(vault[d]).incoming_chains[s] IN
         /\ \A n \in 1 .. chain.counter :
              \E m \in Application : m.sender = s /\ m.event.sender_counter = n
         /\ \A m \in Application : m.sender = s =>
              (m.event.sender_counter <= chain.counter
                 <=> m.event.event_id \in vault[d].seen_event_ids)

(* A device is never locked out of its own state: what is in the vault     *)
(* decodes, and an idle client is what would be loaded after a restart.    *)
MemoryMatchesVault ==
  \A d \in Devices :
    /\ vault[d] # NoClient => Decodes(vault[d])
    /\ client[d] # NoClient /\ work[d] = Nothing => client[d] = DecodeSnapshot(vault[d])

(* A message key is never used for two messages, although operations are   *)
(* undone and processes restart from older states: a ciphertext is handed  *)
(* out only when the vault can no longer return to the key before it.      *)
KeysNeverReused ==
  \A m, n \in Application :
    m.sender = n.sender /\ m.group = n.group /\ m.generation = n.generation => m = n

(* A message that was tried too early stays readable: as soon as it is     *)
(* next in its sender's chain, its key is still there.                     *)
RefusalUndone ==
  \A d \in Devices : \A m \in Application :
    /\ Ready(d)
    /\ m.group = client[d].group
    /\ m.sender # d
    /\ NextInChain(client[d].incoming_chains[m.sender], m.event)
    => Opens(client[d], d, m)

(* A caller is given each event at most once and a sender's events in      *)
(* order, over crashes and repeated deliveries.                            *)
ShownInOrder ==
  \A d \in Devices : \A i, j \in DOMAIN shown[d] :
    i < j /\ shown[d][i].sender_device_id = shown[d][j].sender_device_id =>
      shown[d][i].sender_counter < shown[d][j].sender_counter

(* What a vault has recorded as received and what its caller was given     *)
(* differ by at most one event for each ended process: the one that was    *)
(* being returned.  Such an event is lost to the caller, since it can      *)
(* never be decrypted again.                                               *)
LossBounded ==
  \A d \in Devices :
    LET recorded == {m.event : m \in {n \in Application :
                       /\ n.sender # d
                       /\ vault[d] # NoClient
                       /\ n.event.event_id \in vault[d].seen_event_ids}}
        given == {shown[d][i] : i \in DOMAIN shown[d]}
        returning == IF work[d].step = "return" THEN work[d].plaintext ELSE {}
    IN /\ given \subseteq recorded
       /\ Cardinality(recorded \ (given \cup returning)) <= failures

(* "Ein MLS-Welcome gibt einem neu aufgenommenen Geraet ... zukuenftige    *)
(* Schluessel" (Singularis.md:209): a member can process a message of its  *)
(* group state once it has processed the sender's earlier messages in it.  *)
MembersCanRead ==
  \A d \in Devices : \A m \in Application :
    /\ Ready(d)
    /\ m.group = client[d].group
    /\ m.sender # d
    /\ \A n \in Application :
         /\ n.sender = m.sender
         /\ n.group = m.group
         => (n.generation < m.generation <=> n.event.event_id \in client[d].seen_event_ids)
    => Admits(client[d], m.event)
=============================================================================
