---------------------------- MODULE QueueMessage ----------------------------
(***************************************************************************)
(* queue_message (apps/desktop/src-tauri/src/messaging.rs) statement by    *)
(* statement of the database, as running instances of the application      *)
(* execute it on one vault.  Each call loads the device's MLS client, or   *)
(* creates it, creates the channel if it is new, encrypts, and commits     *)
(* message, successor state and outbox row in one transaction.             *)
(*                                                                         *)
(* The mutex around the vault (lib.rs) keeps the calls of one process      *)
(* apart; nothing keeps those of two processes apart but SQLite, which     *)
(* makes each statement and the final transaction atomic.  Any of them can *)
(* fail (SQLITE_BUSY, a full disk), and a process can end between any two. *)
(*                                                                         *)
(* The encryption itself, and clients that receive, are MlsChannel's; an   *)
(* event is identified by its message, and its hash by its identifier.     *)
(***************************************************************************)
EXTENDS Naturals, Sequences

CONSTANTS
  Processes,   \* running instances of the application
  Channels,    \* the channels of protocol_channel_id
  Messages,    \* the messages users write, each once
  None         \* no snapshot, no channel state, no event

VARIABLES
  snapshot,  \* mls_client_snapshots of the device
  outbox,    \* mls_outbox in the order of insertion, acknowledged rows included
  archive,   \* local_messages
  task,      \* the call each process executes
  written,   \* history: messages handed to queue_message
  signers,   \* history: number of clients created
  overlap    \* history: two processes have executed calls at the same time

vars == <<snapshot, outbox, archive, task, written, signers, overlap>>

(* outgoing_chain of a channel without events.                             *)
NoChain == [counter |-> 0, head |-> None]

Chain == [counter : Nat, head : Messages \cup {None}]

(* A client with its signing key and the channels it has.                  *)
Client == [signer : Nat, channels : [Channels -> Chain \cup {None}]]

ASSUME NoneAssumption == None \notin Messages \cup Chain \cup Client

Row == [event_id : Messages, channel : Channels, signer : Nat, sender_counter : Nat,
        previous_event_hash : Messages \cup {None}]

Idle == [step |-> "idle"]

Task == {Idle} \cup
  [step : {"load", "check", "save_client", "save_channel", "commit"},
   message : Messages, channel : Channels, client : Client \cup {None}]

Init ==
  /\ snapshot = None
  /\ outbox = << >>
  /\ archive = {}
  /\ task = [p \in Processes |-> Idle]
  /\ written = {}
  /\ signers = 0
  /\ overlap = FALSE

(* vault_queue_message has the process's lock on the vault.                *)
Call(p, message, channel) ==
  /\ task[p] = Idle
  /\ message \notin written
  /\ written' = written \cup {message}
  /\ task' = [task EXCEPT ![p] =
                [step |-> "load", message |-> message, channel |-> channel, client |-> None]]
  /\ overlap' = (overlap \/ \E q \in Processes : task[q] # Idle)
  /\ UNCHANGED <<snapshot, outbox, archive, signers>>

(* With a client: has_channel decides whether create_channel comes first.  *)
Proceed(t, client) ==
  IF client.channels[t.channel] = None
  THEN [t EXCEPT !.step = "save_channel",
                 !.client = [client EXCEPT !.channels[t.channel] = NoChain]]
  ELSE [t EXCEPT !.step = "commit", !.client = client]

(* VaultMlsClient::load                                                    *)
Load(p) ==
  /\ task[p].step = "load"
  /\ task' = [task EXCEPT ![p] = IF snapshot = None THEN [@ EXCEPT !.step = "check"]
                                 ELSE Proceed(@, snapshot)]
  /\ UNCHANGED <<snapshot, outbox, archive, written, signers, overlap>>

(* VaultMlsClient::create looks again for a client (StateAlreadyExists).   *)
Check(p) ==
  /\ task[p].step = "check"
  /\ task' = [task EXCEPT ![p] = IF snapshot = None THEN [@ EXCEPT !.step = "save_client"]
                                 ELSE Idle]
  /\ UNCHANGED <<snapshot, outbox, archive, written, signers, overlap>>

NewClient == [signer |-> signers + 1, channels |-> [c \in Channels |-> None]]

(* MlsClient::new and save_to_vault                                        *)
SaveClient(p) ==
  /\ task[p].step = "save_client"
  /\ signers' = signers + 1
  /\ snapshot' = NewClient
  /\ task' = [task EXCEPT ![p] = Proceed(@, NewClient)]
  /\ UNCHANGED <<outbox, archive, written, overlap>>

(* create_channel: transact() saves the client with the new channel.       *)
SaveChannel(p) ==
  /\ task[p].step = "save_channel"
  /\ snapshot' = task[p].client
  /\ task' = [task EXCEPT ![p].step = "commit"]
  /\ UNCHANGED <<outbox, archive, written, signers, overlap>>

(* encrypt_text: the event that continues the client's chain.              *)
NextRow(t) ==
  [event_id |-> t.message, channel |-> t.channel, signer |-> t.client.signer,
   sender_counter |-> t.client.channels[t.channel].counter + 1,
   previous_event_hash |-> t.client.channels[t.channel].head]

Successor(t) ==
  [t.client EXCEPT !.channels[t.channel] = [counter |-> @.counter + 1, head |-> t.message]]

(* Faulty: the event is queued without its message.                        *)
CommitEvent(p) ==
  /\ task[p].step = "commit"
  /\ snapshot' = Successor(task[p])
  /\ outbox' = Append(outbox, NextRow(task[p]))
  /\ task' = [task EXCEPT ![p] = Idle]
  /\ UNCHANGED <<archive, written, signers, overlap>>

(* Faulty: the successor state is left to be saved later.                  *)
CommitRow(p) ==
  /\ task[p].step = "commit"
  /\ archive' = archive \cup {task[p].message}
  /\ outbox' = Append(outbox, NextRow(task[p]))
  /\ task' = [task EXCEPT ![p] = Idle]
  /\ UNCHANGED <<snapshot, written, signers, overlap>>

(* Faulty: the state is saved before the transaction, which may then fail. *)
CommitInTwo(p) ==
  /\ task[p].step = "commit"
  /\ snapshot' = Successor(task[p])
  /\ \/ /\ archive' = archive \cup {task[p].message}
        /\ outbox' = Append(outbox, NextRow(task[p]))
     \/ UNCHANGED <<archive, outbox>>
  /\ task' = [task EXCEPT ![p] = Idle]
  /\ UNCHANGED <<written, signers, overlap>>

(* store_mls_transaction: message, successor state and outbox row.         *)
Commit(p) ==
  /\ task[p].step = "commit"
  /\ archive' = archive \cup {task[p].message}
  /\ snapshot' = Successor(task[p])
  /\ outbox' = Append(outbox, NextRow(task[p]))
  /\ task' = [task EXCEPT ![p] = Idle]
  /\ UNCHANGED <<written, signers, overlap>>

(* A statement fails and ends the call, or the process ends.  The client   *)
(* in memory is gone either way.                                           *)
Abort(p) ==
  /\ task[p] # Idle
  /\ task' = [task EXCEPT ![p] = Idle]
  /\ UNCHANGED <<snapshot, outbox, archive, written, signers, overlap>>

Next ==
  \E p \in Processes :
    \/ \E m \in Messages, c \in Channels : Call(p, m, c)
    \/ Load(p) \/ Check(p) \/ SaveClient(p) \/ SaveChannel(p) \/ Commit(p) \/ Abort(p)

Spec == Init /\ [][Next]_vars

-----------------------------------------------------------------------------
(***************************************************************************)
(* Properties                                                              *)
(***************************************************************************)
(* Type invariant.  The archive has the messages of the queued events.     *)
TypeOK ==
  /\ snapshot \in Client \cup {None}
  /\ outbox \in Seq(Row)
  /\ archive = {outbox[i].event_id : i \in DOMAIN outbox}
  /\ task \in [Processes -> Task]
  /\ written \subseteq Messages
  /\ signers \in Nat
  /\ overlap \in BOOLEAN

(* Whatever fails or is interrupted, and however the calls of two          *)
(* processes overlap: an event that refers to another one as its           *)
(* predecessor refers to an event that was queued before it, of the same   *)
(* client and channel, and counts one on from it.                          *)
RefersToQueued ==
  \A i \in DOMAIN outbox :
    IF outbox[i].previous_event_hash = None THEN outbox[i].sender_counter = 1
    ELSE \E j \in 1 .. i - 1 :
           /\ outbox[j].event_id = outbox[i].previous_event_hash
           /\ outbox[j].channel = outbox[i].channel
           /\ outbox[j].signer = outbox[i].signer
           /\ outbox[j].sender_counter = outbox[i].sender_counter - 1

(* The places before n of the events queued for a channel.                 *)
Places(channel, n) == {i \in 1 .. n - 1 : outbox[i].channel = channel}

(* The last event queued for a channel before place n is by this signer,   *)
(* and leaves its chain in this state.                                     *)
EndsIn(channel, n, signer, chain) ==
  \E i \in Places(channel, n) :
    /\ \A j \in Places(channel, n) : j <= i
    /\ outbox[i].signer = signer
    /\ chain = [counter |-> outbox[i].sender_counter, head |-> outbox[i].event_id]

(* Every event of a channel continues the one queued before it: its        *)
(* counter follows (Singularis.md:214), its hash is the one referred to    *)
(* (Singularis.md:215), and one client has signed them all.  The stored    *)
(* state is where the last one has left it, so that the next call can go   *)
(* on.  Calls of two processes that overlap can break the chain, as        *)
(* nothing keeps them apart.                                               *)
SenderChainUnbroken ==
  ~overlap =>
    /\ \A i \in DOMAIN outbox :
         IF Places(outbox[i].channel, i) = {}
         THEN outbox[i].sender_counter = 1 /\ outbox[i].previous_event_hash = None
         ELSE EndsIn(outbox[i].channel, i, outbox[i].signer,
                     [counter |-> outbox[i].sender_counter - 1,
                      head |-> outbox[i].previous_event_hash])
    /\ \A channel \in Channels : Places(channel, Len(outbox) + 1) # {} =>
         EndsIn(channel, Len(outbox) + 1, snapshot.signer, snapshot.channels[channel])
=============================================================================
