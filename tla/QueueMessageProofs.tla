------------------------- MODULE QueueMessageProofs -------------------------
(***************************************************************************)
(* Proofs about QueueMessage for every number of processes, channels and   *)
(* messages.                                                               *)
(*                                                                         *)
(* Two arguments.  However calls overlap, the chain of every client, in    *)
(* the vault or in memory, ends in an event that has been queued           *)
(* (Grounded), so that an event refers to nothing that never existed.  As  *)
(* long as calls do not overlap, what the one call under way has in memory *)
(* also agrees with the vault (Alone), so that no event is left out.       *)
(***************************************************************************)
EXTENDS QueueMessage, SequenceTheorems, TLAPS

(* The head of a client's chain is an event of this client and channel     *)
(* that has been queued, with the counter the chain stands at.             *)
Grounded(client) ==
  \A c \in Channels : client.channels[c] # None =>
    LET chain == client.channels[c] IN
    IF chain.head = None THEN chain.counter = 0
    ELSE \E j \in DOMAIN outbox :
           /\ outbox[j].event_id = chain.head
           /\ outbox[j].channel = c
           /\ outbox[j].signer = client.signer
           /\ outbox[j].sender_counter = chain.counter

(* A call that has got so far has a client with the channel.               *)
HasClient(t) ==
  t.step \in {"save_channel", "commit"} =>
    /\ t.client \in Client
    /\ t.client.channels[t.channel] \in Chain
    /\ Grounded(t.client)

(* One call at a time: what it has in memory agrees with the vault.        *)
InStep(t) ==
  /\ t.step \in {"check", "save_client"} => snapshot = None
  /\ t.step = "save_channel" =>
       /\ snapshot # None
       /\ snapshot.channels[t.channel] = None
       /\ t.client = [snapshot EXCEPT !.channels[t.channel] = NoChain]
  /\ t.step = "commit" => t.client = snapshot

Alone ==
  /\ \A p, q \in Processes : task[p] # Idle /\ task[q] # Idle => p = q
  /\ \A p \in Processes : InStep(task[p])
  /\ \A c \in Channels :
       Places(c, Len(outbox) + 1) = {} /\ snapshot # None => snapshot.channels[c] \in {None, NoChain}

QInv ==
  /\ TypeOK
  /\ snapshot = None => outbox = << >>
  /\ snapshot # None => Grounded(snapshot)
  /\ \A p \in Processes : HasClient(task[p])
  /\ RefersToQueued
  /\ ~overlap => Alone
  /\ SenderChainUnbroken

-----------------------------------------------------------------------------
(* A call under way is a record of four fields.                            *)
LEMMA TaskFields ==
  ASSUME NEW t \in Task, t # Idle
  PROVE  /\ t.step \in {"load", "check", "save_client", "save_channel", "commit"}
         /\ t.message \in Messages
         /\ t.channel \in Channels
         /\ t.client \in Client \cup {None}
         /\ t = [step |-> t.step, message |-> t.message, channel |-> t.channel,
                 client |-> t.client]
BY DEF Task

(* A client with another chain in one channel.                             *)
LEMMA ClientUpdate ==
  ASSUME NEW client \in Client, NEW c \in Channels, NEW chain \in Chain \cup {None}
  PROVE  LET new == [client EXCEPT !.channels[c] = chain] IN
         /\ new \in Client
         /\ new.signer = client.signer
         /\ \A d \in Channels : new.channels[d] = IF d = c THEN chain ELSE client.channels[d]
BY DEF Client

(* The call with its client, about to save a new channel or to commit.     *)
LEMMA ProceedFields ==
  ASSUME NEW t \in Task, t # Idle, NEW client \in Client, Grounded(client)
  PROVE  LET next == Proceed(t, client) IN
         /\ next \in Task /\ next # Idle
         /\ next.channel = t.channel
         /\ HasClient(next)
         /\ \/ /\ next.step = "save_channel"
               /\ client.channels[t.channel] = None
               /\ next.client = [client EXCEPT !.channels[t.channel] = NoChain]
            \/ /\ next.step = "commit"
               /\ next.client = client
<1> DEFINE next == Proceed(t, client)
           new == [client EXCEPT !.channels[t.channel] = NoChain]
<1>1. /\ t.message \in Messages /\ t.channel \in Channels
      /\ t = [step |-> t.step, message |-> t.message, channel |-> t.channel, client |-> t.client]
  BY TaskFields
<1>2. NoChain \in Chain /\ NoChain.head = None /\ NoChain.counter = 0
  BY DEF NoChain, Chain
<1>3. /\ new \in Client /\ new.signer = client.signer
      /\ \A d \in Channels : new.channels[d] = IF d = t.channel THEN NoChain ELSE client.channels[d]
  BY <1>1, <1>2, ClientUpdate
<1>4. CASE client.channels[t.channel] = None
  <2>1. next = [step |-> "save_channel", message |-> t.message, channel |-> t.channel, client |-> new]
    <3> HIDE DEF new
    <3>1. next = [t EXCEPT !.step = "save_channel", !.client = new]
      BY <1>4 DEF Proceed, new
    <3> QED
      BY <3>1, <1>1
  <2>2. Grounded(new)
    <3> SUFFICES ASSUME NEW c \in Channels, new.channels[c] # None
                 PROVE  LET chain == new.channels[c] IN
                        IF chain.head = None THEN chain.counter = 0
                        ELSE \E j \in DOMAIN outbox :
                               /\ outbox[j].event_id = chain.head
                               /\ outbox[j].channel = c
                               /\ outbox[j].signer = new.signer
                               /\ outbox[j].sender_counter = chain.counter
      BY DEF Grounded
    <3> HIDE DEF new
    <3>1. CASE c = t.channel
      BY <3>1, <1>2, <1>3
    <3>2. CASE c # t.channel
      BY <3>2, <1>3 DEF Grounded
    <3> QED
      BY <3>1, <3>2
  <2> HIDE DEF new, next
  <2>3. next \in Task /\ next # Idle
    BY <2>1, <1>1, <1>3 DEF Task, Idle
  <2>4. HasClient(next)
    BY <2>1, <2>2, <1>1, <1>2, <1>3 DEF HasClient
  <2> QED
    BY <2>1, <2>3, <2>4, <1>4 DEF new, next
<1>5. CASE client.channels[t.channel] # None
  <2>1. next = [step |-> "commit", message |-> t.message, channel |-> t.channel, client |-> client]
    BY <1>1, <1>5 DEF Proceed
  <2>2. client.channels[t.channel] \in Chain
    BY <1>1, <1>5 DEF Client
  <2> HIDE DEF next
  <2>3. next \in Task /\ next # Idle
    BY <2>1, <1>1 DEF Task, Idle
  <2>4. HasClient(next)
    BY <2>1, <2>2 DEF HasClient
  <2> QED
    BY <2>1, <2>3, <2>4 DEF next
<1> QED
  BY <1>4, <1>5

(* The invariant holds at the start.                                       *)
LEMMA InitQInv == Init => QInv
<1> SUFFICES ASSUME Init PROVE QInv
  OBVIOUS
<1>1. TypeOK
  <2>1. task \in [Processes -> Task]
    BY DEF Init, Task
  <2>2. outbox \in Seq(Row) /\ DOMAIN outbox = {}
    BY EmptySeq DEF Init
  <2>3. archive = {outbox[i].event_id : i \in DOMAIN outbox}
    BY <2>2 DEF Init
  <2> QED
    BY <2>1, <2>2, <2>3 DEF Init, TypeOK
<1>2. \A p \in Processes : task[p] = Idle /\ task[p].step = "idle"
  <2>1. Idle.step = "idle"
    BY DEF Idle
  <2>2. \A p \in Processes : task[p] = Idle
    BY DEF Init
  <2> QED
    BY <2>1, <2>2
<1>3. Alone
  BY <1>2 DEF Init, Alone, InStep
<1>4. RefersToQueued /\ SenderChainUnbroken
  BY DEF Init, RefersToQueued, SenderChainUnbroken, Places
<1> QED
  BY <1>1, <1>2, <1>3, <1>4 DEF Init, QInv, HasClient

(* Steps that queue no event: what the call has in memory becomes t, what  *)
(* the vault holds s.                                                      *)
LEMMA SameOutbox ==
  ASSUME QInv, NEW p \in Processes, NEW t \in Task, NEW s \in Client \cup {None},
         task' = [task EXCEPT ![p] = t], snapshot' = s, UNCHANGED <<outbox, archive>>,
         written' \subseteq Messages, signers' \in Nat, overlap' \in BOOLEAN,
         s = None => snapshot = None,
         s # None => Grounded(s),
         HasClient(t),
         ~overlap' =>
           /\ ~overlap
           /\ t # Idle \/ s # snapshot => \A q \in Processes \ {p} : task[q] = Idle
           /\ InStep(t)'
           /\ s # snapshot => \A c \in Channels :
                \/ /\ snapshot # None
                   /\ s.channels[c] = snapshot.channels[c] /\ s.signer = snapshot.signer
                \/ /\ Places(c, Len(outbox) + 1) = {}
                   /\ s.channels[c] \in {None, NoChain}
  PROVE  QInv'
<1>1. /\ TypeOK
      /\ task \in [Processes -> Task]
      /\ \A q \in Processes : task'[q] = IF q = p THEN t ELSE task[q]
  BY DEF QInv, TypeOK
<1>2. TypeOK'
  BY <1>1 DEF TypeOK
<1>3. \A client : Grounded(client)' <=> Grounded(client)
  BY DEF Grounded
<1>4. RefersToQueued'
  BY DEF QInv, RefersToQueued
<1>5. \A q \in Processes : HasClient(task[q])'
  <2>1. \A q \in Processes : HasClient(task'[q])
    BY <1>1 DEF QInv
  <2> QED
    BY <2>1, <1>3 DEF HasClient
<1>6. \A c, n : Places(c, n)' = Places(c, n)
  BY DEF Places
<1>7. ASSUME ~overlap'
      PROVE  Alone'
  <2>1. ~overlap /\ Alone
    BY <1>7 DEF QInv
  <2>2. \A q, r \in Processes : task'[q] # Idle /\ task'[r] # Idle => q = r
    BY <2>1, <1>1, <1>7 DEF Alone
  <2>3. \A q \in Processes : InStep(task[q])'
    <3> SUFFICES ASSUME NEW q \in Processes PROVE InStep(task[q])'
      OBVIOUS
    <3>1. CASE q = p
      BY <3>1, <1>1, <1>7 DEF InStep
    <3>2. CASE q # p /\ s = snapshot
      BY <3>2, <2>1, <1>1 DEF Alone, InStep
    <3>3. CASE q # p /\ s # snapshot
      <4>1. task'[q] = Idle
        BY <3>3, <1>1, <1>7
      <4> QED
        BY <4>1 DEF InStep, Idle
    <3> QED
      BY <3>1, <3>2, <3>3
  <2>4. \A c \in Channels : Places(c, Len(outbox) + 1) = {} /\ s # None => s.channels[c] \in {None, NoChain}
    BY <2>1, <1>7 DEF Alone
  <2> QED
    BY <2>2, <2>3, <2>4, <1>6 DEF Alone
<1>8. SenderChainUnbroken'
  <2> SUFFICES ASSUME ~overlap' PROVE SenderChainUnbroken'
    BY DEF SenderChainUnbroken
  <2>1. ~overlap /\ SenderChainUnbroken
    BY DEF QInv
  <2>2. \A c \in Channels : Places(c, Len(outbox) + 1) # {} =>
          s.channels[c] = snapshot.channels[c] /\ s.signer = snapshot.signer
    OBVIOUS
  <2>3. \A c, n, signer, chain : EndsIn(c, n, signer, chain)' <=> EndsIn(c, n, signer, chain)
    BY <1>6 DEF EndsIn
  <2> QED
    BY <2>1, <2>2, <2>3, <1>6 DEF SenderChainUnbroken
<1>9. /\ (snapshot = None => outbox = << >>)'
      /\ (snapshot # None => Grounded(snapshot))'
  <2>1. s # None => Grounded(s)'
    BY <1>3
  <2> QED
    BY <2>1 DEF QInv, Grounded
<1> QED
  BY <1>2, <1>4, <1>5, <1>7, <1>8, <1>9 DEF QInv

-----------------------------------------------------------------------------
(* vault_queue_message takes the process's lock on the vault.              *)
LEMMA CallStep ==
  ASSUME QInv, NEW p \in Processes, NEW m \in Messages, NEW c \in Channels, Call(p, m, c)
  PROVE  QInv'
<1> DEFINE t == [step |-> "load", message |-> m, channel |-> c, client |-> None]
<1>1. TypeOK /\ overlap \in BOOLEAN
  BY DEF QInv, TypeOK
<1>2. t \in Task /\ t.step = "load"
  BY DEF Task
<1>3. /\ task' = [task EXCEPT ![p] = t]
      /\ written' = written \cup {m}
      /\ overlap' = (overlap \/ \E q \in Processes : task[q] # Idle)
      /\ UNCHANGED <<snapshot, outbox, archive, signers>>
  BY DEF Call
<1> HIDE DEF t
<1>4. HasClient(t) /\ InStep(t)'
  BY <1>2 DEF HasClient, InStep
<1>5. ~overlap' => ~overlap /\ \A q \in Processes : task[q] = Idle
  BY <1>3
<1>6. /\ snapshot \in Client \cup {None} /\ written' \subseteq Messages /\ signers' \in Nat
      /\ snapshot # None => Grounded(snapshot)
  BY <1>1, <1>3 DEF TypeOK, QInv
<1>7. overlap' \in BOOLEAN
  BY <1>3
<1> QED
  BY <1>2, <1>3, <1>4, <1>5, <1>6, <1>7, SameOutbox

(* What a call under way means for the others.                             *)
LEMMA CallAlone ==
  ASSUME QInv, NEW p \in Processes, task[p] # Idle
  PROVE  /\ task[p] \in Task /\ task \in [Processes -> Task]
         /\ ~overlap => /\ InStep(task[p])
                        /\ \A q \in Processes \ {p} : task[q] = Idle
BY DEF QInv, TypeOK, Alone

(* The client is loaded, or there is none yet.                             *)
LEMMA LoadStep ==
  ASSUME QInv, NEW p \in Processes, Load(p)
  PROVE  QInv'
<1> DEFINE old == task[p]
<1>1. /\ old.step = "load" /\ old # Idle /\ old \in Task
      /\ UNCHANGED <<snapshot, outbox, archive, written, signers, overlap>>
      /\ task \in [Processes -> Task]
      /\ snapshot \in Client \cup {None} /\ written \subseteq Messages /\ signers \in Nat
      /\ overlap \in BOOLEAN
      /\ snapshot # None => Grounded(snapshot)
  BY DEF QInv, TypeOK, Load, Idle
<1>2. ~overlap => \A q \in Processes \ {p} : task[q] = Idle
  BY <1>1, CallAlone
<1>3. CASE snapshot = None
  <2> DEFINE t == [old EXCEPT !.step = "check"]
  <2>1. t \in Task /\ t.step = "check"
    <3>1. t = [step |-> "check", message |-> old.message, channel |-> old.channel,
               client |-> old.client]
      BY <1>1, TaskFields
    <3> HIDE DEF t
    <3> QED
      BY <3>1, <1>1, TaskFields DEF Task
  <2>2. task' = [task EXCEPT ![p] = t]
    BY <1>3 DEF Load
  <2> HIDE DEF t
  <2>3. PICK u \in Task : u = t
    BY <2>1
  <2>4. HasClient(u) /\ InStep(u)'
    BY <2>1, <2>3, <1>1, <1>3 DEF HasClient, InStep
  <2> QED
    BY <2>2, <2>3, <2>4, <1>1, <1>2, <1>3, SameOutbox
<1>4. CASE snapshot # None
  <2>1. PICK u : u = Proceed(old, snapshot)
    OBVIOUS
  <2>2. snapshot \in Client /\ Grounded(snapshot)
    BY <1>1, <1>4
  <2>3. /\ u \in Task /\ u # Idle
        /\ u.channel = old.channel
        /\ HasClient(u)
        /\ \/ /\ u.step = "save_channel"
              /\ snapshot.channels[old.channel] = None
              /\ u.client = [snapshot EXCEPT !.channels[old.channel] = NoChain]
           \/ /\ u.step = "commit"
              /\ u.client = snapshot
    BY <2>1, <2>2, <1>1, ProceedFields
  <2>4. task' = [task EXCEPT ![p] = u]
    BY <2>1, <1>4 DEF Load
  <2>5. InStep(u)'
    BY <2>3, <1>1, <1>4 DEF InStep
  <2> QED
    BY <2>3, <2>4, <2>5, <1>1, <1>2, <1>4, SameOutbox
<1> QED
  BY <1>3, <1>4

(* Still no client: it is created.  Otherwise the call ends.               *)
LEMMA CheckStep ==
  ASSUME QInv, NEW p \in Processes, Check(p) \/ Abort(p)
  PROVE  QInv'
<1> DEFINE old == task[p]
<1>1. /\ old # Idle /\ old \in Task
      /\ UNCHANGED <<snapshot, outbox, archive, written, signers, overlap>>
      /\ task \in [Processes -> Task]
      /\ snapshot \in Client \cup {None} /\ written \subseteq Messages /\ signers \in Nat
      /\ overlap \in BOOLEAN
      /\ snapshot # None => Grounded(snapshot)
  BY DEF QInv, TypeOK, Check, Abort, Idle
<1>2. ~overlap => \A q \in Processes \ {p} : task[q] = Idle
  BY <1>1, CallAlone
<1>3. CASE Check(p) /\ snapshot = None
  <2>1. PICK u : u = [old EXCEPT !.step = "save_client"]
    OBVIOUS
  <2>2. u = [step |-> "save_client", message |-> old.message, channel |-> old.channel,
             client |-> old.client]
    BY <2>1, <1>1, TaskFields
  <2>3. u \in Task /\ u.step = "save_client"
    BY <2>2, <1>1, TaskFields DEF Task
  <2>4. task' = [task EXCEPT ![p] = u]
    BY <2>1, <1>3 DEF Check
  <2>5. HasClient(u) /\ InStep(u)'
    BY <2>3, <1>1, <1>3 DEF HasClient, InStep
  <2> QED
    BY <2>3, <2>4, <2>5, <1>1, <1>2, <1>3, SameOutbox
<1>4. CASE Abort(p) \/ snapshot # None
  <2>1. task' = [task EXCEPT ![p] = Idle]
    BY <1>4 DEF Check, Abort
  <2>2. Idle \in Task /\ HasClient(Idle) /\ InStep(Idle)'
    BY DEF Task, Idle, HasClient, InStep
  <2> QED
    BY <2>1, <2>2, <1>1, <1>2, SameOutbox
<1> QED
  BY <1>3, <1>4

(* A new client is saved: without overlap, into a vault that has none.     *)
LEMMA SaveClientStep ==
  ASSUME QInv, NEW p \in Processes, SaveClient(p)
  PROVE  QInv'
<1> DEFINE old == task[p]
<1>1. /\ old.step = "save_client" /\ old # Idle /\ old \in Task
      /\ signers' = signers + 1
      /\ snapshot' = NewClient
      /\ UNCHANGED <<outbox, archive, written, overlap>>
      /\ written \subseteq Messages /\ signers \in Nat
      /\ overlap \in BOOLEAN
  BY DEF QInv, TypeOK, SaveClient, Idle
<1>2. ~overlap => \A q \in Processes \ {p} : task[q] = Idle
  BY <1>1, CallAlone
<1>3. ~overlap => InStep(old)
  BY <1>1, CallAlone
<1>4. PICK client : client = NewClient
  OBVIOUS
<1>5. client \in Client /\ \A c \in Channels : client.channels[c] = None
  BY <1>1, <1>4 DEF NewClient, Client
<1>6. Grounded(client) /\ client # None
  BY <1>5, NoneAssumption DEF Grounded
<1>7. PICK u : u = Proceed(old, client)
  OBVIOUS
<1>8. /\ u \in Task /\ u # Idle
      /\ u.channel = old.channel
      /\ HasClient(u)
      /\ \/ /\ u.step = "save_channel"
            /\ client.channels[old.channel] = None
            /\ u.client = [client EXCEPT !.channels[old.channel] = NoChain]
         \/ /\ u.step = "commit"
            /\ u.client = client
  BY <1>1, <1>5, <1>6, <1>7, ProceedFields
<1>9. task' = [task EXCEPT ![p] = u] /\ snapshot' = client
  BY <1>1, <1>4, <1>7 DEF SaveClient
<1>10. InStep(u)'
  BY <1>6, <1>8, <1>9 DEF InStep
<1>11. ~overlap => \A c \in Channels : Places(c, Len(outbox) + 1) = {}
  <2>1. ~overlap => outbox = << >>
    BY <1>1, <1>3 DEF InStep, QInv
  <2> QED
    BY <2>1 DEF Places
<1>12. signers' \in Nat
  BY <1>1
<1> QED
  BY <1>1, <1>2, <1>5, <1>6, <1>8, <1>9, <1>10, <1>11, <1>12, SameOutbox

(* The client with its new channel is saved.                               *)
LEMMA SaveChannelStep ==
  ASSUME QInv, NEW p \in Processes, SaveChannel(p)
  PROVE  QInv'
<1> DEFINE old == task[p]
<1>1. /\ old.step = "save_channel" /\ old # Idle /\ old \in Task
      /\ snapshot' = old.client
      /\ UNCHANGED <<outbox, archive, written, signers, overlap>>
      /\ written \subseteq Messages /\ signers \in Nat
      /\ overlap \in BOOLEAN
  BY DEF QInv, TypeOK, SaveChannel, Idle
<1>2. ~overlap => InStep(old) /\ \A q \in Processes \ {p} : task[q] = Idle
  BY <1>1, CallAlone
<1>3. PICK client : client = old.client
  OBVIOUS
<1>4. client \in Client /\ Grounded(client) /\ client.channels[old.channel] \in Chain
  BY <1>1, <1>3 DEF QInv, HasClient
<1>5. client # None /\ old.channel \in Channels
  BY <1>1, <1>4, NoneAssumption, TaskFields
<1>6. PICK u : u = [step |-> "commit", message |-> old.message, channel |-> old.channel,
                    client |-> client]
  OBVIOUS
<1>7. u \in Task
  BY <1>1, <1>4, <1>6, TaskFields DEF Task
<1>8. task' = [task EXCEPT ![p] = u]
  <2>1. task' = [task EXCEPT ![p] = [old EXCEPT !.step = "commit"]]
    BY DEF SaveChannel
  <2>2. [old EXCEPT !.step = "commit"] = u
    BY <1>1, <1>3, <1>6, TaskFields
  <2> QED
    BY <2>1, <2>2
<1>9. HasClient(u) /\ InStep(u)'
  BY <1>1, <1>3, <1>4, <1>6 DEF HasClient, InStep
<1>10. ASSUME ~overlap, NEW c \in Channels
       PROVE  \/ /\ snapshot # None
                 /\ client.channels[c] = snapshot.channels[c] /\ client.signer = snapshot.signer
              \/ /\ Places(c, Len(outbox) + 1) = {}
                 /\ client.channels[c] \in {None, NoChain}
  <2>1. /\ snapshot # None /\ snapshot \in Client
        /\ snapshot.channels[old.channel] = None
        /\ client = [snapshot EXCEPT !.channels[old.channel] = NoChain]
    BY <1>1, <1>2, <1>3, <1>10 DEF InStep, QInv, TypeOK
  <2>2. /\ client.signer = snapshot.signer
        /\ client.channels[c] = IF c = old.channel THEN NoChain ELSE snapshot.channels[c]
    <3>1. NoChain \in Chain
      BY DEF NoChain, Chain
    <3> QED
      BY <3>1, <2>1, <1>5, ClientUpdate
  <2>3. CASE c # old.channel
    BY <2>1, <2>2, <2>3
  <2>4. CASE c = old.channel
    <3>1. Places(c, Len(outbox) + 1) = {}
      <4> SUFFICES ASSUME Places(c, Len(outbox) + 1) # {} PROVE FALSE
        OBVIOUS
      <4>1. PICK i \in Places(c, Len(outbox) + 1) :
              snapshot.channels[c] = [counter |-> outbox[i].sender_counter,
                                      head |-> outbox[i].event_id]
        BY <1>10 DEF QInv, SenderChainUnbroken, EndsIn
      <4>2. outbox[i] \in Row
        BY DEF QInv, TypeOK, Places
      <4>3. snapshot.channels[c] \in Chain
        BY <4>1, <4>2 DEF Row, Chain
      <4> QED
        BY <4>3, <2>1, <2>4, NoneAssumption
    <3> QED
      BY <3>1, <2>2, <2>4
  <2> QED
    BY <2>3, <2>4
<1> QED
  BY <1>1, <1>2, <1>3, <1>4, <1>5, <1>7, <1>8, <1>9, <1>10, SameOutbox

-----------------------------------------------------------------------------
(* A row at the end leaves the places before it as they are.               *)
LEMMA AppendKeeps ==
  ASSUME outbox \in Seq(Row), NEW row \in Row, outbox' = Append(outbox, row)
  PROVE  /\ outbox' \in Seq(Row)
         /\ Len(outbox') = Len(outbox) + 1
         /\ DOMAIN outbox' = 1 .. Len(outbox) + 1 /\ DOMAIN outbox = 1 .. Len(outbox)
         /\ \A i \in 1 .. Len(outbox) : outbox'[i] = outbox[i]
         /\ outbox'[Len(outbox) + 1] = row
         /\ \A c : \A m \in 1 .. Len(outbox) + 1 :
              /\ Places(c, m)' = Places(c, m)
              /\ \A signer, chain : EndsIn(c, m, signer, chain)' <=> EndsIn(c, m, signer, chain)
         /\ \A client : Grounded(client) => Grounded(client)'
<1>1. /\ outbox' \in Seq(Row)
      /\ Len(outbox') = Len(outbox) + 1 /\ Len(outbox) \in Nat
      /\ DOMAIN outbox' = 1 .. Len(outbox) + 1 /\ DOMAIN outbox = 1 .. Len(outbox)
      /\ \A i \in 1 .. Len(outbox) : outbox'[i] = outbox[i]
      /\ outbox'[Len(outbox) + 1] = row
  BY AppendProperties
<1>2. \A m \in 1 .. Len(outbox) + 1 : \A i \in 1 .. m - 1 : outbox'[i] = outbox[i]
  BY <1>1
<1>3. \A c : \A m \in 1 .. Len(outbox) + 1 : Places(c, m)' = Places(c, m)
  BY <1>2 DEF Places
<1>4. \A c : \A m \in 1 .. Len(outbox) + 1 : \A signer, chain :
        EndsIn(c, m, signer, chain)' <=> EndsIn(c, m, signer, chain)
  <2> SUFFICES ASSUME NEW c, NEW m \in 1 .. Len(outbox) + 1, NEW signer, NEW chain
               PROVE  EndsIn(c, m, signer, chain)' <=> EndsIn(c, m, signer, chain)
    OBVIOUS
  <2>1. Places(c, m)' = Places(c, m)
    BY <1>3
  <2>2. \A i \in Places(c, m) : outbox'[i] = outbox[i]
    BY <1>2 DEF Places
  <2> QED
    BY <2>1, <2>2 DEF EndsIn
<1>5. \A client : Grounded(client) => Grounded(client)'
  <2>1. \A j \in DOMAIN outbox : j \in DOMAIN outbox' /\ outbox'[j] = outbox[j]
    BY <1>1
  <2> QED
    BY <2>1 DEF Grounded
<1> QED
  BY <1>1, <1>3, <1>4, <1>5

(* Message, successor state and row are committed: the row continues the   *)
(* chain of the client in memory.                                          *)
LEMMA CommitStep ==
  ASSUME QInv, NEW p \in Processes, Commit(p)
  PROVE  QInv'
<1> DEFINE old == task[p]
<1>1. /\ old.step = "commit" /\ old # Idle /\ old \in Task
      /\ archive' = archive \cup {old.message}
      /\ snapshot' = Successor(old)
      /\ outbox' = Append(outbox, NextRow(old))
      /\ task' = [task EXCEPT ![p] = Idle]
      /\ UNCHANGED <<written, signers, overlap>>
      /\ TypeOK
  BY DEF QInv, TypeOK, Commit, Idle
<1>2. ~overlap => InStep(old) /\ \A q \in Processes \ {p} : task[q] = Idle
  BY <1>1, CallAlone
<1>3. PICK client, ch, chain, message :
         /\ client = old.client /\ ch = old.channel /\ message = old.message
         /\ chain = client.channels[ch]
  OBVIOUS
<1>4. /\ client \in Client /\ Grounded(client) /\ chain \in Chain
      /\ ch \in Channels /\ message \in Messages
  BY <1>1, <1>3, TaskFields DEF QInv, HasClient
<1>5. /\ chain.counter \in Nat /\ chain.head \in Messages \cup {None}
      /\ chain = [counter |-> chain.counter, head |-> chain.head]
      /\ client.signer \in Nat /\ chain # None
  BY <1>4, NoneAssumption DEF Chain, Client
<1>6. PICK row : row = NextRow(old)
  OBVIOUS
<1>7. /\ row \in Row
      /\ row.event_id = message /\ row.channel = ch /\ row.signer = client.signer
      /\ row.sender_counter = chain.counter + 1 /\ row.previous_event_hash = chain.head
  BY <1>3, <1>4, <1>5, <1>6 DEF NextRow, Row
<1>8. PICK last : last = [counter |-> chain.counter + 1, head |-> message]
  OBVIOUS
<1>9. last \in Chain /\ last.counter = chain.counter + 1 /\ last.head = message /\ last.head # None
  BY <1>4, <1>5, <1>8, NoneAssumption DEF Chain
<1>10. /\ snapshot' \in Client /\ snapshot' # None
       /\ snapshot'.signer = client.signer
       /\ \A d \in Channels : snapshot'.channels[d] = IF d = ch THEN last ELSE client.channels[d]
  <2>1. snapshot' = [client EXCEPT !.channels[ch] = last]
    BY <1>1, <1>3, <1>8 DEF Successor
  <2> QED
    BY <2>1, <1>4, <1>9, ClientUpdate, NoneAssumption
<1>0. PICK n \in Nat : n = Len(outbox)
  BY <1>1, LenProperties DEF TypeOK
<1>11. /\ outbox' \in Seq(Row)
       /\ Len(outbox') = n + 1
       /\ DOMAIN outbox' = 1 .. n + 1 /\ DOMAIN outbox = 1 .. n
       /\ \A i \in 1 .. n : outbox'[i] = outbox[i]
       /\ outbox'[n + 1] = row
       /\ \A c : \A m \in 1 .. n + 1 :
            /\ Places(c, m)' = Places(c, m)
            /\ \A signer, x : EndsIn(c, m, signer, x)' <=> EndsIn(c, m, signer, x)
       /\ \A c : Grounded(c) => Grounded(c)'
  BY <1>1, <1>0, <1>6, <1>7, AppendKeeps DEF TypeOK
<1> HIDE DEF old
<1>12. TypeOK'
  <2>1. archive' = {outbox'[i].event_id : i \in DOMAIN outbox'}
    <3>1. {outbox'[i].event_id : i \in 1 .. n + 1} = {outbox[i].event_id : i \in 1 .. n} \cup {message}
      <4>1. 1 .. n + 1 = (1 .. n) \cup {n + 1}
        BY <1>11
      <4> QED
        BY <4>1, <1>7, <1>11
    <3> QED
      BY <3>1, <1>1, <1>3, <1>11 DEF TypeOK
  <2>2. task' \in [Processes -> Task]
    BY <1>1 DEF TypeOK, Task
  <2> QED
    BY <2>1, <2>2, <1>1, <1>10, <1>11 DEF TypeOK
<1>13. RefersToQueued'
  <2> SUFFICES ASSUME NEW i \in 1 .. n + 1
               PROVE  IF outbox'[i].previous_event_hash = None THEN outbox'[i].sender_counter = 1
                      ELSE \E j \in 1 .. i - 1 :
                             /\ outbox'[j].event_id = outbox'[i].previous_event_hash
                             /\ outbox'[j].channel = outbox'[i].channel
                             /\ outbox'[j].signer = outbox'[i].signer
                             /\ outbox'[j].sender_counter = outbox'[i].sender_counter - 1
    BY <1>11 DEF RefersToQueued
  <2>1. CASE i \in 1 .. n
    <3>1. \A j \in 1 .. i - 1 : outbox'[j] = outbox[j]
      BY <2>1, <1>11
    <3> QED
      BY <3>1, <2>1, <1>11 DEF QInv, RefersToQueued
  <2>2. CASE i = n + 1
    <3>1. outbox'[i] = row /\ i - 1 = n
      BY <2>2, <1>11
    <3>2. CASE chain.head = None
      BY <3>1, <3>2, <1>3, <1>4, <1>5, <1>7 DEF Grounded
    <3>3. CASE chain.head # None
      <4>1. PICK j \in 1 .. n : /\ outbox[j].event_id = chain.head
                                /\ outbox[j].channel = ch
                                /\ outbox[j].signer = client.signer
                                /\ outbox[j].sender_counter = chain.counter
        BY <3>3, <1>3, <1>4, <1>5, <1>11 DEF Grounded
      <4>2. chain.counter = row.sender_counter - 1
        BY <1>5, <1>7
      <4> QED
        BY <4>1, <4>2, <3>1, <3>3, <1>7, <1>11
    <3> QED
      BY <3>2, <3>3
  <2> QED
    BY <2>1, <2>2, <1>11
<1>14. Grounded(snapshot)'
  <2> SUFFICES ASSUME NEW c \in Channels, snapshot'.channels[c] # None
               PROVE  IF snapshot'.channels[c].head = None THEN snapshot'.channels[c].counter = 0
                      ELSE \E j \in 1 .. n + 1 :
                             /\ outbox'[j].event_id = snapshot'.channels[c].head
                             /\ outbox'[j].channel = c
                             /\ outbox'[j].signer = snapshot'.signer
                             /\ outbox'[j].sender_counter = snapshot'.channels[c].counter
    BY <1>11 DEF Grounded
  <2>1. CASE c = ch
    BY <2>1, <1>7, <1>9, <1>10, <1>11
  <2>2. CASE c # ch
    <3>1. snapshot'.channels[c] = client.channels[c] /\ snapshot'.signer = client.signer
      BY <2>2, <1>10
    <3> QED
      BY <3>1, <1>4, <1>11 DEF Grounded
  <2> QED
    BY <2>1, <2>2
<1>15. \A q \in Processes : HasClient(task[q])'
  <2> SUFFICES ASSUME NEW q \in Processes PROVE HasClient(task[q])'
    OBVIOUS
  <2>1. CASE q = p
    BY <2>1, <1>1 DEF HasClient, Idle, TypeOK
  <2>2. CASE q # p
    BY <2>2, <1>1, <1>11 DEF HasClient, QInv, TypeOK
  <2> QED
    BY <2>1, <2>2
<1>16. \A c \in Channels : c # ch => Places(c, n + 2)' = Places(c, n + 1)
  <2> SUFFICES ASSUME NEW c \in Channels, c # ch
               PROVE  Places(c, n + 2)' = Places(c, n + 1)
    OBVIOUS
  <2>1. Places(c, n + 2)' = {i \in 1 .. n + 1 : outbox'[i].channel = c}
    <3>1. n + 2 - 1 = n + 1
      OBVIOUS
    <3> QED
      BY <3>1 DEF Places
  <2>2. Places(c, n + 1) = {i \in 1 .. n : outbox[i].channel = c}
    BY <1>11 DEF Places
  <2>3. 1 .. n + 1 = (1 .. n) \cup {n + 1} /\ outbox'[n + 1].channel # c
    BY <1>7, <1>11
  <2> QED
    BY <2>1, <2>2, <2>3, <1>11
<1>17. n + 1 \in Places(ch, n + 2)'
  BY <1>7, <1>11 DEF Places
<1>18. ASSUME ~overlap
       PROVE  /\ client = snapshot
              /\ Places(ch, n + 1) = {} => chain = NoChain
              /\ Places(ch, n + 1) # {} => EndsIn(ch, n + 1, client.signer, chain)
  <2>1. client = snapshot
    BY <1>1, <1>2, <1>3, <1>18 DEF InStep
  <2>2. client # None
    BY <1>4, NoneAssumption
  <2> QED
    BY <2>1, <2>2, <1>0, <1>3, <1>4, <1>5, <1>18 DEF QInv, Alone, SenderChainUnbroken
<1>19. ASSUME ~overlap
       PROVE  Alone'
  <2>1. \A q \in Processes : task'[q] = Idle
    BY <1>1, <1>2, <1>19 DEF TypeOK, old
  <2>2. \A q \in Processes : InStep(task[q])'
    BY <2>1 DEF InStep, Idle
  <2>3. \A c \in Channels : Places(c, n + 2)' = {} => snapshot'.channels[c] \in {None, NoChain}
    <3> SUFFICES ASSUME NEW c \in Channels, Places(c, n + 2)' = {}
                 PROVE  snapshot'.channels[c] \in {None, NoChain}
      OBVIOUS
    <3>1. c # ch
      BY <1>17
    <3>2. Places(c, n + 1) = {} /\ snapshot'.channels[c] = snapshot.channels[c] /\ snapshot # None
      BY <3>1, <1>4, <1>10, <1>16, <1>18, <1>19, NoneAssumption
    <3> QED
      BY <3>2, <1>0, <1>19 DEF QInv, Alone
  <2>4. Len(outbox') + 1 = n + 2
    BY <1>11
  <2>5. \A c \in Channels : Places(c, Len(outbox) + 1)' = Places(c, n + 2)'
    BY <2>4 DEF Places
  <2> QED
    BY <2>1, <2>2, <2>3, <2>5 DEF Alone
<1>20. ASSUME ~overlap
       PROVE  SenderChainUnbroken'
  <2>1. ASSUME NEW i \in 1 .. n + 1
        PROVE  (IF Places(outbox[i].channel, i) = {}
                THEN outbox[i].sender_counter = 1 /\ outbox[i].previous_event_hash = None
                ELSE EndsIn(outbox[i].channel, i, outbox[i].signer,
                            [counter |-> outbox[i].sender_counter - 1,
                             head |-> outbox[i].previous_event_hash]))'
    <3>1. PICK r : r = outbox'[i]
      OBVIOUS
    <3>2. IF Places(r.channel, i) = {}
          THEN r.sender_counter = 1 /\ r.previous_event_hash = None
          ELSE EndsIn(r.channel, i, r.signer,
                      [counter |-> r.sender_counter - 1, head |-> r.previous_event_hash])
      <4>1. CASE i \in 1 .. n
        <5>1. r = outbox[i]
          BY <4>1, <3>1, <1>11
        <5> QED
          BY <5>1, <4>1, <1>11, <1>20 DEF QInv, SenderChainUnbroken
      <4>2. CASE i = n + 1
        <5>1. r = row
          BY <4>2, <3>1, <1>11
        <5>2. [counter |-> r.sender_counter - 1, head |-> r.previous_event_hash] = chain
          <6>1. r.sender_counter - 1 = chain.counter /\ r.previous_event_hash = chain.head
            BY <5>1, <1>5, <1>7
          <6> QED
            BY <6>1, <1>5
        <5>3. NoChain.counter = 0 /\ NoChain.head = None
          BY DEF NoChain
        <5> QED
          BY <5>1, <5>2, <5>3, <4>2, <1>7, <1>18, <1>20
      <4> QED
        BY <4>1, <4>2
    <3>3. /\ Places(r.channel, i)' = Places(r.channel, i)
          /\ \A signer, x : EndsIn(r.channel, i, signer, x)' <=> EndsIn(r.channel, i, signer, x)
      BY <1>11
    <3>4. Places(outbox[i].channel, i)' = Places(r.channel, i)'
      BY <3>1 DEF Places
    <3> DEFINE x == [counter |-> r.sender_counter - 1, head |-> r.previous_event_hash]
    <3>5. EndsIn(outbox[i].channel, i, outbox[i].signer,
                 [counter |-> outbox[i].sender_counter - 1,
                  head |-> outbox[i].previous_event_hash])'
            <=> EndsIn(r.channel, i, r.signer, x)'
      BY <3>1 DEF Places, EndsIn
    <3> HIDE DEF x
    <3>6. IF Places(r.channel, i)' = {}
          THEN r.sender_counter = 1 /\ r.previous_event_hash = None
          ELSE EndsIn(r.channel, i, r.signer, x)'
      BY <3>2, <3>3 DEF x
    <3> QED
      BY <3>1, <3>4, <3>5, <3>6
  <2>2. \A c \in Channels : Places(c, n + 2)' # {} =>
          EndsIn(c, n + 2, snapshot.signer, snapshot.channels[c])'
    <3> SUFFICES ASSUME NEW c \in Channels, Places(c, n + 2)' # {}
                 PROVE  EndsIn(c, n + 2, snapshot.signer, snapshot.channels[c])'
      OBVIOUS
    <3>1. CASE c = ch
      <4>1. \A j \in Places(ch, n + 2)' : j <= n + 1
        BY DEF Places
      <4> QED
        BY <4>1, <3>1, <1>7, <1>8, <1>10, <1>11, <1>17 DEF EndsIn
    <3>2. CASE c # ch
      <4>1. EndsIn(c, n + 1, snapshot.signer, snapshot.channels[c])
        BY <3>2, <1>0, <1>16, <1>20 DEF QInv, SenderChainUnbroken
      <4>2. snapshot'.signer = snapshot.signer /\ snapshot'.channels[c] = snapshot.channels[c]
        BY <3>2, <1>10, <1>18, <1>20
      <4>3. Places(c, n + 2)' = Places(c, n + 1) /\ \A i \in Places(c, n + 1) : outbox'[i] = outbox[i]
        BY <3>2, <1>11, <1>16 DEF Places
      <4> QED
        BY <4>1, <4>2, <4>3 DEF EndsIn
    <3> QED
      BY <3>1, <3>2
  <2>3. Len(outbox') + 1 = n + 2
    BY <1>11
  <2>4. (\A channel \in Channels : Places(channel, Len(outbox) + 1) # {} =>
           EndsIn(channel, Len(outbox) + 1, snapshot.signer, snapshot.channels[channel]))'
    BY <2>2, <2>3 DEF Places, EndsIn
  <2>5. (\A i \in DOMAIN outbox :
           IF Places(outbox[i].channel, i) = {}
           THEN outbox[i].sender_counter = 1 /\ outbox[i].previous_event_hash = None
           ELSE EndsIn(outbox[i].channel, i, outbox[i].signer,
                       [counter |-> outbox[i].sender_counter - 1,
                        head |-> outbox[i].previous_event_hash]))'
    BY <2>1, <1>11
  <2> QED
    BY <2>4, <2>5 DEF SenderChainUnbroken
<1>21. overlap' = overlap /\ (overlap => SenderChainUnbroken')
  BY <1>1 DEF SenderChainUnbroken
<1> QED
  BY <1>10, <1>12, <1>13, <1>14, <1>15, <1>19, <1>20, <1>21 DEF QInv

-----------------------------------------------------------------------------
(* Every step keeps the invariant.                                         *)
LEMMA NextQInv == QInv /\ [Next]_vars => QInv'
<1> SUFFICES ASSUME QInv, [Next]_vars PROVE QInv'
  OBVIOUS
<1>1. CASE Next
  <2>1. PICK p \in Processes :
          \/ \E m \in Messages, c \in Channels : Call(p, m, c)
          \/ Load(p) \/ Check(p) \/ SaveClient(p) \/ SaveChannel(p) \/ Commit(p) \/ Abort(p)
    BY <1>1 DEF Next
  <2> QED
    BY <2>1, CallStep, LoadStep, CheckStep, SaveClientStep, SaveChannelStep, CommitStep
<1>2. CASE UNCHANGED vars
  <2>1. UNCHANGED <<snapshot, outbox, archive, task, written, signers, overlap>>
    BY <1>2 DEF vars
  <2>2. TypeOK' /\ RefersToQueued'
    BY <2>1 DEF QInv, TypeOK, RefersToQueued
  <2>3. \A client : Grounded(client)' <=> Grounded(client)
    BY <2>1 DEF Grounded
  <2>4. \A p \in Processes : HasClient(task[p])'
    BY <2>1, <2>3 DEF QInv, HasClient
  <2>5. \A c, n : Places(c, n)' = Places(c, n)
    BY <2>1 DEF Places
  <2>6. \A c, n, signer, chain : EndsIn(c, n, signer, chain)' <=> EndsIn(c, n, signer, chain)
    BY <2>1, <2>5 DEF EndsIn
  <2>7. Alone => Alone'
    BY <2>1, <2>5 DEF Alone, InStep
  <2>8. SenderChainUnbroken'
    BY <2>1, <2>5, <2>6 DEF QInv, SenderChainUnbroken
  <2>9. (snapshot # None => Grounded(snapshot))'
    BY <2>1 DEF QInv, Grounded
  <2> QED
    BY <2>1, <2>2, <2>4, <2>7, <2>8, <2>9 DEF QInv
<1> QED
  BY <1>1, <1>2

(* The invariant holds in every reachable state.                           *)
LEMMA Invariance == Spec => []QInv
BY InitQInv, NextQInv, PTL DEF Spec

(* Vault, calls and history stay within their types, and the archive has   *)
(* exactly the messages of the queued events.                              *)
THEOREM TypeCorrect == Spec => []TypeOK
<1>1. QInv => TypeOK
  BY DEF QInv
<1> QED
  BY <1>1, Invariance, PTL

(* However the calls of any number of processes overlap, fail or end: an   *)
(* event refers to an event of its client and channel that was queued      *)
(* before it, and counts one on from it.                                   *)
THEOREM PredecessorsQueued == Spec => []RefersToQueued
<1>1. QInv => RefersToQueued
  BY DEF QInv
<1> QED
  BY <1>1, Invariance, PTL

(* As long as no two calls overlap, the events of a channel form one       *)
(* unbroken chain, and the stored state is at its end.                     *)
THEOREM ChainUnbroken == Spec => []SenderChainUnbroken
<1>1. QInv => SenderChainUnbroken
  BY DEF QInv
<1> QED
  BY <1>1, Invariance, PTL
=============================================================================
