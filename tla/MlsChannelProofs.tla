-------------------------- MODULE MlsChannelProofs --------------------------
(***************************************************************************)
(* Proofs about MlsChannel, for any set of devices and identifiers, any    *)
(* snapshot limit and any number of failures.                              *)
(*                                                                         *)
(* Everything rests on two facts.  Encoding a client and decoding it again *)
(* gives the same client, so that a snapshot taken before an operation can *)
(* undo it.  And an event is released only together with the snapshot that *)
(* is past it: the Ledger relates what has been released to what the       *)
(* vaults hold and leaves what is only in memory out.  A failed checkpoint *)
(* or an ended process changes neither side of it.                         *)
(***************************************************************************)
EXTENDS MlsChannel, FiniteSetTheorems, SequenceTheorems, TLAPS

(* A client whose chains without events have no hash either.               *)
Tidy(c) ==
  /\ c \in MlsClient
  /\ \A s \in Devices : c.incoming_chains[s].counter = 0 => c.incoming_chains[s] = NoChain

(* The fields of a chain.                                                  *)
LEMMA ChainTypes ==
  /\ NoChain \in SenderChain
  /\ \A chain \in SenderChain : chain.counter \in Nat /\ chain.event_hash \in EventIds \cup {NoHash}
BY DEF NoChain, SenderChain

(* The fields of a client.                                                 *)
LEMMA ClientTypes ==
  ASSUME NEW c \in MlsClient
  PROVE  /\ c.packages \in SUBSET Nat
         /\ c.next_package \in Nat
         /\ c.group \in Group
         /\ c.generation \in Nat
         /\ c.spent \in SUBSET (Devices \X Nat)
         /\ c.outgoing_chain \in SenderChain
         /\ c.incoming_chains \in [Devices -> SenderChain]
         /\ c.seen_event_ids \in SUBSET EventIds
BY DEF MlsClient

(* decode_snapshot takes what encode_snapshot wrote, and gives back the    *)
(* client it was written from.                                             *)
LEMMA SnapshotRoundTrip ==
  ASSUME NEW c, Tidy(c)
  PROVE  /\ EncodeSnapshot(c) \in MlsClientSnapshot
         /\ EncodeSnapshot(c) # NoClient
         /\ Decodes(EncodeSnapshot(c))
         /\ DecodeSnapshot(EncodeSnapshot(c)) = c
         /\ EncodeSnapshot(c).seen_event_ids = c.seen_event_ids
<1> DEFINE entry(s) == [sender_device_id |-> s, chain |-> c.incoming_chains[s]]
           heard == {t \in Devices : c.incoming_chains[t].counter > 0}
           entries == {entry(s) : s \in heard}
           snapshot == EncodeSnapshot(c)
<1>1. c \in MlsClient /\ c.incoming_chains \in [Devices -> SenderChain]
  BY ClientTypes DEF Tidy
<1>2. \A s \in Devices : /\ entry(s) \in IncomingChainSnapshot
                         /\ entry(s).sender_device_id = s
                         /\ entry(s).chain = c.incoming_chains[s]
  BY <1>1 DEF IncomingChainSnapshot
<1>3. entries \in SUBSET IncomingChainSnapshot
  BY <1>2
<1>4. /\ snapshot = [c EXCEPT !.incoming_chains = entries]
      /\ snapshot.incoming_chains = entries
      /\ snapshot.seen_event_ids = c.seen_event_ids
  BY <1>1 DEF EncodeSnapshot, MlsClient
<1>5. snapshot \in MlsClientSnapshot
  BY <1>1, <1>3, <1>4 DEF MlsClient, MlsClientSnapshot
<1>6. snapshot # NoClient
  BY <1>5, NoClientAssumption
<1>7. \A e \in entries : /\ e.sender_device_id \in heard
                         /\ e = entry(e.sender_device_id)
                         /\ e.chain = c.incoming_chains[e.sender_device_id]
  BY <1>2
<1>8. Decodes(snapshot)
  <2>1. \A e \in entries : e.chain.counter # 0
    BY <1>1, <1>7 DEF SenderChain
  <2>2. \A e, f \in entries : e.sender_device_id = f.sender_device_id => e = f
    BY <1>7
  <2> HIDE DEF entries
  <2> QED BY <1>4, <2>1, <2>2 DEF Decodes
<1>9. \A s \in Devices :
        (IF \E e \in entries : e.sender_device_id = s
         THEN (CHOOSE e \in entries : e.sender_device_id = s).chain
         ELSE NoChain) = c.incoming_chains[s]
  <2> SUFFICES ASSUME NEW s \in Devices
               PROVE  (IF \E e \in entries : e.sender_device_id = s
                       THEN (CHOOSE e \in entries : e.sender_device_id = s).chain
                       ELSE NoChain) = c.incoming_chains[s]
    OBVIOUS
  <2>1. CASE s \in heard
    <3>1. entry(s) \in entries /\ entry(s).sender_device_id = s
      BY <2>1, <1>2
    <3> DEFINE e == CHOOSE x \in entries : x.sender_device_id = s
    <3> HIDE DEF entries
    <3>2. e \in entries /\ e.sender_device_id = s
      BY <3>1
    <3>3. e.chain = c.incoming_chains[s]
      BY <3>2, <1>7
    <3> QED BY <3>1, <3>3
  <2>2. CASE s \notin heard
    <3>1. ~\E e \in entries : e.sender_device_id = s
      BY <2>2, <1>7
    <3>2. c.incoming_chains[s].counter = 0
      BY <2>2, <1>1 DEF SenderChain
    <3>3. c.incoming_chains[s] = NoChain
      BY <3>2 DEF Tidy
    <3> HIDE DEF entries
    <3> QED BY <3>1, <3>3
  <2> QED BY <2>1, <2>2
<1>10. DecodeSnapshot(snapshot) = c
  <2> DEFINE chains == [s \in Devices |->
                          IF \E e \in entries : e.sender_device_id = s
                          THEN (CHOOSE e \in entries : e.sender_device_id = s).chain
                          ELSE NoChain]
  <2>1. chains = c.incoming_chains
    BY <1>1, <1>9
  <2>2. DecodeSnapshot(snapshot) = [snapshot EXCEPT !.incoming_chains = chains]
    BY <1>4 DEF DecodeSnapshot
  <2> HIDE DEF chains, entries
  <2>3. DecodeSnapshot(snapshot) = [snapshot EXCEPT !.incoming_chains = c.incoming_chains]
    BY <2>1, <2>2
  <2> QED BY <2>3, <1>4, <1>1 DEF MlsClient
<1> QED BY <1>4, <1>5, <1>6, <1>8, <1>10
-----------------------------------------------------------------------------
(***************************************************************************)
(* The ledger: what has been released (A), against what the vaults hold    *)
(* (S) and the identifiers drawn (D).                                      *)
(***************************************************************************)
ApplicationMessage ==
  [kind : {"application"}, group : Group, sender : Devices, generation : Nat,
   event : PlaintextEvent]

(* A released event is behind the saved state of its sender.               *)
Behind(m, c, D) ==
  /\ c # NoClient
  /\ m.event.sender_device_id = m.sender
  /\ m.event.event_id \in D
  /\ m.event.sender_counter <= c.outgoing_chain.counter
  /\ m.group # NoGroup
  /\ Len(m.group) <= Len(c.group)
  /\ m.group = c.group => m.generation <= c.generation

(* An event is known by its identifier, by its counter and by its key.     *)
Unique(A) ==
  /\ \A m, n \in A : m.event.event_id = n.event.event_id => m = n
  /\ \A m, n \in A :
       m.sender = n.sender /\ m.event.sender_counter = n.event.sender_counter => m = n
  /\ \A m, n \in A :
       m.sender = n.sender /\ m.group = n.group /\ m.generation = n.generation => m = n

(* A chain has recorded a prefix of what its sender has released.          *)
Prefix(chain, s, seen, A) ==
  /\ \A n \in 1 .. chain.counter :
       \E m \in A : m.sender = s /\ m.event.sender_counter = n
  /\ \A m \in A : m.sender = s =>
       (m.event.sender_counter <= chain.counter <=> m.event.event_id \in seen)

(* What a client has recorded has been released, and the keys it has used  *)
(* up are those of recorded events.                                        *)
Received(d, c, A) ==
  /\ \A id \in c.seen_event_ids : \E m \in A : m.event.event_id = id
  /\ \A s \in Devices \ {d} : Prefix(c.incoming_chains[s], s, c.seen_event_ids, A)
  /\ \A key \in c.spent :
       \E m \in A :
         /\ m.sender = key[1] /\ m.sender # d
         /\ m.group = c.group /\ m.generation = key[2]
         /\ m.event.sender_counter <= c.incoming_chains[m.sender].counter

Ledger(S, A, D) ==
  /\ \A m \in A : Behind(m, S[m.sender], D)
  /\ Unique(A)
  /\ \A d \in Devices : S[d] # NoClient => Received(d, S[d], A)

(* The operations between memory and vault.  One leaves events alone, ...  *)
ChangesGroup(c, k) ==
  /\ k.seen_event_ids = c.seen_event_ids
  /\ k.incoming_chains = c.incoming_chains
  /\ k.outgoing_chain = c.outgoing_chain
  /\ \/ k.group = c.group /\ k.generation = c.generation /\ k.spent = c.spent
     \/ Len(k.group) > Len(c.group) /\ k.spent = {}

(* ... one has encrypted an event ...                                      *)
Encrypts(d, c, k, m) ==
  /\ m.sender = d /\ m.event.sender_device_id = d
  /\ m.group = c.group /\ m.group # NoGroup /\ m.generation = c.generation + 1
  /\ m.event.sender_counter = c.outgoing_chain.counter + 1
  /\ k.group = c.group
  /\ k.generation = c.generation + 1
  /\ k.spent = c.spent
  /\ k.outgoing_chain = ChainAfter(m.event)
  /\ k.incoming_chains = c.incoming_chains
  /\ k.seen_event_ids = c.seen_event_ids \cup {m.event.event_id}

(* ... and one has decrypted one.                                          *)
Decrypts(d, c, k, m) ==
  /\ m.sender # d
  /\ m.group = c.group
  /\ Admits(c, m.event)
  /\ k.group = c.group
  /\ k.generation = c.generation
  /\ k.spent = c.spent \cup {<<m.sender, m.generation>>}
  /\ k.outgoing_chain = c.outgoing_chain
  /\ k.incoming_chains = [c.incoming_chains EXCEPT ![m.event.sender_device_id] = ChainAfter(m.event)]
  /\ k.seen_event_ids = c.seen_event_ids \cup {m.event.event_id}

(* The fields of a released event.                                         *)
LEMMA MessageTypes ==
  ASSUME NEW m \in ApplicationMessage
  PROVE  /\ m.kind = "application" /\ m.group \in Group /\ m.sender \in Devices
         /\ m.generation \in Nat /\ m.event \in PlaintextEvent
         /\ m.event.event_id \in EventIds
         /\ m.event.sender_device_id \in Devices
         /\ m.event.sender_counter \in Nat \ {0}
         /\ m.event.previous_event_hash \in EventIds \cup {NoHash}
BY DEF ApplicationMessage, PlaintextEvent

(* The length of a group state.                                            *)
LEMMA GroupLength ==
  \A g \in Group : Len(g) \in Nat
BY DEF Group

(* Saving a new client: it has recorded nothing.                           *)
LEMMA LedgerNewClient ==
  ASSUME NEW S \in [Devices -> MlsClient \cup {NoClient}],
         NEW A \in SUBSET ApplicationMessage, NEW D \in SUBSET EventIds,
         Ledger(S, A, D), NEW d \in Devices, S[d] = NoClient
  PROVE  Ledger([S EXCEPT ![d] = NewClient], A, D)
<1> DEFINE T == [S EXCEPT ![d] = NewClient]
<1>1. \A m \in A : m.sender # d /\ m.sender \in Devices
  BY MessageTypes DEF Ledger, Behind
<1>2. \A m \in A : Behind(m, T[m.sender], D)
  BY <1>1 DEF Ledger
<1>3. Received(d, NewClient, A)
  <2>1. /\ NewClient.seen_event_ids = {} /\ NewClient.spent = {}
        /\ \A s \in Devices : NewClient.incoming_chains[s].counter = 0
    BY DEF NewClient, NoChain
  <2>2. \A m \in A : m.event.sender_counter \in Nat \ {0}
    BY MessageTypes
  <2>3. \A s \in Devices \ {d} : Prefix(NewClient.incoming_chains[s], s, NewClient.seen_event_ids, A)
    BY <2>1, <2>2 DEF Prefix
  <2> QED BY <2>1, <2>3 DEF Received
<1>4. \A e \in Devices : T[e] # NoClient => Received(e, T[e], A)
  BY <1>3 DEF Ledger
<1> QED BY <1>2, <1>4 DEF Ledger

(* Drawing an identifier.                                                  *)
LEMMA LedgerDrawn ==
  ASSUME NEW S, NEW A, NEW D, NEW E, D \subseteq E, Ledger(S, A, D)
  PROVE  Ledger(S, A, E)
BY DEF Ledger, Behind

(* Saving a client whose group state, but none of whose events, changed.   *)
LEMMA LedgerChangesGroup ==
  ASSUME NEW S \in [Devices -> MlsClient \cup {NoClient}],
         NEW A \in SUBSET ApplicationMessage, NEW D \in SUBSET EventIds,
         Ledger(S, A, D), NEW d \in Devices, S[d] # NoClient,
         NEW k \in MlsClient, ChangesGroup(S[d], k)
  PROVE  Ledger([S EXCEPT ![d] = k], A, D)
<1> DEFINE T == [S EXCEPT ![d] = k]
<1>1. S[d] \in MlsClient /\ k # NoClient
  BY NoClientAssumption
<1>2. PICK c \in MlsClient : c = S[d]
  BY <1>1
<1>3. /\ c.group \in Group /\ k.group \in Group /\ Len(c.group) \in Nat /\ Len(k.group) \in Nat
      /\ c.generation \in Nat /\ k.generation \in Nat
  BY ClientTypes, GroupLength
<1>4. \A m \in A : Behind(m, T[m.sender], D)
  <2> SUFFICES ASSUME NEW m \in A PROVE Behind(m, T[m.sender], D)
    OBVIOUS
  <2>1. Behind(m, S[m.sender], D) /\ m.sender \in Devices /\ m.group \in Group
    BY MessageTypes DEF Ledger
  <2>2. CASE m.sender # d
    BY <2>1, <2>2
  <2>3. CASE m.sender = d
    <3>1. Behind(m, c, D) /\ T[m.sender] = k /\ Len(m.group) \in Nat
      BY <2>1, <2>3, <1>2, GroupLength
    <3>2. k.outgoing_chain = c.outgoing_chain
      BY <1>2 DEF ChangesGroup
    <3>3. CASE k.group = c.group /\ k.generation = c.generation
      BY <3>1, <3>2, <3>3, <1>1 DEF Behind
    <3>4. CASE Len(k.group) > Len(c.group)
      BY <3>1, <3>2, <3>4, <1>1, <1>3 DEF Behind
    <3> QED BY <3>3, <3>4, <1>2 DEF ChangesGroup
  <2> QED BY <2>2, <2>3
<1>5. Received(d, k, A)
  <2>1. Received(d, c, A) /\ ChangesGroup(c, k)
    BY <1>2 DEF Ledger
  <2> QED BY <2>1 DEF Received, ChangesGroup
<1>6. \A e \in Devices : T[e] # NoClient => Received(e, T[e], A)
  BY <1>5 DEF Ledger
<1> QED BY <1>4, <1>6 DEF Ledger

(* Saving a client that has recorded the next event of a sender.           *)
LEMMA LedgerDecrypts ==
  ASSUME NEW S \in [Devices -> MlsClient \cup {NoClient}],
         NEW A \in SUBSET ApplicationMessage, NEW D \in SUBSET EventIds,
         Ledger(S, A, D), NEW d \in Devices, S[d] # NoClient,
         NEW k \in MlsClient, NEW m \in A, Decrypts(d, S[d], k, m)
  PROVE  Ledger([S EXCEPT ![d] = k], A, D)
<1> DEFINE T == [S EXCEPT ![d] = k]
<1>1. S[d] \in MlsClient /\ k # NoClient
  BY NoClientAssumption
<1>2. PICK c \in MlsClient : c = S[d]
  BY <1>1
<1>3. Decrypts(d, c, k, m) /\ Received(d, c, A) /\ Unique(A)
  BY <1>2 DEF Ledger
<1>4. \A n \in A : Behind(n, T[n.sender], D)
  <2> SUFFICES ASSUME NEW n \in A PROVE Behind(n, T[n.sender], D)
    OBVIOUS
  <2>1. Behind(n, S[n.sender], D) /\ n.sender \in Devices
    BY MessageTypes DEF Ledger
  <2>2. CASE n.sender = d
    <3>1. Behind(n, c, D) /\ T[n.sender] = k
      BY <2>1, <2>2, <1>2
    <3> QED BY <3>1, <1>1, <1>3 DEF Behind, Decrypts
  <2> QED BY <2>1, <2>2
<1>5. /\ m.sender \in Devices /\ m.event.sender_device_id = m.sender
      /\ m.event.sender_counter \in Nat \ {0}
  BY MessageTypes DEF Ledger, Behind
<1>6. PICK s \in Devices, id \in EventIds, count \in Nat, chain \in SenderChain :
        /\ s = m.sender /\ id = m.event.event_id /\ count = m.event.sender_counter
        /\ chain = c.incoming_chains[s]
  BY <1>5, ClientTypes, MessageTypes
<1>7. chain.counter \in Nat /\ count = chain.counter + 1 /\ id \notin c.seen_event_ids
  BY <1>3, <1>5, <1>6, ChainTypes DEF Decrypts, Admits, NextInChain, NextCounter
<1>8. /\ k.seen_event_ids = c.seen_event_ids \cup {id}
      /\ k.group = c.group
      /\ k.spent = c.spent \cup {<<s, m.generation>>}
      /\ k.incoming_chains[s].counter = count
      /\ \A t \in Devices : t # s => k.incoming_chains[t] = c.incoming_chains[t]
      /\ s # d /\ m.group = c.group
  BY <1>3, <1>5, <1>6, ClientTypes DEF Decrypts, ChainAfter
<1>9. Received(d, k, A)
  <2>1. \A i \in k.seen_event_ids : \E n \in A : n.event.event_id = i
    BY <1>3, <1>6, <1>8 DEF Received
  <2>2. \A t \in Devices \ {d} : Prefix(k.incoming_chains[t], t, k.seen_event_ids, A)
    <3> SUFFICES ASSUME NEW t \in Devices \ {d}
                 PROVE  Prefix(k.incoming_chains[t], t, k.seen_event_ids, A)
      OBVIOUS
    <3>1. Prefix(c.incoming_chains[t], t, c.seen_event_ids, A)
      BY <1>3 DEF Received
    <3>2. CASE t # s
      <4>1. \A n \in A : n.sender = t =>
              (n.event.event_id \in k.seen_event_ids <=> n.event.event_id \in c.seen_event_ids)
        BY <1>3, <1>6, <1>8, <3>2 DEF Unique
      <4> QED BY <3>1, <3>2, <4>1, <1>8 DEF Prefix
    <3>3. CASE t = s
      <4>1. \A n \in 1 .. count : \E x \in A : x.sender = s /\ x.event.sender_counter = n
        <5> SUFFICES ASSUME NEW n \in 1 .. count
                     PROVE  \E x \in A : x.sender = s /\ x.event.sender_counter = n
          OBVIOUS
        <5>1. CASE n = count
          BY <5>1, <1>6
        <5>2. CASE n # count
          <6>1. n \in 1 .. chain.counter
            BY <5>2, <1>7
          <6> QED BY <6>1, <3>1, <3>3, <1>6 DEF Prefix
        <5> QED BY <5>1, <5>2
      <4>2. ASSUME NEW n \in A, n.sender = s
            PROVE  n.event.sender_counter <= count <=> n.event.event_id \in k.seen_event_ids
        <5>1. n.event.sender_counter \in Nat
          BY MessageTypes
        <5>2. n.event.sender_counter <= chain.counter <=> n.event.event_id \in c.seen_event_ids
          BY <3>1, <3>3, <4>2, <1>6 DEF Prefix
        <5>3. n.event.sender_counter = count <=> n.event.event_id = id
          BY <1>3, <1>6, <4>2 DEF Unique
        <5>4. n.event.sender_counter <= count <=>
                (n.event.sender_counter <= chain.counter \/ n.event.sender_counter = count)
          BY <5>1, <1>7
        <5> QED BY <5>2, <5>3, <5>4, <1>8
      <4> QED BY <4>1, <4>2, <3>3, <1>8 DEF Prefix
    <3> QED BY <3>2, <3>3
  <2>3. ASSUME NEW key \in k.spent
        PROVE  \E n \in A :
                 /\ n.sender = key[1] /\ n.sender # d
                 /\ n.group = k.group /\ n.generation = key[2]
                 /\ n.event.sender_counter <= k.incoming_chains[n.sender].counter
    <3>1. CASE key \in c.spent
      <4>1. PICK n \in A :
              /\ n.sender = key[1] /\ n.sender # d
              /\ n.group = c.group /\ n.generation = key[2]
              /\ n.event.sender_counter <= c.incoming_chains[n.sender].counter
        BY <3>1, <1>3 DEF Received
      <4>2. n.event.sender_counter \in Nat /\ n.sender \in Devices
        BY MessageTypes
      <4>3. n.event.sender_counter <= k.incoming_chains[n.sender].counter
        BY <4>1, <4>2, <1>6, <1>7, <1>8
      <4> QED BY <4>1, <4>3, <1>8
    <3>2. CASE key = <<s, m.generation>>
      <4>1. m.event.sender_counter <= k.incoming_chains[m.sender].counter
        BY <1>6, <1>8
      <4> QED BY <3>2, <4>1, <1>6, <1>8
    <3> QED BY <3>1, <3>2, <1>8
  <2> QED BY <2>1, <2>2, <2>3 DEF Received
<1>10. \A e \in Devices : T[e] # NoClient => Received(e, T[e], A)
  BY <1>9 DEF Ledger
<1> QED BY <1>3, <1>4, <1>10 DEF Ledger

(* Saving a client together with the event it has encrypted.               *)
LEMMA LedgerEncrypts ==
  ASSUME NEW S \in [Devices -> MlsClient \cup {NoClient}],
         NEW A \in SUBSET ApplicationMessage, NEW D \in SUBSET EventIds,
         Ledger(S, A, D), NEW d \in Devices, S[d] # NoClient,
         NEW k \in MlsClient, NEW m \in ApplicationMessage, Encrypts(d, S[d], k, m),
         m.event.event_id \in D, \A n \in A : n.event.event_id # m.event.event_id
  PROVE  Ledger([S EXCEPT ![d] = k], A \cup {m}, D)
<1> DEFINE T == [S EXCEPT ![d] = k]
           B == A \cup {m}
<1>1. S[d] \in MlsClient /\ k # NoClient
  BY NoClientAssumption
<1>2. PICK c \in MlsClient : c = S[d]
  BY <1>1
<1>3. Encrypts(d, c, k, m) /\ Received(d, c, A) /\ Unique(A)
  BY <1>2 DEF Ledger
<1>4. PICK sent \in Nat, made \in Nat : sent = c.outgoing_chain.counter /\ made = c.generation
  BY ClientTypes, ChainTypes
<1>5. /\ m.event.sender_counter = sent + 1 /\ k.outgoing_chain.counter = sent + 1
      /\ m.generation = made + 1 /\ k.generation = made + 1
      /\ m.sender = d /\ m.group = c.group /\ k.group = c.group
      /\ k.seen_event_ids = c.seen_event_ids \cup {m.event.event_id}
      /\ k.incoming_chains = c.incoming_chains /\ k.spent = c.spent
  BY <1>3, <1>4 DEF Encrypts, ChainAfter
<1>6. ASSUME NEW n \in A, n.sender = d
      PROVE  /\ Behind(n, c, D)
             /\ n.event.sender_counter \in Nat /\ n.event.sender_counter <= sent
             /\ n.generation \in Nat /\ (n.group = c.group => n.generation <= made)
  BY <1>6, <1>2, <1>4, MessageTypes DEF Ledger, Behind
<1>7. \A n \in B : Behind(n, T[n.sender], D)
  <2>1. ASSUME NEW n \in A PROVE Behind(n, T[n.sender], D)
    <3>1. Behind(n, S[n.sender], D) /\ n.sender \in Devices
      BY MessageTypes DEF Ledger
    <3>2. CASE n.sender = d
      <4>1. T[n.sender] = k
        BY <3>2
      <4>2. n.event.sender_counter <= k.outgoing_chain.counter
        BY <1>5, <1>6, <3>2
      <4>3. n.group = k.group => n.generation <= k.generation
        BY <1>5, <1>6, <3>2
      <4> QED BY <4>1, <4>2, <4>3, <1>1, <1>5, <1>6, <3>2 DEF Behind
    <3> QED BY <3>1, <3>2
  <2>2. Behind(m, T[m.sender], D)
    <3>1. T[m.sender] = k /\ Len(c.group) \in Nat
      BY <1>5, ClientTypes, GroupLength
    <3> QED BY <3>1, <1>1, <1>3, <1>5 DEF Behind, Encrypts
  <2> QED BY <2>1, <2>2
<1>8. Unique(B)
  <2>1. \A x, y \in B : x.event.event_id = y.event.event_id => x = y
    BY <1>3 DEF Unique
  <2>2. \A x \in A : x.sender = m.sender => x.event.sender_counter # m.event.sender_counter
    BY <1>5, <1>6
  <2>3. \A x, y \in B :
          x.sender = y.sender /\ x.event.sender_counter = y.event.sender_counter => x = y
    BY <1>3, <2>2 DEF Unique
  <2>4. \A x \in A : x.sender = m.sender /\ x.group = m.group => x.generation # m.generation
    BY <1>5, <1>6
  <2>5. \A x, y \in B :
          x.sender = y.sender /\ x.group = y.group /\ x.generation = y.generation => x = y
    BY <1>3, <2>4 DEF Unique
  <2> QED BY <2>1, <2>3, <2>5 DEF Unique
<1>9. ASSUME NEW e \in Devices, NEW b \in MlsClient, Received(e, b, A), e # d
      PROVE  Received(e, b, B)
  <2>1. m.event.event_id \notin b.seen_event_ids
    BY <1>9 DEF Received
  <2>2. ASSUME NEW t \in Devices \ {e}
        PROVE  Prefix(b.incoming_chains[t], t, b.seen_event_ids, B)
    <3>1. Prefix(b.incoming_chains[t], t, b.seen_event_ids, A) /\ b.incoming_chains[t].counter \in Nat
      BY <1>9, ClientTypes, ChainTypes DEF Received
    <3>2. CASE t = d
      <4>1. b.incoming_chains[t].counter <= sent
        <5>1. CASE b.incoming_chains[t].counter = 0
          BY <5>1
        <5>2. CASE b.incoming_chains[t].counter # 0
          <6>1. b.incoming_chains[t].counter \in 1 .. b.incoming_chains[t].counter
            BY <5>2, <3>1
          <6>2. PICK n \in A : n.sender = t /\ n.event.sender_counter = b.incoming_chains[t].counter
            BY <6>1, <3>1 DEF Prefix
          <6> QED BY <6>2, <3>2, <1>6
        <5> QED BY <5>1, <5>2
      <4>2. ~(m.event.sender_counter <= b.incoming_chains[t].counter)
        BY <4>1, <3>1, <1>5
      <4> QED BY <3>1, <4>2, <2>1 DEF Prefix
    <3>3. CASE t # d
      BY <3>1, <3>3, <1>5 DEF Prefix
    <3> QED BY <3>2, <3>3
  <2> QED BY <2>2, <1>9 DEF Received
<1>10. Received(d, k, B)
  <2>1. \A t \in Devices \ {d} : Prefix(k.incoming_chains[t], t, k.seen_event_ids, B)
    <3> SUFFICES ASSUME NEW t \in Devices \ {d}
                 PROVE  Prefix(k.incoming_chains[t], t, k.seen_event_ids, B)
      OBVIOUS
    <3>1. Prefix(c.incoming_chains[t], t, c.seen_event_ids, A)
      BY <1>3 DEF Received
    <3>2. \A n \in B : n.sender = t => n \in A /\ n.event.event_id # m.event.event_id
      BY <1>5
    <3> QED BY <3>1, <3>2, <1>5 DEF Prefix
  <2>2. \A id \in k.seen_event_ids : \E n \in B : n.event.event_id = id
    BY <1>3, <1>5 DEF Received
  <2>3. \A key \in k.spent :
          \E n \in B :
            /\ n.sender = key[1] /\ n.sender # d
            /\ n.group = k.group /\ n.generation = key[2]
            /\ n.event.sender_counter <= k.incoming_chains[n.sender].counter
    BY <1>3, <1>5 DEF Received
  <2> QED BY <2>1, <2>2, <2>3 DEF Received
<1>11. \A e \in Devices : T[e] # NoClient => Received(e, T[e], B)
  BY <1>9, <1>10 DEF Ledger
<1> QED BY <1>7, <1>8, <1>11 DEF Ledger
-----------------------------------------------------------------------------
(***************************************************************************)
(* The inductive invariant.                                                *)
(***************************************************************************)
(* What each device would load after a restart.                            *)
Saved ==
  [d \in Devices |-> IF vault[d] = NoClient THEN NoClient ELSE DecodeSnapshot(vault[d])]

(* Every snapshot in a vault is the encoding of what it decodes to.        *)
Stored ==
  \A d \in Devices :
    vault[d] # NoClient => Tidy(Saved[d]) /\ vault[d] = EncodeSnapshot(Saved[d])

(* The client in memory is the one in the vault, except while an operation *)
(* waits for its checkpoint; it can then be restored from `previous'.      *)
MemoryInStep ==
  \A d \in Devices :
    /\ client[d] # NoClient => vault[d] # NoClient /\ Tidy(client[d])
    /\ work[d] # Nothing => client[d] # NoClient
    /\ client[d] # NoClient /\ work[d].step # "save" => client[d] = Saved[d]
    /\ work[d].step = "save" => work[d].previous = vault[d]

(* What operation w, from c to k, may be waiting for its checkpoint.       *)
Waiting(d, w, c, k, A, D) ==
  \/ /\ w.plaintext = {} /\ \A m \in w.messages : m.kind # "application"
     /\ ChangesGroup(c, k)
  \/ /\ w.plaintext = {}
     /\ \E m \in w.messages :
          /\ w.messages = {m} /\ m.kind = "application"
          /\ m.event.event_id \in D
          /\ \A n \in A : n.event.event_id # m.event.event_id
          /\ Encrypts(d, c, k, m)
  \/ /\ w.messages = {}
     /\ \E m \in A : w.plaintext = {m.event} /\ Decrypts(d, c, k, m)

Pending ==
  \A d \in Devices :
    work[d].step = "save" => Waiting(d, work[d], Saved[d], client[d], Application, drawn)

(* Two devices do not encrypt events with the same identifier.             *)
PendingDistinct ==
  \A d, e \in Devices : d # e /\ work[d].step = "save" /\ work[e].step = "save" =>
    \A m \in work[d].messages, n \in work[e].messages :
      m.kind = "application" /\ n.kind = "application" => m.event.event_id # n.event.event_id

(* The events of other devices that a vault has recorded, those its caller *)
(* was given, and the one being returned.                                  *)
Recorded(d) ==
  {m.event : m \in {n \in Application :
     n.sender # d /\ vault[d] # NoClient /\ n.event.event_id \in vault[d].seen_event_ids}}

Given(d) == {shown[d][i] : i \in DOMAIN shown[d]}

Returning(d) == IF work[d].step = "return" THEN work[d].plaintext ELSE {}

(* What is returned has been saved, comes after all that was shown, and is *)
(* one event at most.                                                      *)
Delivering(d) ==
  /\ work[d].step = "return" => \A m \in work[d].messages : m.kind = "application" => m \in network
  /\ Returning(d) \cup Given(d) \subseteq Recorded(d)
  /\ \A e \in Returning(d) :
       /\ Returning(d) = {e}
       /\ \A f \in Given(d) :
            f.sender_device_id = e.sender_device_id => f.sender_counter < e.sender_counter

Lost(d) == Recorded(d) \ (Given(d) \cup Returning(d))

Losses(d) == IsFiniteSet(Lost(d)) /\ Cardinality(Lost(d)) <= failures

MInv ==
  /\ TypeOK
  /\ Stored
  /\ Ledger(Saved, Application, drawn)
  /\ MemoryInStep
  /\ Pending
  /\ PendingDistinct
  /\ \A d \in Devices : Delivering(d)
  /\ ShownInOrder
  /\ \A d \in Devices : Losses(d)

-----------------------------------------------------------------------------
(***************************************************************************)
(* Facts about the state.                                                  *)
(***************************************************************************)
(* The fields of an operation under way.                                   *)
LEMMA WorkTypes ==
  ASSUME NEW w \in Work
  PROVE  /\ w.step \in {"none", "save", "return"}
         /\ w.step = "none" <=> w = Nothing
         /\ w # Nothing => /\ w \in [step : {"save", "return"}, previous : MlsClientSnapshot,
                                     messages : SUBSET Messages, plaintext : SUBSET PlaintextEvent]
                           /\ w.messages \in SUBSET Messages
                           /\ w.plaintext \in SUBSET PlaintextEvent
                           /\ w.previous \in MlsClientSnapshot
BY DEF Work, Nothing

(* The kind of a message says which fields it has.                         *)
LEMMA ApplicationIsApplication ==
  ASSUME NEW m \in Messages, m.kind = "application"
  PROVE  m \in ApplicationMessage
<1>1. m \notin [kind : {"package"}, device : Devices, package : Nat]
  OBVIOUS
<1>2. m \notin [kind : {"commit"}, group : Group, sender : Devices]
  OBVIOUS
<1>3. m \notin [kind : {"welcome"}, group : Group, device : Devices, package : Nat]
  OBVIOUS
<1> QED BY <1>1, <1>2, <1>3 DEF Messages, ApplicationMessage

(* What has been released are application messages.                        *)
LEMMA ApplicationTypes ==
  ASSUME TypeOK
  PROVE  Application \in SUBSET ApplicationMessage
<1>1. \A m \in Application : m \in Messages /\ m.kind = "application"
  BY DEF TypeOK, Application
<1> QED BY <1>1, ApplicationIsApplication

(* What the snapshots in the vaults decode to.                             *)
LEMMA SavedTypes ==
  ASSUME TypeOK, Stored
  PROVE  /\ Saved \in [Devices -> MlsClient \cup {NoClient}]
         /\ \A d \in Devices :
              /\ Saved[d] = NoClient <=> vault[d] = NoClient
              /\ vault[d] # NoClient =>
                   /\ Saved[d] = DecodeSnapshot(vault[d])
                   /\ Tidy(Saved[d]) /\ Saved[d] \in MlsClient
                   /\ vault[d] = EncodeSnapshot(Saved[d])
                   /\ Decodes(vault[d])
                   /\ vault[d].seen_event_ids = Saved[d].seen_event_ids
<1>1. ASSUME NEW d \in Devices, vault[d] # NoClient
      PROVE  /\ Saved[d] = DecodeSnapshot(vault[d])
             /\ Tidy(Saved[d]) /\ Saved[d] \in MlsClient
             /\ vault[d] = EncodeSnapshot(Saved[d])
  <2>1. Saved[d] = DecodeSnapshot(vault[d])
    BY <1>1 DEF Saved
  <2>2. Tidy(Saved[d]) /\ vault[d] = EncodeSnapshot(Saved[d])
    BY <1>1 DEF Stored
  <2> QED BY <2>1, <2>2 DEF Tidy
<1>2. ASSUME NEW d \in Devices, vault[d] # NoClient
      PROVE  Decodes(vault[d]) /\ vault[d].seen_event_ids = Saved[d].seen_event_ids
  BY <1>1, <1>2, SnapshotRoundTrip
<1>3. ASSUME NEW d \in Devices, vault[d] = NoClient
      PROVE  Saved[d] = NoClient
  BY <1>3 DEF Saved
<1>4. \A d \in Devices : Saved[d] \in MlsClient \cup {NoClient}
  BY <1>1, <1>3
<1>5. \A d \in Devices : Saved[d] = NoClient <=> vault[d] = NoClient
  BY <1>1, <1>3, NoClientAssumption
<1>6. Saved \in [Devices -> MlsClient \cup {NoClient}]
  BY <1>4 DEF Saved
<1> QED BY <1>1, <1>2, <1>5, <1>6

(* A vault that takes a client's snapshot.                                 *)
LEMMA SavedAfter ==
  ASSUME TypeOK, Stored, NEW d \in Devices, NEW k, Tidy(k),
         vault' = [vault EXCEPT ![d] = EncodeSnapshot(k)]
  PROVE  /\ Saved' = [Saved EXCEPT ![d] = k]
         /\ Stored'
         /\ vault'[d] # NoClient
         /\ vault'[d].seen_event_ids = k.seen_event_ids
         /\ \A e \in Devices : e # d => vault'[e] = vault[e]
         /\ vault' \in [Devices -> MlsClientSnapshot \cup {NoClient}]
<1>1. /\ EncodeSnapshot(k) \in MlsClientSnapshot /\ EncodeSnapshot(k) # NoClient
      /\ DecodeSnapshot(EncodeSnapshot(k)) = k
      /\ EncodeSnapshot(k).seen_event_ids = k.seen_event_ids
  BY SnapshotRoundTrip
<1>2. vault \in [Devices -> MlsClientSnapshot \cup {NoClient}]
  BY DEF TypeOK
<1>3. vault'[d] = EncodeSnapshot(k) /\ \A e \in Devices : e # d => vault'[e] = vault[e]
  BY <1>2
<1>4. Saved'[d] = k
  BY <1>1, <1>3 DEF Saved
<1>5. \A e \in Devices : e # d => Saved'[e] = Saved[e]
  BY <1>3 DEF Saved
<1>6. Saved' = [Saved EXCEPT ![d] = k]
  <2>1. Saved' = [e \in Devices |-> Saved'[e]] /\ Saved = [e \in Devices |-> Saved[e]]
    BY DEF Saved
  <2>2. \A e \in Devices : Saved'[e] = [Saved EXCEPT ![d] = k][e]
    BY <1>4, <1>5, <2>1
  <2> QED BY <2>1, <2>2
<1>7. Stored'
  <2> SUFFICES ASSUME NEW e \in Devices, vault'[e] # NoClient
               PROVE  Tidy(Saved'[e]) /\ vault'[e] = EncodeSnapshot(Saved'[e])
    BY DEF Stored
  <2>1. CASE e = d
    BY <2>1, <1>3, <1>4
  <2>2. CASE e # d
    BY <2>2, <1>3, <1>5 DEF Stored
  <2> QED BY <2>1, <2>2
<1>8. vault' \in [Devices -> MlsClientSnapshot \cup {NoClient}]
  BY <1>1, <1>2
<1> QED BY <1>1, <1>3, <1>6, <1>7, <1>8

(* A step that leaves vaults, network and history alone.                   *)
LEMMA Quiet ==
  ASSUME MInv, UNCHANGED <<vault, network, shown>>
  PROVE  /\ Saved' = Saved
         /\ Application' = Application
         /\ Stored'
         /\ ShownInOrder'
         /\ \A d \in Devices : Recorded(d)' = Recorded(d) /\ Given(d)' = Given(d)
<1>1. Saved' = Saved
  BY DEF Saved
<1>2. Application' = Application
  BY DEF Application
<1>3. Stored'
  BY <1>1 DEF MInv, Stored
<1>4. ShownInOrder'
  BY DEF MInv, ShownInOrder
<1>5. \A d \in Devices : Recorded(d)' = Recorded(d) /\ Given(d)' = Given(d)
  BY <1>2 DEF Recorded, Given
<1> QED BY <1>1, <1>2, <1>3, <1>4, <1>5

(* A message that waits for its checkpoint has an identifier of its own.   *)
LEMMA PendingDrawn ==
  ASSUME MInv, NEW d \in Devices, work[d].step = "save",
         NEW m \in work[d].messages, m.kind = "application"
  PROVE  /\ m.event.event_id \in drawn
         /\ work[d].messages = {m} /\ work[d].plaintext = {}
         /\ \A n \in Application : n.event.event_id # m.event.event_id
         /\ Encrypts(d, Saved[d], client[d], m)
<1>1. Waiting(d, work[d], Saved[d], client[d], Application, drawn)
  BY DEF MInv, Pending
<1>2. PICK n \in work[d].messages :
        /\ work[d].plaintext = {}
        /\ work[d].messages = {n} /\ n.kind = "application"
        /\ n.event.event_id \in drawn
        /\ \A o \in Application : o.event.event_id # n.event.event_id
        /\ Encrypts(d, Saved[d], client[d], n)
  BY <1>1 DEF Waiting
<1>3. n = m
  BY <1>2
<1> QED BY <1>2, <1>3

(* What waits for a checkpoint still does after more identifiers have been *)
(* drawn and other events released.                                        *)
LEMMA StillWaiting ==
  ASSUME NEW d, NEW w, NEW c, NEW k, NEW A, NEW D, NEW B, NEW E,
         Waiting(d, w, c, k, A, D), A \subseteq B, D \subseteq E,
         \A m \in w.messages : m.kind = "application" =>
           \A n \in B \ A : n.event.event_id # m.event.event_id
  PROVE  Waiting(d, w, c, k, B, E)
BY DEF Waiting
-----------------------------------------------------------------------------
(***************************************************************************)
(* The steps.                                                              *)
(***************************************************************************)
(* The invariant holds before any device has a client.                     *)
LEMMA InitInv == Init => MInv
<1> SUFFICES ASSUME Init PROVE MInv
  OBVIOUS
<1>1. TypeOK
  BY DEF Init, TypeOK, Work, Nothing
<1>2. /\ \A d \in Devices : /\ client[d] = NoClient /\ vault[d] = NoClient
                            /\ work[d] = Nothing /\ shown[d] = <<>>
      /\ Application = {} /\ failures = 0 /\ Nothing.step = "none"
  BY DEF Init, Application, Nothing
<1>3. Stored /\ MemoryInStep /\ Pending /\ PendingDistinct
  BY <1>2 DEF Stored, MemoryInStep, Pending, PendingDistinct
<1>4. Ledger(Saved, Application, drawn)
  BY <1>2 DEF Ledger, Unique, Saved
<1>5. ShownInOrder
  BY <1>2 DEF ShownInOrder
<1>6. \A d \in Devices : Recorded(d) = {} /\ Given(d) = {} /\ Returning(d) = {}
  BY <1>2 DEF Recorded, Given, Returning
<1>7. \A d \in Devices : Delivering(d)
  BY <1>2, <1>6 DEF Delivering
<1>8. \A d \in Devices : Losses(d)
  <2>1. \A d \in Devices : Lost(d) = {}
    BY <1>6 DEF Lost
  <2>2. IsFiniteSet({}) /\ Cardinality({}) <= failures
    <3>1. IsFiniteSet({}) /\ Cardinality({}) = 0
      BY FS_EmptySet
    <3> QED BY <1>2, <3>1
  <2>3. ASSUME NEW d \in Devices PROVE Losses(d)
    <3>1. Lost(d) = {}
      BY <2>1
    <3> QED BY <3>1, <2>2 DEF Losses
  <2> QED BY <2>3
<1> QED BY <1>1, <1>3, <1>4, <1>5, <1>7, <1>8 DEF MInv

(* A device gets its first client.                                         *)
LEMMA CreateStep ==
  ASSUME MInv, NEW d \in Devices, Create(d)
  PROVE  MInv'
<1>1. Tidy(NewClient)
  BY DEF Tidy, NewClient, MlsClient, NoChain, SenderChain, NoGroup, Group
<1>2. /\ client[d] = NoClient /\ vault[d] = NoClient
      /\ client' = [client EXCEPT ![d] = NewClient]
      /\ vault' = [vault EXCEPT ![d] = EncodeSnapshot(NewClient)]
      /\ UNCHANGED <<work, network, shown, drawn, failures>>
      /\ TypeOK /\ Stored /\ Ledger(Saved, Application, drawn)
  BY DEF MInv, Create
<1>3. /\ Saved' = [Saved EXCEPT ![d] = NewClient]
      /\ Stored'
      /\ vault'[d] # NoClient /\ vault'[d].seen_event_ids = {}
      /\ \A e \in Devices : e # d => vault'[e] = vault[e]
      /\ vault' \in [Devices -> MlsClientSnapshot \cup {NoClient}]
  <2>1. NewClient.seen_event_ids = {}
    BY DEF NewClient
  <2> QED BY <1>1, <1>2, <2>1, SavedAfter
<1>4. TypeOK'
  <2>1. NewClient \in MlsClient
    BY <1>1 DEF Tidy
  <2> QED BY <1>2, <1>3, <2>1 DEF TypeOK
<1>5. /\ Application' = Application
      /\ Saved \in [Devices -> MlsClient \cup {NoClient}] /\ Saved[d] = NoClient
  BY <1>2, SavedTypes DEF Application
<1>6. Ledger(Saved, Application, drawn)'
  <2>1. Application \in SUBSET ApplicationMessage /\ drawn \in SUBSET EventIds
    BY <1>2, ApplicationTypes DEF TypeOK
  <2>2. Ledger([Saved EXCEPT ![d] = NewClient], Application, drawn)
    BY <1>2, <1>5, <2>1, LedgerNewClient
  <2> QED BY <1>2, <1>3, <1>5, <2>2
<1>7. work[d] = Nothing /\ work[d].step = "none"
  <2>1. work[d] = Nothing
    BY <1>2 DEF MInv, MemoryInStep
  <2> QED BY <2>1 DEF Nothing
<1>8. /\ client'[d] = NewClient /\ Saved'[d] = NewClient
      /\ \A e \in Devices : e # d => client'[e] = client[e] /\ Saved'[e] = Saved[e]
  BY <1>2, <1>3, <1>5 DEF TypeOK
<1>9. MemoryInStep'
  BY <1>1, <1>2, <1>3, <1>7, <1>8 DEF MInv, MemoryInStep
<1>10. Pending'
  BY <1>2, <1>5, <1>7, <1>8 DEF MInv, Pending
<1>11. PendingDistinct' /\ ShownInOrder'
  BY <1>2 DEF MInv, PendingDistinct, ShownInOrder
<1>12. \A e \in Devices : /\ Recorded(e)' = Recorded(e) /\ Given(e)' = Given(e)
                          /\ Returning(e)' = Returning(e)
  <2>1. Recorded(d)' = {} /\ Recorded(d) = {}
    BY <1>2, <1>3 DEF Recorded
  <2>2. \A e \in Devices : e # d => Recorded(e)' = Recorded(e)
    BY <1>3, <1>5 DEF Recorded
  <2> QED BY <1>2, <2>1, <2>2 DEF Given, Returning
<1>13. \A e \in Devices : Delivering(e)'
  BY <1>2, <1>12 DEF MInv, Delivering
<1>14. \A e \in Devices : Losses(e)'
  BY <1>2, <1>12 DEF MInv, Losses, Lost
<1> QED BY <1>3, <1>4, <1>6, <1>9, <1>10, <1>11, <1>13, <1>14 DEF MInv

(* A restart loads what the vault holds.                                   *)
LEMMA LoadStep ==
  ASSUME MInv, NEW d \in Devices, Load(d)
  PROVE  MInv'
<1>1. /\ client[d] = NoClient /\ vault[d] # NoClient
      /\ client' = [client EXCEPT ![d] = DecodeSnapshot(vault[d])]
      /\ UNCHANGED <<vault, work, network, shown, drawn, failures>>
      /\ TypeOK /\ Stored
  BY DEF MInv, Load
<1>2. /\ Saved[d] = DecodeSnapshot(vault[d]) /\ Tidy(Saved[d]) /\ Saved[d] \in MlsClient
  BY <1>1, SavedTypes
<1>3. /\ Saved' = Saved /\ Application' = Application /\ Stored' /\ ShownInOrder'
      /\ \A e \in Devices : Recorded(e)' = Recorded(e) /\ Given(e)' = Given(e)
  BY <1>1, Quiet
<1>4. TypeOK'
  BY <1>1, <1>2 DEF TypeOK
<1>5. work[d] = Nothing /\ work[d].step = "none"
  <2>1. work[d] = Nothing
    BY <1>1 DEF MInv, MemoryInStep
  <2> QED BY <2>1 DEF Nothing
<1>6. client'[d] = Saved[d] /\ \A e \in Devices : e # d => client'[e] = client[e]
  BY <1>1, <1>2 DEF TypeOK
<1>7. MemoryInStep'
  BY <1>1, <1>2, <1>3, <1>5, <1>6 DEF MInv, MemoryInStep
<1>8. Pending'
  BY <1>1, <1>3, <1>5, <1>6 DEF MInv, Pending
<1>9. PendingDistinct'
  BY <1>1 DEF MInv, PendingDistinct
<1>10. \A e \in Devices : Returning(e)' = Returning(e)
  BY <1>1 DEF Returning
<1>11. \A e \in Devices : Delivering(e)'
  BY <1>1, <1>3, <1>10 DEF MInv, Delivering
<1>12. \A e \in Devices : Losses(e)'
  BY <1>1, <1>3, <1>10 DEF MInv, Losses, Lost
<1>13. Ledger(Saved, Application, drawn)'
  BY <1>1, <1>3 DEF MInv
<1> QED BY <1>3, <1>4, <1>7, <1>8, <1>9, <1>11, <1>12, <1>13 DEF MInv

(* Any operation: the client in memory changes, the vault does not yet.    *)
LEMMA OperateStep ==
  ASSUME MInv, NEW d \in Devices, Ready(d), NEW k, Tidy(k),
         NEW M \in SUBSET Messages, NEW P \in SUBSET PlaintextEvent,
         Operate(d, k, M, P),
         drawn' \in SUBSET EventIds, drawn \subseteq drawn',
         \A m \in M : m.kind = "application" => m.event.event_id \notin drawn,
         \A w : w.messages = M /\ w.plaintext = P =>
           Waiting(d, w, client[d], k, Application, drawn')
  PROVE  MInv'
<1>1. PICK w : w = [step |-> "save", previous |-> EncodeSnapshot(client[d]),
                    messages |-> M, plaintext |-> P]
  OBVIOUS
<1>2. /\ client' = [client EXCEPT ![d] = k]
      /\ work' = [work EXCEPT ![d] = w]
      /\ UNCHANGED <<vault, network, shown, failures>>
      /\ client[d] # NoClient /\ work[d] = Nothing
      /\ TypeOK /\ Stored
  BY <1>1 DEF Operate, Ready, MInv
<1>3. /\ client[d] = Saved[d] /\ vault[d] # NoClient /\ Tidy(client[d])
      /\ EncodeSnapshot(client[d]) = vault[d]
  <2>1. work[d].step # "save"
    BY <1>2 DEF Nothing
  <2>2. client[d] = Saved[d] /\ vault[d] # NoClient /\ Tidy(client[d])
    BY <1>2, <2>1 DEF MInv, MemoryInStep
  <2> QED BY <1>2, <2>2 DEF Stored
<1>4. /\ w.step = "save" /\ w.previous = vault[d] /\ w.messages = M /\ w.plaintext = P
      /\ w # Nothing
      /\ w \in Work
  <2>1. w.step = "save" /\ w.previous = vault[d] /\ w.messages = M /\ w.plaintext = P
    BY <1>1, <1>3
  <2>2. w # Nothing
    BY <2>1 DEF Nothing
  <2>3. vault[d] \in MlsClientSnapshot
    BY <1>2, <1>3 DEF TypeOK
  <2>4. w \in Work
    BY <1>1, <1>3, <2>3 DEF Work
  <2> QED BY <2>1, <2>2, <2>4
<1>5. /\ client'[d] = k /\ work'[d] = w
      /\ \A e \in Devices : e # d => client'[e] = client[e] /\ work'[e] = work[e]
  BY <1>2 DEF TypeOK
<1>6. /\ Saved' = Saved /\ Application' = Application /\ Stored' /\ ShownInOrder'
      /\ \A e \in Devices : Recorded(e)' = Recorded(e) /\ Given(e)' = Given(e)
  BY <1>2, Quiet
<1>7. TypeOK'
  <2>1. k \in MlsClient
    BY DEF Tidy
  <2> QED BY <1>2, <1>4, <2>1 DEF TypeOK
<1>8. k # NoClient
  BY NoClientAssumption DEF Tidy
<1>9. MemoryInStep'
  <2> SUFFICES ASSUME NEW e \in Devices
               PROVE  /\ client'[e] # NoClient => vault'[e] # NoClient /\ Tidy(client'[e])
                      /\ work'[e] # Nothing => client'[e] # NoClient
                      /\ client'[e] # NoClient /\ work'[e].step # "save" => client'[e] = Saved'[e]
                      /\ work'[e].step = "save" => work'[e].previous = vault'[e]
    BY DEF MemoryInStep
  <2>1. CASE e = d
    BY <2>1, <1>2, <1>3, <1>4, <1>5, <1>8
  <2>2. CASE e # d
    BY <2>2, <1>2, <1>5, <1>6 DEF MInv, MemoryInStep
  <2> QED BY <2>1, <2>2
<1>10. Pending'
  <2> SUFFICES ASSUME NEW e \in Devices, work'[e].step = "save"
               PROVE  Waiting(e, work'[e], Saved'[e], client'[e], Application', drawn')
    BY DEF Pending
  <2>1. CASE e = d
    <3>1. Waiting(d, w, client[d], k, Application, drawn')
      BY <1>4
    <3> QED BY <2>1, <3>1, <1>3, <1>5, <1>6
  <2>2. CASE e # d
    <3>1. Waiting(e, work[e], Saved[e], client[e], Application, drawn)
      BY <2>2, <1>5 DEF MInv, Pending
    <3>2. Waiting(e, work[e], Saved[e], client[e], Application, drawn')
      BY <3>1, StillWaiting
    <3> QED BY <2>2, <3>2, <1>5, <1>6
  <2> QED BY <2>1, <2>2
<1>11. PendingDistinct'
  <2>1. ASSUME NEW e \in Devices, e # d, work[e].step = "save",
               NEW n \in work[e].messages, n.kind = "application",
               NEW m \in M, m.kind = "application"
        PROVE  m.event.event_id # n.event.event_id
    <3>1. n.event.event_id \in drawn
      BY <2>1, PendingDrawn
    <3> QED BY <3>1, <2>1
  <2>2. PendingDistinct
    BY DEF MInv
  <2> QED BY <2>1, <2>2, <1>4, <1>5 DEF PendingDistinct
<1>12. \A e \in Devices : Returning(e)' = Returning(e)
  <2>1. Returning(d) = {} /\ Returning(d)' = {}
    BY <1>2, <1>4, <1>5 DEF Returning, Nothing
  <2> QED BY <2>1, <1>5 DEF Returning
<1>13. \A e \in Devices : Delivering(e)'
  <2> SUFFICES ASSUME NEW e \in Devices PROVE Delivering(e)'
    OBVIOUS
  <2>1. Delivering(e)
    BY DEF MInv
  <2>2. work'[e].step = "return" =>
          \A m \in work'[e].messages : m.kind = "application" => m \in network'
    BY <2>1, <1>2, <1>4, <1>5 DEF Delivering
  <2> QED BY <2>1, <2>2, <1>6, <1>12 DEF Delivering
<1>14. \A e \in Devices : Losses(e)'
  BY <1>2, <1>6, <1>12 DEF MInv, Losses, Lost
<1>15. Ledger(Saved, Application, drawn)'
  <2>1. Ledger(Saved, Application, drawn')
    BY LedgerDrawn DEF MInv
  <2> QED BY <2>1, <1>6
<1> QED BY <1>6, <1>7, <1>9, <1>10, <1>11, <1>13, <1>14, <1>15 DEF MInv

(* What the guard of an operation gives.                                   *)
LEMMA ReadyClient ==
  ASSUME MInv, NEW d \in Devices, Ready(d)
  PROVE  /\ client[d] = Saved[d] /\ client[d] # NoClient
         /\ vault[d] # NoClient
         /\ Tidy(client[d]) /\ client[d] \in MlsClient
         /\ Received(d, client[d], Application)
<1>1. client[d] # NoClient /\ work[d].step # "save"
  BY DEF Ready, Nothing
<1>2. client[d] = Saved[d] /\ vault[d] # NoClient /\ Tidy(client[d])
  BY <1>1 DEF MInv, MemoryInStep
<1>3. Received(d, Saved[d], Application)
  BY <1>1, <1>2 DEF MInv, Ledger
<1> QED BY <1>1, <1>2, <1>3 DEF Tidy

(* The operations, each shown to be of one of the three kinds.             *)
LEMMA PublishKeyPackageStep ==
  ASSUME MInv, NEW d \in Devices, PublishKeyPackage(d)
  PROVE  MInv'
<1>1. Ready(d) /\ drawn' = drawn
  BY DEF PublishKeyPackage
<1>2. PICK c \in MlsClient : c = client[d] /\ Tidy(c)
  BY <1>1, ReadyClient
<1> DEFINE n == c.next_package + 1
           k == [c EXCEPT !.packages = @ \cup {n}, !.next_package = n]
           M == {[kind |-> "package", device |-> d, package |-> n]}
<1>3. Operate(d, k, M, {})
  BY <1>2 DEF PublishKeyPackage
<1>4. Tidy(k)
  <2>1. n \in Nat /\ c.packages \cup {n} \in SUBSET Nat
    BY ClientTypes
  <2>2. k \in MlsClient /\ k.incoming_chains = c.incoming_chains
    BY <2>1 DEF MlsClient
  <2> HIDE DEF k
  <2> QED BY <1>2, <2>2 DEF Tidy
<1>5. M \in SUBSET Messages
  BY <1>2 DEF Messages, MlsClient
<1>6. ChangesGroup(c, k)
  BY <1>2 DEF ChangesGroup, MlsClient
<1>7. \A m \in M : m.kind # "application"
  OBVIOUS
<1> HIDE DEF k, M
<1>8. \A w : w.messages = M /\ w.plaintext = {} => Waiting(d, w, client[d], k, Application, drawn')
  BY <1>2, <1>6, <1>7 DEF Waiting
<1>9. drawn' \in SUBSET EventIds /\ drawn \subseteq drawn'
  BY <1>1 DEF MInv, TypeOK
<1> QED BY <1>1, <1>3, <1>4, <1>5, <1>7, <1>8, <1>9, OperateStep

LEMMA CreateChannelStep ==
  ASSUME MInv, NEW d \in Devices, CreateChannel(d)
  PROVE  MInv'
<1>1. Ready(d) /\ drawn' = drawn /\ client[d].group = NoGroup
  BY DEF CreateChannel
<1>2. PICK c \in MlsClient : c = client[d] /\ Tidy(c) /\ Received(d, c, Application)
  BY <1>1, ReadyClient
<1>3. PICK g : g = <<[by |-> d, added |-> d]>>
  OBVIOUS
<1>4. g \in Group /\ Len(g) = 1 /\ Len(c.group) = 0
  BY <1>1, <1>2, <1>3 DEF Group, NoGroup
<1> DEFINE k == [c EXCEPT !.group = g]
<1>5. Operate(d, k, {}, {})
  BY <1>2, <1>3 DEF CreateChannel
<1>6. Tidy(k)
  BY <1>2, <1>4 DEF Tidy, MlsClient
<1>7. c.spent = {}
  <2>1. \A m \in Application : m.group # NoGroup
    BY DEF MInv, Ledger, Behind
  <2> QED BY <2>1, <1>1, <1>2 DEF Received
<1>8. ChangesGroup(c, k)
  BY <1>2, <1>4, <1>7 DEF ChangesGroup, MlsClient
<1> HIDE DEF k
<1>9. \A w : w.messages = {} /\ w.plaintext = {} => Waiting(d, w, client[d], k, Application, drawn')
  BY <1>2, <1>8 DEF Waiting
<1>10. drawn' \in SUBSET EventIds /\ drawn \subseteq drawn'
  BY <1>1 DEF MInv, TypeOK
<1> QED BY <1>1, <1>5, <1>6, <1>9, <1>10, OperateStep

LEMMA AddMemberStep ==
  ASSUME MInv, NEW d \in Devices, NEW m \in network, AddMember(d, m)
  PROVE  MInv'
<1>1. Ready(d) /\ drawn' = drawn /\ m.kind = "package" /\ m \in Messages
  BY DEF AddMember, MInv, TypeOK
<1>2. PICK c \in MlsClient : c = client[d] /\ Tidy(c)
  BY <1>1, ReadyClient
<1>3. m.device \in Devices /\ m.package \in Nat
  <2>1. m \in [kind : {"package"}, device : Devices, package : Nat]
    BY <1>1 DEF Messages
  <2> QED BY <2>1
<1>4. PICK entry \in [by : Devices, added : Devices] : entry = [by |-> d, added |-> m.device]
  BY <1>3
<1>5. PICK g : g = Append(c.group, entry)
  OBVIOUS
<1>6. c.group \in Group /\ g \in Group /\ Len(g) > Len(c.group)
  <2>1. c.group \in Seq([by : Devices, added : Devices])
    BY ClientTypes DEF Group
  <2>2. PICK E : E = [by : Devices, added : Devices]
    OBVIOUS
  <2>3. c.group \in Seq(E) /\ entry \in E
    BY <1>4, <2>1, <2>2
  <2>4. g \in Seq(E) /\ Len(g) = Len(c.group) + 1 /\ Len(c.group) \in Nat
    BY <1>5, <2>3
  <2> QED BY <2>2, <2>3, <2>4 DEF Group
<1> DEFINE k == [c EXCEPT !.group = g, !.generation = 0, !.spent = {}]
           commit == [kind |-> "commit", group |-> c.group, sender |-> d]
           welcome == [kind |-> "welcome", group |-> g, device |-> m.device, package |-> m.package]
           M == {commit, welcome}
<1>7. Operate(d, k, M, {})
  BY <1>2, <1>4, <1>5 DEF AddMember
<1>8. Tidy(k)
  BY <1>2, <1>6 DEF Tidy, MlsClient
<1>9. M \in SUBSET Messages
  <2>1. commit \in Messages
    BY <1>6 DEF Messages
  <2>2. welcome \in Messages
    BY <1>3, <1>6 DEF Messages
  <2> QED BY <2>1, <2>2
<1>10. ChangesGroup(c, k)
  BY <1>2, <1>6 DEF ChangesGroup, MlsClient
<1>11. \A n \in M : n.kind # "application"
  OBVIOUS
<1> HIDE DEF k, M
<1>12. \A w : w.messages = M /\ w.plaintext = {} => Waiting(d, w, client[d], k, Application, drawn')
  BY <1>2, <1>10, <1>11 DEF Waiting
<1>13. drawn' \in SUBSET EventIds /\ drawn \subseteq drawn'
  BY <1>1 DEF MInv, TypeOK
<1> QED BY <1>1, <1>7, <1>8, <1>9, <1>11, <1>12, <1>13, OperateStep

LEMMA JoinChannelStep ==
  ASSUME MInv, NEW d \in Devices, NEW m \in network, JoinChannel(d, m)
  PROVE  MInv'
<1>1. /\ Ready(d) /\ drawn' = drawn /\ client[d].group = NoGroup
      /\ m.kind = "welcome" /\ m \in Messages
  BY DEF JoinChannel, MInv, TypeOK
<1>2. PICK c \in MlsClient : c = client[d] /\ Tidy(c) /\ Received(d, c, Application)
  BY <1>1, ReadyClient
<1>3. m.group \in Group
  <2>1. m \in [kind : {"welcome"}, group : Group, device : Devices, package : Nat]
    BY <1>1 DEF Messages
  <2> QED BY <2>1
<1> DEFINE k == [c EXCEPT !.group = m.group, !.packages = @ \ {m.package}]
<1>4. Operate(d, k, {}, {})
  BY <1>2 DEF JoinChannel
<1>5. Tidy(k)
  BY <1>2, <1>3 DEF Tidy, MlsClient
<1>6. c.spent = {}
  <2>1. \A n \in Application : n.group # NoGroup
    BY DEF MInv, Ledger, Behind
  <2> QED BY <2>1, <1>1, <1>2 DEF Received
<1>7. m.group = c.group \/ Len(m.group) > Len(c.group)
  <2>1. c.group = << >> /\ Len(c.group) = 0
    BY <1>1, <1>2 DEF NoGroup
  <2>2. m.group = << >> \/ Len(m.group) > 0
    BY <1>3 DEF Group
  <2> QED BY <2>1, <2>2
<1>8. ChangesGroup(c, k)
  BY <1>2, <1>6, <1>7 DEF ChangesGroup, MlsClient
<1> HIDE DEF k
<1>9. \A w : w.messages = {} /\ w.plaintext = {} => Waiting(d, w, client[d], k, Application, drawn')
  BY <1>2, <1>8 DEF Waiting
<1>10. drawn' \in SUBSET EventIds /\ drawn \subseteq drawn'
  BY <1>1 DEF MInv, TypeOK
<1> QED BY <1>1, <1>4, <1>5, <1>9, <1>10, OperateStep

LEMMA EncryptTextStep ==
  ASSUME MInv, NEW d \in Devices, EncryptText(d)
  PROVE  MInv'
<1>1. Ready(d) /\ client[d].group # NoGroup
  BY DEF EncryptText
<1>2. PICK c \in MlsClient : c = client[d] /\ Tidy(c)
  BY <1>1, ReadyClient
<1> DEFINE event(id) == [event_id |-> id, sender_device_id |-> d,
                         sender_counter |-> NextCounter(c.outgoing_chain),
                         previous_event_hash |-> c.outgoing_chain.event_hash]
<1>3. PICK id \in EventIds \ drawn :
        /\ Operate(d, [c EXCEPT !.outgoing_chain = ChainAfter(event(id)),
                                !.seen_event_ids = @ \cup {id},
                                !.generation = @ + 1],
                   {[kind |-> "application", group |-> c.group, sender |-> d,
                     generation |-> c.generation + 1, event |-> event(id)]}, {})
        /\ drawn' = drawn \cup {id}
  BY <1>2 DEF EncryptText
<1>4. PICK e : e = event(id)
  OBVIOUS
<1>5. /\ e.event_id = id /\ e.sender_device_id = d
      /\ e.sender_counter = c.outgoing_chain.counter + 1
      /\ e \in PlaintextEvent
  <2>1. c.outgoing_chain.counter \in Nat /\ c.outgoing_chain.event_hash \in EventIds \cup {NoHash}
    BY ClientTypes, ChainTypes
  <2> QED BY <1>4, <2>1 DEF PlaintextEvent, NextCounter
<1>6. PICK m : m = [kind |-> "application", group |-> c.group, sender |-> d,
                    generation |-> c.generation + 1, event |-> e]
  OBVIOUS
<1>7. PICK k : k = [c EXCEPT !.outgoing_chain = ChainAfter(e),
                             !.seen_event_ids = @ \cup {id}, !.generation = @ + 1]
  OBVIOUS
<1>8. Operate(d, k, {m}, {}) /\ drawn' = drawn \cup {id}
  BY <1>3, <1>4, <1>6, <1>7
<1>9. Tidy(k)
  <2>1. ChainAfter(e) \in SenderChain
    BY <1>5, ClientTypes, ChainTypes DEF ChainAfter, SenderChain
  <2>2. c.generation + 1 \in Nat /\ c.seen_event_ids \cup {id} \in SUBSET EventIds
    BY ClientTypes
  <2>3. k \in MlsClient
    BY <1>7, <2>1, <2>2 DEF MlsClient
  <2>4. k.incoming_chains = c.incoming_chains
    BY <1>7 DEF MlsClient
  <2> QED BY <1>2, <2>3, <2>4 DEF Tidy
<1>10. m \in Messages
  BY <1>5, <1>6, ClientTypes DEF Messages
<1>11. m.kind = "application" /\ m.event = e
  BY <1>6
<1>12. Encrypts(d, c, k, m)
  <2>1. m.sender = d /\ m.group = c.group /\ m.generation = c.generation + 1
    BY <1>6
  <2>2. /\ k.group = c.group /\ k.generation = c.generation + 1 /\ k.spent = c.spent
        /\ k.outgoing_chain = ChainAfter(e) /\ k.incoming_chains = c.incoming_chains
        /\ k.seen_event_ids = c.seen_event_ids \cup {id}
    BY <1>7 DEF MlsClient
  <2> QED BY <2>1, <2>2, <1>1, <1>2, <1>5, <1>11 DEF Encrypts
<1>13. \A n \in Application : n.event.event_id # id
  BY DEF MInv, Ledger, Behind
<1>14. \A w : w.messages = {m} /\ w.plaintext = {} => Waiting(d, w, client[d], k, Application, drawn')
  BY <1>2, <1>5, <1>8, <1>11, <1>12, <1>13 DEF Waiting
<1>15. drawn' \in SUBSET EventIds /\ drawn \subseteq drawn'
  BY <1>8 DEF MInv, TypeOK
<1>16. \A n \in {m} : n.kind = "application" => n.event.event_id \notin drawn
  BY <1>5, <1>11
<1>17. {m} \in SUBSET Messages /\ {} \in SUBSET PlaintextEvent
  BY <1>10
<1> HIDE DEF event
<1> QED BY <1>1, <1>8, <1>9, <1>14, <1>15, <1>16, <1>17, OperateStep

LEMMA DecryptStep ==
  ASSUME MInv, NEW d \in Devices, NEW m \in network, Decrypt(d, m)
  PROVE  MInv'
<1>1. /\ Ready(d) /\ drawn' = drawn /\ Opens(client[d], d, m) /\ Admits(client[d], m.event)
      /\ m \in Application
  BY DEF Decrypt, Opens, Application
<1>2. PICK c \in MlsClient : c = client[d] /\ Tidy(c)
  BY <1>1, ReadyClient
<1>3. /\ m \in ApplicationMessage /\ m.event \in PlaintextEvent
      /\ m.event.sender_device_id \in Devices /\ m.event.event_id \in EventIds
      /\ m.event.sender_counter \in Nat \ {0}
      /\ m.sender \in Devices /\ m.generation \in Nat
  BY <1>1, ApplicationTypes, MessageTypes DEF MInv
<1>4. PICK e : e = m.event
  OBVIOUS
<1> DEFINE k == AfterRecording(AfterOpening(c, m), e)
<1>5. Operate(d, k, {}, {e})
  BY <1>2, <1>4 DEF Decrypt
<1>6. /\ k.packages = c.packages /\ k.next_package = c.next_package
      /\ k.group = c.group /\ k.generation = c.generation
      /\ k.spent = c.spent \cup {<<m.sender, m.generation>>}
      /\ k.outgoing_chain = c.outgoing_chain
      /\ k.incoming_chains = [c.incoming_chains EXCEPT ![e.sender_device_id] = ChainAfter(e)]
      /\ k.seen_event_ids = c.seen_event_ids \cup {e.event_id}
  BY <1>2 DEF AfterRecording, AfterOpening, MlsClient
<1>7. Tidy(k)
  <2>1. ChainAfter(e) \in SenderChain /\ ChainAfter(e).counter # 0
    BY <1>3, <1>4 DEF ChainAfter, SenderChain
  <2>2. [c.incoming_chains EXCEPT ![e.sender_device_id] = ChainAfter(e)] \in [Devices -> SenderChain]
    BY <1>3, <1>4, <2>1, ClientTypes
  <2>3. /\ c.spent \cup {<<m.sender, m.generation>>} \in SUBSET (Devices \X Nat)
        /\ c.seen_event_ids \cup {e.event_id} \in SUBSET EventIds
    BY <1>3, <1>4, ClientTypes
  <2>4. k \in MlsClient
    BY <1>2, <2>2, <2>3 DEF AfterRecording, AfterOpening, MlsClient
  <2>5. \A s \in Devices : k.incoming_chains[s].counter = 0 => k.incoming_chains[s] = NoChain
    <3> HIDE DEF k
    <3> QED BY <1>2, <1>3, <1>4, <1>6, <2>1, ClientTypes DEF Tidy
  <2> QED BY <2>4, <2>5 DEF Tidy
<1> HIDE DEF k
<1>8. Decrypts(d, c, k, m)
  BY <1>1, <1>2, <1>4, <1>6 DEF Decrypts, Opens
<1>9. \A w : w.messages = {} /\ w.plaintext = {e} => Waiting(d, w, client[d], k, Application, drawn')
  BY <1>1, <1>2, <1>4, <1>8 DEF Waiting
<1>10. drawn' \in SUBSET EventIds /\ drawn \subseteq drawn'
  BY <1>1 DEF MInv, TypeOK
<1> QED BY <1>1, <1>3, <1>4, <1>5, <1>7, <1>9, <1>10, OperateStep

(* The three kinds of checkpoint differ in what they add to the network    *)
(* and to what the vault has recorded.                                     *)
LEMMA CheckpointRecords ==
  ASSUME MInv, NEW d \in Devices, Checkpoint(d)
  PROVE  /\ Ledger(Saved, Application, drawn)'
         /\ \A m \in Application' \ Application :
              m \in work[d].messages /\ m.kind = "application"
         /\ Application \subseteq Application'
         /\ \A e \in Devices : e # d => Recorded(e)' = Recorded(e)
         /\ Recorded(d)' = Recorded(d) \cup work[d].plaintext
         /\ Recorded(d) \cap work[d].plaintext = {}
         /\ \A e \in work[d].plaintext :
              /\ work[d].plaintext = {e}
              /\ \A f \in Recorded(d) :
                   f.sender_device_id = e.sender_device_id => f.sender_counter < e.sender_counter
<1>1. /\ work[d].step = "save"
      /\ vault' = [vault EXCEPT ![d] = EncodeSnapshot(client[d])]
      /\ network' = network \cup {m \in work[d].messages : m.kind = "application"}
      /\ UNCHANGED <<client, shown, drawn, failures>>
      /\ TypeOK /\ Stored /\ Ledger(Saved, Application, drawn)
  BY DEF MInv, Checkpoint
<1>2. work[d] # Nothing /\ work[d].messages \in SUBSET Messages
  BY <1>1, WorkTypes DEF TypeOK, Nothing
<1>3. client[d] # NoClient /\ vault[d] # NoClient /\ Tidy(client[d]) /\ client[d] \in MlsClient
  BY <1>2 DEF MInv, MemoryInStep, Tidy
<1>4. PICK k, c, S, A, D, w :
        /\ k = client[d] /\ c = Saved[d] /\ S = Saved /\ A = Application /\ D = drawn /\ w = work[d]
  BY <1>1, <1>3, SavedTypes
<1>5. /\ k \in MlsClient /\ c \in MlsClient
      /\ S \in [Devices -> MlsClient \cup {NoClient}] /\ S[d] = c /\ c # NoClient
      /\ A \in SUBSET ApplicationMessage /\ D \in SUBSET EventIds /\ Ledger(S, A, D)
      /\ Waiting(d, w, c, k, A, D)
      /\ \A e \in Devices : vault[e] # NoClient => vault[e].seen_event_ids = S[e].seen_event_ids
      /\ \A e \in Devices : vault[e] = NoClient <=> S[e] = NoClient
  <2>1. S \in [Devices -> MlsClient \cup {NoClient}]
    BY <1>1, <1>4, SavedTypes
  <2>2. A \in SUBSET ApplicationMessage /\ D \in SUBSET EventIds
    BY <1>1, <1>4, ApplicationTypes DEF TypeOK
  <2>3. Waiting(d, w, c, k, A, D)
    BY <1>1, <1>4 DEF MInv, Pending
  <2>4. \A e \in Devices : vault[e] # NoClient => vault[e].seen_event_ids = S[e].seen_event_ids
    BY <1>1, <1>4, SavedTypes
  <2>5. \A e \in Devices : vault[e] = NoClient <=> S[e] = NoClient
    BY <1>1, <1>4, SavedTypes
  <2>6. S[d] = c /\ c # NoClient
    BY <1>1, <1>3, <1>4, SavedTypes
  <2>7. Ledger(S, A, D)
    BY <1>1, <1>4
  <2>8. k \in MlsClient /\ c \in MlsClient
    BY <1>1, <1>3, <1>4, SavedTypes
  <2> QED BY <2>1, <2>2, <2>3, <2>4, <2>5, <2>6, <2>7, <2>8
<1>6. /\ Saved' = [S EXCEPT ![d] = k]
      /\ vault'[d] # NoClient /\ vault'[d].seen_event_ids = k.seen_event_ids
      /\ \A e \in Devices : e # d => vault'[e] = vault[e]
  BY <1>1, <1>3, <1>4, SavedAfter
<1>7. Application' = A \cup {m \in w.messages : m.kind = "application"}
  BY <1>1, <1>4 DEF Application
<1>8. Received(d, c, A) /\ Unique(A)
  BY <1>5 DEF Ledger
<1>9. CASE /\ w.plaintext = {} /\ \A m \in w.messages : m.kind # "application"
           /\ ChangesGroup(c, k)
  <2>1. Application' = A
    BY <1>7, <1>9
  <2>2. Ledger([S EXCEPT ![d] = k], A, D)
    BY <1>5, <1>9, LedgerChangesGroup
  <2>3. Ledger(Saved, Application, drawn)'
    BY <1>1, <1>4, <1>6, <2>1, <2>2
  <2>4. vault'[d].seen_event_ids = vault[d].seen_event_ids
    BY <1>3, <1>4, <1>5, <1>6, <1>9 DEF ChangesGroup
  <2>5. \A e \in Devices : Recorded(e)' = Recorded(e)
    <3> SUFFICES ASSUME NEW e \in Devices PROVE Recorded(e)' = Recorded(e)
      OBVIOUS
    <3>1. CASE e = d
      BY <3>1, <1>3, <1>4, <1>6, <2>1, <2>4 DEF Recorded
    <3>2. CASE e # d
      BY <3>2, <1>4, <1>6, <2>1 DEF Recorded
    <3> QED BY <3>1, <3>2
  <2> QED BY <1>4, <1>9, <2>1, <2>3, <2>5
<1>10. ASSUME NEW m \in w.messages, w.plaintext = {},
              w.messages = {m}, m.kind = "application", m.event.event_id \in D,
              \A n \in A : n.event.event_id # m.event.event_id,
              Encrypts(d, c, k, m)
       PROVE  /\ Ledger(Saved, Application, drawn)'
              /\ Application' = A \cup {m}
              /\ \A e \in Devices : Recorded(e)' = Recorded(e)
  <2>1. Application' = A \cup {m} /\ m \in ApplicationMessage
    BY <1>2, <1>4, <1>7, <1>10, ApplicationIsApplication
  <2>2. Ledger([S EXCEPT ![d] = k], A \cup {m}, D)
    BY <1>5, <1>10, <2>1, LedgerEncrypts
  <2>3. Ledger(Saved, Application, drawn)'
    BY <1>1, <1>4, <1>6, <2>1, <2>2
  <2>4. ASSUME NEW e \in Devices PROVE Recorded(e)' = Recorded(e)
    <3> DEFINE heard == {n \in A : /\ n.sender # e /\ vault[e] # NoClient
                                   /\ n.event.event_id \in vault[e].seen_event_ids}
               now == {n \in A \cup {m} : /\ n.sender # e /\ vault'[e] # NoClient
                                          /\ n.event.event_id \in vault'[e].seen_event_ids}
    <3>1. CASE e = d
      <4>1. vault'[e].seen_event_ids = vault[e].seen_event_ids \cup {m.event.event_id}
        BY <3>1, <1>3, <1>4, <1>5, <1>6, <1>10 DEF Encrypts
      <4>2. m.sender = d
        BY <1>10 DEF Encrypts
      <4>3. now = heard
        BY <3>1, <4>1, <4>2, <1>3, <1>6, <1>10
      <4> QED BY <4>3, <2>1, <1>4 DEF Recorded
    <3>2. CASE e # d
      <4>1. vault[e] # NoClient => m.event.event_id \notin vault[e].seen_event_ids
        BY <1>5, <1>10 DEF Ledger, Received
      <4>2. now = heard
        BY <3>2, <4>1, <1>6
      <4> QED BY <4>2, <2>1, <1>4 DEF Recorded
    <3> QED BY <3>1, <3>2
  <2> QED BY <2>1, <2>3, <2>4
<1>11. ASSUME NEW m \in A, w.messages = {}, w.plaintext = {m.event}, Decrypts(d, c, k, m)
       PROVE  /\ Ledger(Saved, Application, drawn)'
              /\ Application' = A
              /\ \A e \in Devices : e # d => Recorded(e)' = Recorded(e)
              /\ Recorded(d)' = Recorded(d) \cup {m.event}
              /\ m.event \notin Recorded(d)
              /\ \A f \in Recorded(d) :
                   f.sender_device_id = m.event.sender_device_id => f.sender_counter < m.event.sender_counter
  <2>1. Application' = A
    BY <1>7, <1>11
  <2>2. Ledger([S EXCEPT ![d] = k], A, D)
    <3>1. k \in MlsClient /\ Decrypts(d, S[d], k, m) /\ S[d] # NoClient
      BY <1>5, <1>11
    <3> QED BY <1>5, <3>1, LedgerDecrypts
  <2>3. Ledger(Saved, Application, drawn)'
    BY <1>1, <1>4, <1>6, <2>1, <2>2
  <2>4. \A e \in Devices : e # d => Recorded(e)' = Recorded(e)
    BY <1>4, <1>6, <2>1 DEF Recorded
  <2>5. vault'[d].seen_event_ids = vault[d].seen_event_ids \cup {m.event.event_id}
    BY <1>3, <1>4, <1>5, <1>6, <1>11 DEF Decrypts
  <2>6. m.sender # d /\ m.event.event_id \notin vault[d].seen_event_ids
    BY <1>3, <1>4, <1>5, <1>11 DEF Decrypts, Admits
  <2>7. \A n \in A : n.event.event_id = m.event.event_id <=> n = m
    BY <1>8 DEF Unique
  <2>8. \A n \in A : /\ n.sender # d /\ vault'[d] # NoClient
                     /\ n.event.event_id \in vault'[d].seen_event_ids
                     <=> \/ n = m
                         \/ /\ n.sender # d /\ vault[d] # NoClient
                            /\ n.event.event_id \in vault[d].seen_event_ids
    BY <2>5, <2>6, <2>7, <1>3, <1>6
  <2>9. Recorded(d)' = Recorded(d) \cup {m.event}
    BY <2>1, <2>8, <1>4 DEF Recorded
  <2>10. \A f \in Recorded(d) : \E n \in A : /\ f = n.event /\ n.sender # d
                                            /\ n.event.event_id \in vault[d].seen_event_ids
    BY <1>4 DEF Recorded
  <2>11. m.event \notin Recorded(d)
    BY <2>6, <2>10
  <2>12. ASSUME NEW f \in Recorded(d), f.sender_device_id = m.event.sender_device_id
         PROVE  f.sender_counter < m.event.sender_counter
    <3>1. PICK n \in A : /\ f = n.event /\ n.sender # d
                         /\ n.event.event_id \in vault[d].seen_event_ids
      BY <2>10
    <3>2. /\ n.event.sender_device_id = n.sender /\ m.event.sender_device_id = m.sender
          /\ n.sender \in Devices
          /\ n.event.sender_counter \in Nat /\ m.event.sender_counter \in Nat
      BY <1>5, MessageTypes DEF Ledger, Behind
    <3>3. n.sender = m.sender
      BY <2>12, <3>1, <3>2
    <3>4. n.event.sender_counter <= c.incoming_chains[m.sender].counter
      <4>1. Prefix(c.incoming_chains[m.sender], m.sender, c.seen_event_ids, A)
        BY <1>8, <2>6, <3>2, <3>3 DEF Received
      <4>2. n.event.event_id \in c.seen_event_ids
        BY <3>1, <1>3, <1>5
      <4> QED BY <4>1, <4>2, <3>3 DEF Prefix
    <3>5. m.event.sender_counter = c.incoming_chains[m.sender].counter + 1
      BY <1>11, <3>2 DEF Decrypts, Admits, NextInChain, NextCounter
    <3>6. c.incoming_chains[m.sender].counter \in Nat
      BY <1>5, <3>2, <3>3, ClientTypes, ChainTypes
    <3> QED BY <3>1, <3>2, <3>4, <3>5, <3>6
  <2> QED BY <2>1, <2>3, <2>4, <2>9, <2>11, <2>12
<1>12. CASE /\ w.plaintext = {}
            /\ \E m \in w.messages :
                 /\ w.messages = {m} /\ m.kind = "application"
                 /\ m.event.event_id \in D
                 /\ \A n \in A : n.event.event_id # m.event.event_id
                 /\ Encrypts(d, c, k, m)
  <2>1. PICK m \in w.messages :
          /\ w.messages = {m} /\ m.kind = "application"
          /\ m.event.event_id \in D
          /\ \A n \in A : n.event.event_id # m.event.event_id
          /\ Encrypts(d, c, k, m)
    BY <1>12
  <2>2. /\ Ledger(Saved, Application, drawn)'
        /\ Application' = A \cup {m}
        /\ \A e \in Devices : Recorded(e)' = Recorded(e)
    BY <1>10, <1>12, <2>1
  <2> QED BY <1>4, <1>12, <2>1, <2>2
<1>13. CASE /\ w.messages = {}
            /\ \E m \in A : w.plaintext = {m.event} /\ Decrypts(d, c, k, m)
  <2>1. PICK m \in A : w.plaintext = {m.event} /\ Decrypts(d, c, k, m)
    BY <1>13
  <2>2. /\ Ledger(Saved, Application, drawn)'
        /\ Application' = A
        /\ \A e \in Devices : e # d => Recorded(e)' = Recorded(e)
        /\ Recorded(d)' = Recorded(d) \cup {m.event}
        /\ m.event \notin Recorded(d)
        /\ \A f \in Recorded(d) :
             f.sender_device_id = m.event.sender_device_id => f.sender_counter < m.event.sender_counter
    BY <1>11, <1>13, <2>1
  <2> QED BY <1>4, <2>1, <2>2
<1> QED BY <1>5, <1>9, <1>12, <1>13 DEF Waiting

(* The vault takes the new client and the outbox its event.                *)
LEMMA CheckpointStep ==
  ASSUME MInv, NEW d \in Devices, Checkpoint(d)
  PROVE  MInv'
<1>1. /\ work[d].step = "save"
      /\ vault' = [vault EXCEPT ![d] = EncodeSnapshot(client[d])]
      /\ network' = network \cup {m \in work[d].messages : m.kind = "application"}
      /\ work' = [work EXCEPT ![d].step = "return"]
      /\ UNCHANGED <<client, shown, drawn, failures>>
      /\ TypeOK /\ Stored
  BY DEF MInv, Checkpoint
<1>2. /\ Ledger(Saved, Application, drawn)'
      /\ \A m \in Application' \ Application :
           m \in work[d].messages /\ m.kind = "application"
      /\ Application \subseteq Application'
      /\ \A e \in Devices : e # d => Recorded(e)' = Recorded(e)
      /\ Recorded(d)' = Recorded(d) \cup work[d].plaintext
      /\ Recorded(d) \cap work[d].plaintext = {}
      /\ \A e \in work[d].plaintext :
           /\ work[d].plaintext = {e}
           /\ \A f \in Recorded(d) :
                f.sender_device_id = e.sender_device_id => f.sender_counter < e.sender_counter
  BY CheckpointRecords
<1>3. work[d] \in Work /\ work[d] # Nothing /\ work[d].messages \in SUBSET Messages
  BY <1>1, WorkTypes DEF TypeOK, Nothing
<1>4. client[d] # NoClient /\ Tidy(client[d])
  BY <1>3 DEF MInv, MemoryInStep
<1>5. /\ Saved' = [Saved EXCEPT ![d] = client[d]] /\ Stored'
      /\ vault'[d] # NoClient
      /\ \A e \in Devices : e # d => vault'[e] = vault[e]
      /\ vault' \in [Devices -> MlsClientSnapshot \cup {NoClient}]
  BY <1>1, <1>4, SavedAfter
<1>6. PICK w : w = [work[d] EXCEPT !.step = "return"]
  OBVIOUS
<1>7. /\ w \in Work /\ w # Nothing /\ w.step = "return"
      /\ w.messages = work[d].messages /\ w.plaintext = work[d].plaintext
  <2>1. work[d] \in [step : {"save", "return"}, previous : MlsClientSnapshot,
                     messages : SUBSET Messages, plaintext : SUBSET PlaintextEvent]
    BY <1>3, WorkTypes
  <2>2. /\ w \in [step : {"save", "return"}, previous : MlsClientSnapshot,
                  messages : SUBSET Messages, plaintext : SUBSET PlaintextEvent]
        /\ w.step = "return"
        /\ w.messages = work[d].messages /\ w.plaintext = work[d].plaintext
    BY <1>6, <2>1
  <2> QED BY <2>2 DEF Work, Nothing
<1>8. /\ work' = [work EXCEPT ![d] = w]
      /\ work'[d] = w /\ \A e \in Devices : e # d => work'[e] = work[e]
  BY <1>1, <1>6 DEF TypeOK
<1>9. TypeOK'
  <2>1. work' \in [Devices -> Work]
    BY <1>1, <1>7, <1>8 DEF TypeOK
  <2>2. network' \in SUBSET Messages
    BY <1>1, <1>3 DEF TypeOK
  <2> QED BY <1>1, <1>5, <2>1, <2>2 DEF TypeOK
<1>10. Saved'[d] = client[d] /\ \A e \in Devices : e # d => Saved'[e] = Saved[e]
  BY <1>1, <1>5, SavedTypes
<1>11. MemoryInStep'
  <2> SUFFICES ASSUME NEW e \in Devices
               PROVE  /\ client'[e] # NoClient => vault'[e] # NoClient /\ Tidy(client'[e])
                      /\ work'[e] # Nothing => client'[e] # NoClient
                      /\ client'[e] # NoClient /\ work'[e].step # "save" => client'[e] = Saved'[e]
                      /\ work'[e].step = "save" => work'[e].previous = vault'[e]
    BY DEF MemoryInStep
  <2>1. CASE e = d
    BY <2>1, <1>1, <1>4, <1>5, <1>7, <1>8, <1>10
  <2>2. CASE e # d
    BY <2>2, <1>1, <1>5, <1>8, <1>10 DEF MInv, MemoryInStep
  <2> QED BY <2>1, <2>2
<1>12. Pending'
  <2> SUFFICES ASSUME NEW e \in Devices, work'[e].step = "save"
               PROVE  Waiting(e, work'[e], Saved'[e], client'[e], Application', drawn')
    BY DEF Pending
  <2>1. e # d /\ work[e].step = "save"
    BY <1>7, <1>8
  <2>2. Waiting(e, work[e], Saved[e], client[e], Application, drawn)
    BY <2>1 DEF MInv, Pending
  <2>3. \A m \in work[e].messages : m.kind = "application" =>
          \A n \in Application' \ Application : n.event.event_id # m.event.event_id
    BY <1>1, <1>2, <2>1 DEF MInv, PendingDistinct
  <2>4. Waiting(e, work[e], Saved[e], client[e], Application', drawn)
    BY <1>2, <2>2, <2>3, StillWaiting
  <2> QED BY <1>1, <1>8, <1>10, <2>1, <2>4
<1>13. PendingDistinct'
  BY <1>7, <1>8 DEF MInv, PendingDistinct
<1>14. ShownInOrder'
  BY <1>1 DEF MInv, ShownInOrder
<1>15. \A e \in Devices : Given(e)' = Given(e)
  BY <1>1 DEF Given
<1>16. /\ Returning(d) = {} /\ Returning(d)' = work[d].plaintext
       /\ \A e \in Devices : e # d => Returning(e)' = Returning(e)
  BY <1>1, <1>7, <1>8 DEF Returning
<1>17. \A e \in Devices : Delivering(e)'
  <2> SUFFICES ASSUME NEW e \in Devices PROVE Delivering(e)'
    OBVIOUS
  <2>1. Delivering(e)
    BY DEF MInv
  <2>2. CASE e = d
    <3>1. \A m \in work'[d].messages : m.kind = "application" => m \in network'
      BY <1>1, <1>7, <1>8
    <3>2. Returning(d)' \cup Given(d)' \subseteq Recorded(d)'
      BY <2>1, <2>2, <1>2, <1>15, <1>16 DEF Delivering
    <3>3. \A x \in Returning(d)' :
            /\ Returning(d)' = {x}
            /\ \A f \in Given(d)' :
                 f.sender_device_id = x.sender_device_id => f.sender_counter < x.sender_counter
      BY <2>1, <2>2, <1>2, <1>15, <1>16 DEF Delivering
    <3> QED BY <2>2, <3>1, <3>2, <3>3 DEF Delivering
  <2>3. CASE e # d
    <3>1. work'[e].step = "return" =>
            \A m \in work'[e].messages : m.kind = "application" => m \in network'
      BY <2>1, <2>3, <1>1, <1>8 DEF Delivering
    <3> QED BY <2>1, <2>3, <3>1, <1>2, <1>15, <1>16 DEF Delivering
  <2> QED BY <2>2, <2>3
<1>18. \A e \in Devices : Losses(e)'
  <2>1. \A e \in Devices : Lost(e)' = Lost(e)
    <3>1. Lost(d)' = Lost(d)
      BY <1>2, <1>15, <1>16 DEF Lost
    <3>2. \A e \in Devices : e # d => Lost(e)' = Lost(e)
      BY <1>2, <1>15, <1>16 DEF Lost
    <3> QED BY <3>1, <3>2
  <2> QED BY <2>1, <1>1 DEF MInv, Losses
<1> QED BY <1>2, <1>5, <1>9, <1>11, <1>12, <1>13, <1>14, <1>17, <1>18 DEF MInv

(* The client is restored to what the vault holds.                         *)
LEMMA CheckpointFailsStep ==
  ASSUME MInv, NEW d \in Devices, CheckpointFails(d)
  PROVE  MInv'
<1>1. /\ work[d].step = "save"
      /\ client' = [client EXCEPT ![d] = DecodeSnapshot(work[d].previous)]
      /\ work' = [work EXCEPT ![d] = Nothing]
      /\ UNCHANGED <<vault, network, shown, drawn>>
      /\ TypeOK /\ Stored
  BY DEF MInv, CheckpointFails, Restore
<1>2. failures' \in Nat /\ failures <= failures'
  BY DEF CheckpointFails, Fail, MInv, TypeOK
<1>3. work[d] # Nothing /\ work[d].previous = vault[d]
  BY <1>1 DEF Nothing, MInv, MemoryInStep
<1>4. client[d] # NoClient /\ vault[d] # NoClient
  BY <1>3 DEF MInv, MemoryInStep
<1>5. /\ DecodeSnapshot(work[d].previous) = Saved[d]
      /\ Tidy(Saved[d]) /\ Saved[d] \in MlsClient
  BY <1>1, <1>3, <1>4, SavedTypes
<1>6. /\ client'[d] = Saved[d] /\ work'[d] = Nothing /\ work'[d].step = "none"
      /\ \A e \in Devices : e # d => client'[e] = client[e] /\ work'[e] = work[e]
  BY <1>1, <1>5 DEF TypeOK, Nothing
<1>7. /\ Saved' = Saved /\ Application' = Application /\ Stored' /\ ShownInOrder'
      /\ \A e \in Devices : Recorded(e)' = Recorded(e) /\ Given(e)' = Given(e)
  BY <1>1, Quiet
<1>8. TypeOK'
  BY <1>1, <1>2, <1>5 DEF TypeOK, Work
<1>9. MemoryInStep'
  BY <1>1, <1>4, <1>5, <1>6, <1>7 DEF MInv, MemoryInStep
<1>10. Pending'
  BY <1>1, <1>6, <1>7 DEF MInv, Pending
<1>11. PendingDistinct'
  BY <1>6 DEF MInv, PendingDistinct
<1>12. \A e \in Devices : Returning(e)' = Returning(e)
  BY <1>1, <1>6 DEF Returning
<1>13. \A e \in Devices : Delivering(e)'
  <2> SUFFICES ASSUME NEW e \in Devices PROVE Delivering(e)'
    OBVIOUS
  <2>1. Delivering(e)
    BY DEF MInv
  <2>2. work'[e].step = "return" =>
          \A m \in work'[e].messages : m.kind = "application" => m \in network'
    BY <2>1, <1>1, <1>6 DEF Delivering
  <2> QED BY <2>1, <2>2, <1>7, <1>12 DEF Delivering
<1>14. \A e \in Devices : Losses(e)'
  <2> SUFFICES ASSUME NEW e \in Devices PROVE Losses(e)'
    OBVIOUS
  <2>1. Lost(e)' = Lost(e)
    BY <1>7, <1>12 DEF Lost
  <2>2. IsFiniteSet(Lost(e)) /\ Cardinality(Lost(e)) <= failures
    BY DEF MInv, Losses
  <2>3. Cardinality(Lost(e)) \in Nat
    BY <2>2, FS_CardinalityType
  <2>4. Cardinality(Lost(e)) <= failures'
    BY <2>2, <2>3, <1>1, <1>2 DEF TypeOK
  <2> QED BY <2>1, <2>2, <2>4 DEF Losses
<1>15. Ledger(Saved, Application, drawn)'
  BY <1>1, <1>7 DEF MInv
<1> QED BY <1>7, <1>8, <1>9, <1>10, <1>11, <1>13, <1>14, <1>15 DEF MInv

(* A process that ends loses what it was returning, one event at most.     *)
LEMMA CrashStep ==
  ASSUME MInv, NEW d \in Devices, Crash(d)
  PROVE  MInv'
<1>1. /\ client' = [client EXCEPT ![d] = NoClient]
      /\ work' = [work EXCEPT ![d] = Nothing]
      /\ failures' = failures + 1
      /\ UNCHANGED <<vault, network, shown, drawn>>
      /\ TypeOK /\ Stored
  BY DEF MInv, Crash, Fail
<1>2. /\ client'[d] = NoClient /\ work'[d] = Nothing /\ work'[d].step = "none"
      /\ \A e \in Devices : e # d => client'[e] = client[e] /\ work'[e] = work[e]
  BY <1>1 DEF TypeOK, Nothing
<1>3. /\ Saved' = Saved /\ Application' = Application /\ Stored' /\ ShownInOrder'
      /\ \A e \in Devices : Recorded(e)' = Recorded(e) /\ Given(e)' = Given(e)
  BY <1>1, Quiet
<1>4. TypeOK'
  BY <1>1 DEF TypeOK, Work
<1>5. MemoryInStep'
  BY <1>1, <1>2, <1>3 DEF MInv, MemoryInStep
<1>6. Pending'
  BY <1>1, <1>2, <1>3 DEF MInv, Pending
<1>7. PendingDistinct'
  BY <1>2 DEF MInv, PendingDistinct
<1>8. Returning(d)' = {} /\ \A e \in Devices : e # d => Returning(e)' = Returning(e)
  BY <1>2 DEF Returning
<1>9. \A e \in Devices : Delivering(e)'
  <2> SUFFICES ASSUME NEW e \in Devices PROVE Delivering(e)'
    OBVIOUS
  <2>1. Delivering(e)
    BY DEF MInv
  <2>2. work'[e].step = "return" =>
          \A m \in work'[e].messages : m.kind = "application" => m \in network'
    BY <2>1, <1>1, <1>2 DEF Delivering
  <2>3. Returning(e)' \subseteq Returning(e) /\ (Returning(e)' = {} \/ Returning(e)' = Returning(e))
    BY <1>8
  <2> QED BY <2>1, <2>2, <2>3, <1>3 DEF Delivering
<1>10. \A e \in Devices : Losses(e)'
  <2> SUFFICES ASSUME NEW e \in Devices PROVE Losses(e)'
    OBVIOUS
  <2>1. /\ IsFiniteSet(Lost(e)) /\ Cardinality(Lost(e)) <= failures
        /\ Cardinality(Lost(e)) \in Nat /\ failures \in Nat
    BY <1>1, FS_CardinalityType DEF MInv, Losses, TypeOK
  <2>2. CASE Lost(e)' = Lost(e)
    BY <2>1, <2>2, <1>1 DEF Losses
  <2>3. CASE Lost(e)' # Lost(e)
    <3>1. e = d /\ Returning(d) # {}
      BY <2>3, <1>3, <1>8 DEF Lost
    <3>2. PICK x : Returning(d) = {x} /\ x \in Recorded(d)
      <4>1. Delivering(d)
        BY DEF MInv
      <4> QED BY <3>1, <4>1 DEF Delivering
    <3>3. Lost(d)' = Lost(d) \/ Lost(d)' = Lost(d) \cup {x}
      BY <3>2, <1>3, <1>8 DEF Lost
    <3>4. Lost(d)' = Lost(d) \cup {x} /\ x \notin Lost(d)
      BY <2>3, <3>1, <3>2, <3>3
    <3>5. /\ IsFiniteSet(Lost(d) \cup {x})
          /\ Cardinality(Lost(d) \cup {x}) = Cardinality(Lost(d)) + 1
      BY <2>1, <3>1, <3>4, FS_AddElement
    <3>6. Cardinality(Lost(d)) + 1 <= failures + 1
      BY <2>1, <3>1
    <3> QED BY <3>1, <3>4, <3>5, <3>6, <1>1 DEF Losses
  <2> QED BY <2>2, <2>3
<1>11. Ledger(Saved, Application, drawn)'
  BY <1>1, <1>3 DEF MInv
<1> QED BY <1>3, <1>4, <1>5, <1>6, <1>7, <1>9, <1>10, <1>11 DEF MInv

(* The caller gets the event that is past all it was given before.         *)
LEMMA ReturnStep ==
  ASSUME MInv, NEW d \in Devices, Return(d)
  PROVE  MInv'
<1>1. /\ work[d].step = "return"
      /\ network' = network \cup work[d].messages
      /\ work' = [work EXCEPT ![d] = Nothing]
      /\ UNCHANGED <<client, vault, drawn, failures>>
      /\ TypeOK /\ Stored /\ Delivering(d)
  BY DEF MInv, Return
<1>2. PICK P : P = work[d].plaintext
  OBVIOUS
<1>3. \/ P = {} /\ shown' = shown
      \/ \E e \in P : shown' = [shown EXCEPT ![d] = Append(@, e)]
  BY <1>2 DEF Return
<1>4. /\ work[d] # Nothing /\ work[d].messages \in SUBSET Messages
      /\ P \in SUBSET PlaintextEvent
  BY <1>1, <1>2, WorkTypes DEF TypeOK, Nothing
<1>5. Returning(d) = P
  BY <1>1, <1>2 DEF Returning
<1>6. /\ work'[d] = Nothing /\ work'[d].step = "none"
      /\ \A e \in Devices : e # d => work'[e] = work[e]
  BY <1>1 DEF TypeOK, Nothing
<1>7. Application' = Application
  BY <1>1 DEF Application, Delivering
<1>8. Saved' = Saved /\ Stored'
  BY <1>1 DEF Saved, Stored
<1>9. \A e \in Devices : Recorded(e)' = Recorded(e)
  BY <1>1, <1>7 DEF Recorded
<1>10. Returning(d)' = {} /\ \A e \in Devices : e # d => Returning(e)' = Returning(e)
  BY <1>6 DEF Returning
<1>11. TypeOK'
  <2>1. shown' \in [Devices -> Seq(PlaintextEvent)]
    <3>1. shown \in [Devices -> Seq(PlaintextEvent)]
      BY <1>1 DEF TypeOK
    <3>2. ASSUME NEW x \in P PROVE Append(shown[d], x) \in Seq(PlaintextEvent)
      <4>1. shown[d] \in Seq(PlaintextEvent) /\ x \in PlaintextEvent
        BY <1>4, <3>1
      <4> QED BY <4>1
    <3> QED BY <1>3, <3>1, <3>2
  <2>2. work' \in [Devices -> Work]
    BY <1>1 DEF TypeOK, Work
  <2>3. network' \in SUBSET Messages
    BY <1>1, <1>4 DEF TypeOK
  <2> QED BY <1>1, <2>1, <2>2, <2>3 DEF TypeOK
<1>12. ShownInOrder' /\ Given(d)' = Given(d) \cup P
       /\ \A e \in Devices : e # d => Given(e)' = Given(e)
  <2>1. CASE P = {} /\ shown' = shown
    BY <2>1 DEF MInv, ShownInOrder, Given
  <2>2. CASE \E x \in P : shown' = [shown EXCEPT ![d] = Append(@, x)]
    <3>1. PICK x \in P : shown' = [shown EXCEPT ![d] = Append(@, x)]
      BY <2>2
    <3>2. /\ P = {x}
          /\ \A f \in Given(d) :
               f.sender_device_id = x.sender_device_id => f.sender_counter < x.sender_counter
      BY <1>1, <1>5 DEF Delivering
    <3>3. PICK q \in Seq(PlaintextEvent) : q = shown[d]
      BY <1>1 DEF TypeOK
    <3>4. shown'[d] = Append(q, x) /\ \A e \in Devices : e # d => shown'[e] = shown[e]
      BY <1>1, <3>1, <3>3 DEF TypeOK
    <3>5. /\ Len(q) \in Nat /\ DOMAIN q = 1 .. Len(q)
          /\ DOMAIN Append(q, x) = 1 .. Len(q) + 1
          /\ Append(q, x)[Len(q) + 1] = x
          /\ \A i \in 1 .. Len(q) : Append(q, x)[i] = q[i]
      BY <3>3, <1>4
    <3>6. PICK r : r = Append(q, x)
      OBVIOUS
    <3>7. /\ DOMAIN r = 1 .. Len(q) + 1 /\ r[Len(q) + 1] = x
          /\ \A i \in 1 .. Len(q) : r[i] = q[i]
      BY <3>5, <3>6
    <3>8. Given(d)' = Given(d) \cup P
      <4>1. {r[i] : i \in DOMAIN r} = {q[i] : i \in DOMAIN q} \cup {x}
        BY <3>5, <3>7
      <4> QED BY <4>1, <3>2, <3>3, <3>4, <3>6 DEF Given
    <3>9. \A e \in Devices : e # d => Given(e)' = Given(e)
      BY <3>4 DEF Given
    <3>10. ShownInOrder'
      <4> SUFFICES ASSUME NEW e \in Devices, NEW i \in DOMAIN shown'[e], NEW j \in DOMAIN shown'[e],
                          i < j, shown'[e][i].sender_device_id = shown'[e][j].sender_device_id
                   PROVE  shown'[e][i].sender_counter < shown'[e][j].sender_counter
        BY DEF ShownInOrder
      <4>1. CASE e # d
        BY <4>1, <3>4 DEF MInv, ShownInOrder
      <4>2. CASE e = d
        <5>1. i \in DOMAIN r /\ j \in DOMAIN r /\ r[i].sender_device_id = r[j].sender_device_id
          BY <4>2, <3>4, <3>6
        <5>2. i \in 1 .. Len(q)
          BY <5>1, <3>5, <3>7
        <5>3. CASE j \in 1 .. Len(q)
          <6>1. q[i].sender_device_id = q[j].sender_device_id => q[i].sender_counter < q[j].sender_counter
            BY <5>2, <5>3, <3>3, <3>5 DEF MInv, ShownInOrder
          <6> QED BY <6>1, <5>1, <5>2, <5>3, <4>2, <3>4, <3>6, <3>7
        <5>4. CASE j = Len(q) + 1
          <6>1. q[i] \in Given(d)
            BY <5>2, <3>3, <3>5 DEF Given
          <6>2. q[i].sender_counter < x.sender_counter
            BY <6>1, <5>1, <5>2, <5>4, <3>2, <3>7
          <6> QED BY <6>2, <5>2, <5>4, <4>2, <3>4, <3>6, <3>7
        <5>5. j \in 1 .. Len(q) \/ j = Len(q) + 1
          BY <5>1, <3>5, <3>7
        <5> QED BY <5>3, <5>4, <5>5
      <4> QED BY <4>1, <4>2
    <3> QED BY <3>8, <3>9, <3>10
  <2> QED BY <1>3, <2>1, <2>2
<1>13. MemoryInStep'
  BY <1>1, <1>6, <1>8 DEF MInv, MemoryInStep
<1>14. Pending'
  BY <1>1, <1>6, <1>7, <1>8 DEF MInv, Pending
<1>15. PendingDistinct'
  BY <1>6 DEF MInv, PendingDistinct
<1>16. \A e \in Devices : Delivering(e)'
  <2> SUFFICES ASSUME NEW e \in Devices PROVE Delivering(e)'
    OBVIOUS
  <2>1. Delivering(e)
    BY DEF MInv
  <2>2. work'[e].step = "return" =>
          \A m \in work'[e].messages : m.kind = "application" => m \in network'
    BY <2>1, <1>1, <1>6 DEF Delivering
  <2>3. CASE e = d
    BY <2>1, <2>2, <2>3, <1>5, <1>9, <1>10, <1>12 DEF Delivering
  <2>4. CASE e # d
    BY <2>1, <2>2, <2>4, <1>9, <1>10, <1>12 DEF Delivering
  <2> QED BY <2>3, <2>4
<1>17. \A e \in Devices : Losses(e)'
  <2>1. Lost(d)' = Lost(d)
    BY <1>5, <1>9, <1>10, <1>12 DEF Lost
  <2>2. \A e \in Devices : e # d => Lost(e)' = Lost(e)
    BY <1>9, <1>10, <1>12 DEF Lost
  <2> QED BY <2>1, <2>2, <1>1 DEF MInv, Losses
<1>18. Ledger(Saved, Application, drawn)'
  BY <1>1, <1>7, <1>8 DEF MInv
<1> QED BY <1>8, <1>11, <1>12, <1>13, <1>14, <1>15, <1>16, <1>17, <1>18 DEF MInv

(* A step that changes nothing.                                            *)
LEMMA StutterStep ==
  ASSUME MInv, UNCHANGED vars
  PROVE  MInv'
<1> USE DEF vars
<1>1. /\ Saved' = Saved /\ Application' = Application /\ Stored' /\ ShownInOrder'
      /\ \A e \in Devices : Recorded(e)' = Recorded(e) /\ Given(e)' = Given(e)
  BY Quiet
<1>2. \A e \in Devices : Returning(e)' = Returning(e)
  BY DEF Returning
<1>3. TypeOK'
  BY DEF MInv, TypeOK
<1>4. Ledger(Saved, Application, drawn)'
  BY <1>1 DEF MInv
<1>5. MemoryInStep'
  BY <1>1 DEF MInv, MemoryInStep
<1>6. Pending'
  BY <1>1 DEF MInv, Pending
<1>7. PendingDistinct'
  BY DEF MInv, PendingDistinct
<1>8. \A e \in Devices : Delivering(e)'
  BY <1>1, <1>2 DEF MInv, Delivering
<1>9. \A e \in Devices : Losses(e)'
  BY <1>1, <1>2 DEF MInv, Losses, Lost
<1> QED BY <1>1, <1>3, <1>4, <1>5, <1>6, <1>7, <1>8, <1>9 DEF MInv

(* A refused message leaves no trace: the client is restored from the      *)
(* encoding of itself.                                                     *)
LEMMA DecryptFailsStep ==
  ASSUME MInv, NEW d \in Devices, NEW m \in network, DecryptFails(d, m)
  PROVE  MInv'
<1>1. Ready(d) /\ UNCHANGED <<vault, work, network, shown, drawn, failures>>
  BY DEF DecryptFails
<1>2. client' = client
  <2>1. client' = client \/ client' = [client EXCEPT ![d] = DecodeSnapshot(EncodeSnapshot(client[d]))]
    BY DEF DecryptFails, Restore
  <2>2. DecodeSnapshot(EncodeSnapshot(client[d])) = client[d]
    BY <1>1, ReadyClient, SnapshotRoundTrip
  <2>3. client \in [Devices -> MlsClient \cup {NoClient}]
    BY DEF MInv, TypeOK
  <2> QED BY <2>1, <2>2, <2>3
<1> QED BY <1>1, <1>2, StutterStep DEF vars

(* Every step preserves the invariant, ...                                 *)
LEMMA NextInv ==
  ASSUME MInv, [Next]_vars
  PROVE  MInv'
<1>1. CASE UNCHANGED vars
  BY <1>1, StutterStep
<1>2. CASE Next
  <2>1. PICK d \in Devices :
          \/ Create(d) \/ Load(d)
          \/ Checkpoint(d) \/ CheckpointFails(d) \/ Return(d) \/ Crash(d)
          \/ PublishKeyPackage(d) \/ CreateChannel(d) \/ EncryptText(d)
          \/ \E m \in network :
               AddMember(d, m) \/ JoinChannel(d, m) \/ Decrypt(d, m) \/ DecryptFails(d, m)
    BY <1>2 DEF Next
  <2>2. CASE Create(d)
    BY <2>2, CreateStep
  <2>3. CASE Load(d)
    BY <2>3, LoadStep
  <2>4. CASE Checkpoint(d)
    BY <2>4, CheckpointStep
  <2>5. CASE CheckpointFails(d)
    BY <2>5, CheckpointFailsStep
  <2>6. CASE Return(d)
    BY <2>6, ReturnStep
  <2>7. CASE Crash(d)
    BY <2>7, CrashStep
  <2>8. CASE PublishKeyPackage(d)
    BY <2>8, PublishKeyPackageStep
  <2>9. CASE CreateChannel(d)
    BY <2>9, CreateChannelStep
  <2>10. CASE EncryptText(d)
    BY <2>10, EncryptTextStep
  <2>11. ASSUME NEW m \in network,
                AddMember(d, m) \/ JoinChannel(d, m) \/ Decrypt(d, m) \/ DecryptFails(d, m)
         PROVE  MInv'
    BY <2>11, AddMemberStep, JoinChannelStep, DecryptStep, DecryptFailsStep
  <2> QED BY <2>1, <2>2, <2>3, <2>4, <2>5, <2>6, <2>7, <2>8, <2>9, <2>10, <2>11
<1> QED BY <1>1, <1>2

(* ... which therefore always holds.                                       *)
LEMMA InvariantHolds == Spec => []MInv
BY InitInv, NextInv, PTL DEF Spec

-----------------------------------------------------------------------------
(***************************************************************************)
(* What the invariant gives.                                               *)
(***************************************************************************)
(* The type invariant of the MLS clients: whatever has been undone,        *)
(* restored or reloaded is again a client.                                 *)
THEOREM TypeCorrect == Spec => []TypeOK
<1>1. MInv => TypeOK
  BY DEF MInv
<1> QED BY <1>1, InvariantHolds, PTL

(* A message key encrypts one message, whatever checkpoints fail and       *)
(* whatever states processes restart from.                                 *)
THEOREM KeysUsedOnce == Spec => []KeysNeverReused
<1>1. MInv => KeysNeverReused
  BY DEF MInv, Ledger, Unique, KeysNeverReused
<1> QED BY <1>1, InvariantHolds, PTL

(* A counter names one event, and a vault has recorded a prefix of each    *)
(* other device's released events.                                         *)
THEOREM PrefixesRecorded == Spec => []ChainsAgree
<1>1. ASSUME MInv PROVE ChainsAgree
  <2>1. \A m, n \in Application :
          m.sender = n.sender /\ m.event.sender_counter = n.event.sender_counter => m = n
    BY <1>1 DEF MInv, Ledger, Unique
  <2>2. ASSUME NEW d \in Devices, NEW s \in Devices, d # s, vault[d] # NoClient
        PROVE  Prefix(DecodeSnapshot(vault[d]).incoming_chains[s], s, vault[d].seen_event_ids, Application)
    <3>1. /\ Saved[d] = DecodeSnapshot(vault[d]) /\ Saved[d] # NoClient
          /\ vault[d].seen_event_ids = Saved[d].seen_event_ids
      BY <1>1, <2>2, SavedTypes DEF MInv
    <3>2. Received(d, Saved[d], Application)
      BY <1>1, <3>1 DEF MInv, Ledger
    <3> QED BY <2>2, <3>1, <3>2 DEF Received
  <2> QED BY <2>1, <2>2 DEF ChainsAgree, Prefix
<1> QED BY <1>1, InvariantHolds, PTL

(* A device is never locked out of its state, and an idle client is the    *)
(* one a restart would load.                                               *)
THEOREM MemoryIsSaved == Spec => []MemoryMatchesVault
<1>1. ASSUME MInv PROVE MemoryMatchesVault
  <2> SUFFICES ASSUME NEW d \in Devices
               PROVE  /\ vault[d] # NoClient => Decodes(vault[d])
                      /\ client[d] # NoClient /\ work[d] = Nothing => client[d] = DecodeSnapshot(vault[d])
    BY DEF MemoryMatchesVault
  <2>1. vault[d] # NoClient => Decodes(vault[d]) /\ Saved[d] = DecodeSnapshot(vault[d])
    BY <1>1, SavedTypes DEF MInv
  <2>2. client[d] # NoClient /\ work[d] = Nothing => vault[d] # NoClient /\ client[d] = Saved[d]
    <3>1. Nothing.step # "save"
      BY DEF Nothing
    <3> QED BY <1>1, <3>1 DEF MInv, MemoryInStep
  <2> QED BY <2>1, <2>2
<1> QED BY <1>1, InvariantHolds, PTL

(* A message that was refused because it came too early can be opened as   *)
(* soon as it is next in its sender's chain.                               *)
THEOREM RefusedStaysReadable == Spec => []RefusalUndone
<1>1. ASSUME MInv PROVE RefusalUndone
  <2> SUFFICES ASSUME NEW d \in Devices, NEW m \in Application,
                      Ready(d), m.group = client[d].group, m.sender # d,
                      NextInChain(client[d].incoming_chains[m.sender], m.event)
               PROVE  Opens(client[d], d, m)
    BY DEF RefusalUndone
  <2>1. client[d] \in MlsClient /\ Received(d, client[d], Application)
    BY <1>1, ReadyClient
  <2>2. m.sender \in Devices /\ m.kind = "application"
    BY <1>1, ApplicationTypes, MessageTypes DEF MInv
  <2>3. PICK count \in Nat : count = client[d].incoming_chains[m.sender].counter
    BY <2>1, <2>2, ClientTypes, ChainTypes
  <2>4. m.event.sender_counter = count + 1
    BY <2>3 DEF NextInChain, NextCounter
  <2>5. <<m.sender, m.generation>> \notin client[d].spent
    <3> SUFFICES ASSUME <<m.sender, m.generation>> \in client[d].spent PROVE FALSE
      OBVIOUS
    <3>1. PICK n \in Application :
            /\ n.sender = m.sender /\ n.group = client[d].group /\ n.generation = m.generation
            /\ n.event.sender_counter <= client[d].incoming_chains[n.sender].counter
      BY <2>1 DEF Received
    <3>2. n = m
      BY <1>1, <3>1 DEF MInv, Ledger, Unique
    <3> QED BY <3>1, <3>2, <2>3, <2>4
  <2> QED BY <2>2, <2>5 DEF Opens
<1> QED BY <1>1, InvariantHolds, PTL

(* A caller is given each event at most once and each sender's in order.   *)
THEOREM GivenInOrder == Spec => []ShownInOrder
<1>1. MInv => ShownInOrder
  BY DEF MInv
<1> QED BY <1>1, InvariantHolds, PTL

(* No more events are lost to the caller than processes have ended or      *)
(* checkpoints have failed, and none is given that is not recorded.        *)
THEOREM LossesBounded == Spec => []LossBounded
<1>1. ASSUME MInv PROVE LossBounded
  <2>1. \A d \in Devices : Given(d) \subseteq Recorded(d) /\ Cardinality(Lost(d)) <= failures
    BY <1>1 DEF MInv, Delivering, Losses
  <2> QED BY <2>1 DEF LossBounded, Lost, Recorded, Given, Returning
<1> QED BY <1>1, InvariantHolds, PTL
=============================================================================
