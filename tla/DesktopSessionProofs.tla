------------------------ MODULE DesktopSessionProofs ------------------------
(***************************************************************************)
(* Proofs about DesktopSession for every set of channels and queries,      *)
(* every listing limit and every number of messages and searches: what     *)
(* the user interface shows and the draft in its composer.                 *)
(*                                                                         *)
(* The argument.  A channel's messages are committed in the order of their *)
(* numbers, so that a message stored later ranks after all before it and   *)
(* submitMessage may push it at the end (DraftIsNewest, ShowsNewest).      *)
(* While nothing interferes with the last loading, each channel it has     *)
(* taken up shows the listing of what is stored without the message whose  *)
(* submission has not returned (Undisturbed, AllShown).  An answer of the  *)
(* search is about the query it was asked with (SearchesCurrent).          *)
(***************************************************************************)
EXTENDS DesktopSession, FiniteSetTheorems, SequenceTheorems, TLAPS

-----------------------------------------------------------------------------
(***************************************************************************)
(* Messages in their order.                                                *)
(***************************************************************************)

(* Number of messages of the set up to m.                                  *)
Rank(set, m) == Cardinality({n \in set : n <= m})

Increasing(seq, set) ==
  /\ seq \in [1 .. Cardinality(set) -> set]
  /\ \A i, j \in 1 .. Cardinality(set) : i < j => seq[i] < seq[j]

(* A rank is at least 1 and at most the number of messages, and it grows.  *)
LEMMA RankType ==
  ASSUME NEW S \in SUBSET Nat, IsFiniteSet(S), NEW m \in S
  PROVE  Rank(S, m) \in 1 .. Cardinality(S)
<1> DEFINE T == {n \in S : n <= m}
<1>1. /\ IsFiniteSet(T) /\ Cardinality(T) <= Cardinality(S)
      /\ T \in SUBSET S
  BY FS_Subset
<1>2. T # {}
  OBVIOUS
<1>3. Cardinality(T) # 0
  BY <1>1, <1>2, FS_EmptySet
<1>4. Cardinality(T) \in Nat /\ Cardinality(S) \in Nat
  BY <1>1, FS_CardinalityType
<1> QED BY <1>1, <1>3, <1>4 DEF Rank

LEMMA RankGrows ==
  ASSUME NEW S \in SUBSET Nat, IsFiniteSet(S), NEW m \in S, NEW n \in S, m < n
  PROVE  Rank(S, m) < Rank(S, n)
<1> DEFINE T == {k \in S : k <= m}
           U == {k \in S : k <= n}
<1>1. T \in SUBSET U /\ n \in U /\ n \notin T
  <2>1. m \in Nat /\ n \in Nat /\ \A k \in S : k \in Nat
    OBVIOUS
  <2>2. \A k \in S : k <= m => k <= n
    BY <2>1
  <2>3. ~(n <= m) /\ n <= n
    BY <2>1
  <2> QED BY <2>2, <2>3
<1>2. IsFiniteSet(U) /\ IsFiniteSet(T)
  BY FS_Subset
<1>3. Cardinality(T) <= Cardinality(U) /\ Cardinality(T) # Cardinality(U)
  BY <1>1, <1>2, FS_Subset
<1>4. Cardinality(T) \in Nat /\ Cardinality(U) \in Nat
  BY <1>2, FS_CardinalityType
<1> QED BY <1>3, <1>4 DEF Rank

(* Every place has a message of its rank.                                  *)
LEMMA RankOnto ==
  ASSUME NEW S \in SUBSET Nat, IsFiniteSet(S), NEW i \in 1 .. Cardinality(S)
  PROVE  \E m \in S : Rank(S, m) = i
<1> DEFINE f == [m \in S |-> Rank(S, m)]
           P == 1 .. Cardinality(S)
<1>1. Cardinality(S) \in Nat
  BY FS_CardinalityType
<1>2. f \in [S -> P]
  BY RankType
<1>3. ASSUME NEW m \in S, NEW n \in S, f[m] = f[n]
      PROVE  m = n
  <2>1. \A k \in S : Rank(S, k) \in Nat
    BY <1>1, RankType
  <2>2. CASE m < n
    BY <1>3, <2>1, <2>2, RankGrows
  <2>3. CASE n < m
    BY <1>3, <2>1, <2>3, RankGrows
  <2> QED BY <2>2, <2>3
<1>4. f \in Injection(S, P)
  BY <1>2, <1>3 DEF Injection, IsInjective
<1>5. IsFiniteSet(P) /\ Cardinality(P) = Cardinality(S)
  BY <1>1, FS_Interval
<1>6. f \in Surjection(S, P)
  BY <1>4, <1>5, FS_Injection
<1>7. PICK m \in S : f[m] = i
  BY <1>6 DEF Surjection
<1> QED BY <1>7

(* In an increasing sequence each message stands at its rank.              *)
LEMMA IncreasingRank ==
  ASSUME NEW S \in SUBSET Nat, IsFiniteSet(S), NEW f, Increasing(f, S),
         NEW i \in 1 .. Cardinality(S)
  PROVE  Rank(S, f[i]) = i
<1> DEFINE P == 1 .. Cardinality(S)
           T == {n \in S : n <= f[i]}
           g == [j \in 1 .. i |-> f[j]]
<1>1. Cardinality(S) \in Nat
  BY FS_CardinalityType
<1>2. f \in [P -> S] /\ \A j, k \in P : j < k => f[j] < f[k]
  BY DEF Increasing
<1>3. f \in Injection(P, S)
  <2>1. \A j, k \in P : f[j] = f[k] => j = k
    <3> SUFFICES ASSUME NEW j \in P, NEW k \in P, f[j] = f[k], j # k
                 PROVE  FALSE
      OBVIOUS
    <3>1. f[j] \in Nat /\ f[k] \in Nat
      BY <1>2
    <3>2. j < k \/ k < j
      BY <1>1
    <3> QED BY <3>1, <3>2, <1>2
  <2> QED BY <1>2, <2>1 DEF Injection, IsInjective
<1>4. Cardinality(P) = Cardinality(S) /\ IsFiniteSet(P)
  BY <1>1, FS_Interval
<1>5. f \in Surjection(P, S)
  BY <1>3, <1>4, FS_Injection
<1>6. g \in Injection(1 .. i, T)
  <2>1. \A j \in 1 .. i : j \in P /\ f[j] \in S /\ f[j] <= f[i]
    <3> SUFFICES ASSUME NEW j \in 1 .. i PROVE j \in P /\ f[j] \in S /\ f[j] <= f[i]
      OBVIOUS
    <3>1. j \in P
      BY <1>1
    <3>2. f[j] \in Nat /\ f[i] \in Nat
      BY <3>1, <1>2
    <3>3. j = i \/ f[j] < f[i]
      BY <3>1, <1>2
    <3> QED BY <3>1, <3>2, <3>3, <1>2
  <2> QED BY <2>1, <1>3 DEF Injection, IsInjective
<1>7. g \in Surjection(1 .. i, T)
  <2> SUFFICES ASSUME NEW n \in T PROVE \E j \in 1 .. i : g[j] = n
    BY <1>6 DEF Injection, Surjection
  <2>1. PICK j \in P : f[j] = n
    BY <1>5 DEF Surjection
  <2>2. ~(i < j)
    <3>1. f[i] \in Nat /\ f[j] \in Nat /\ f[j] <= f[i]
      BY <1>2, <2>1
    <3> QED BY <3>1, <1>2
  <2>3. j \in 1 .. i
    BY <1>1, <2>2
  <2> QED BY <2>1, <2>3
<1>8. ExistsBijection(1 .. i, T)
  BY <1>6, <1>7 DEF ExistsBijection, Bijection
<1>9. IsFiniteSet(1 .. i) /\ Cardinality(1 .. i) = i
  BY FS_Interval
<1>10. Cardinality(T) = i
  BY <1>8, <1>9, FS_Bijection
<1> QED BY <1>10 DEF Rank

(* A finite set of messages has one increasing sequence, which is InOrder. *)
LEMMA InOrderIncreasing ==
  ASSUME NEW S \in SUBSET Nat, IsFiniteSet(S)
  PROVE  Increasing(InOrder(S), S)
<1> DEFINE P == 1 .. Cardinality(S)
           f == [i \in P |-> CHOOSE m \in S : Rank(S, m) = i]
<1>1. \A i \in P : f[i] \in S /\ Rank(S, f[i]) = i
  BY RankOnto
<1>2. ASSUME NEW i \in P, NEW j \in P, i < j
      PROVE  f[i] < f[j]
  <2>1. f[i] \in Nat /\ f[j] \in Nat /\ i \in Nat /\ j \in Nat
    <3>1. \A k \in P : f[k] \in Nat
      BY <1>1
    <3> QED BY <3>1, <1>2
  <2>2. f[i] # f[j]
    BY <1>1, <1>2, <2>1
  <2>3. ~(f[j] < f[i])
    <3> SUFFICES ASSUME f[j] < f[i] PROVE FALSE
      OBVIOUS
    <3>1. Rank(S, f[j]) < Rank(S, f[i])
      BY <1>1, RankGrows
    <3> QED BY <1>1, <1>2, <2>1, <3>1
  <2> QED BY <2>1, <2>2, <2>3
<1>3. f \in [P -> S] /\ \A i, j \in P : i < j => f[i] < f[j]
  BY <1>1, <1>2
<1>4. \E g \in [P -> S] : \A i, j \in P : i < j => g[i] < g[j]
  BY <1>3
<1> QED BY <1>4 DEF Increasing, InOrder

LEMMA SameFunction ==
  ASSUME NEW D, NEW R, NEW f \in [D -> R], NEW g \in [D -> R], \A i \in D : f[i] = g[i]
  PROVE  f = g
OBVIOUS

LEMMA IncreasingUnique ==
  ASSUME NEW S \in SUBSET Nat, IsFiniteSet(S), NEW f, Increasing(f, S)
  PROVE  f = InOrder(S)
<1> DEFINE P == 1 .. Cardinality(S)
<1>1. Increasing(InOrder(S), S)
  BY InOrderIncreasing
<1>2. f \in [P -> S] /\ InOrder(S) \in [P -> S]
  BY <1>1 DEF Increasing
<1>3. ASSUME NEW i \in P PROVE f[i] = InOrder(S)[i]
  <2>1. Rank(S, f[i]) = i /\ Rank(S, InOrder(S)[i]) = i
    BY <1>1, IncreasingRank
  <2>2. f[i] \in S /\ InOrder(S)[i] \in S /\ i \in Nat
    BY <1>2
  <2>3. ~(f[i] < InOrder(S)[i]) /\ ~(InOrder(S)[i] < f[i])
    <3>1. f[i] < InOrder(S)[i] => Rank(S, f[i]) < Rank(S, InOrder(S)[i])
      BY <2>2, RankGrows
    <3>2. InOrder(S)[i] < f[i] => Rank(S, InOrder(S)[i]) < Rank(S, f[i])
      BY <2>2, RankGrows
    <3> QED BY <2>1, <2>2, <3>1, <3>2
  <2>4. f[i] \in Nat /\ InOrder(S)[i] \in Nat
    BY <2>2
  <2> QED BY <2>3, <2>4
<1> HIDE DEF P
<1> QED BY <1>2, <1>3, SameFunction

(* It is a sequence as long as the set is large.                           *)
LEMMA InOrderSeq ==
  ASSUME NEW S \in SUBSET Nat, IsFiniteSet(S)
  PROVE  InOrder(S) \in Seq(S) /\ Len(InOrder(S)) = Cardinality(S)
<1>1. Cardinality(S) \in Nat
  BY FS_CardinalityType
<1>2. InOrder(S) \in [1 .. Cardinality(S) -> S]
  BY InOrderIncreasing DEF Increasing
<1> QED BY <1>1, <1>2, IsASeq, LenProperties

(* A message newer than all others comes last.                             *)
LEMMA InOrderAppend ==
  ASSUME NEW S \in SUBSET Nat, IsFiniteSet(S), NEW m \in Nat, \A n \in S : n < m
  PROVE  InOrder(S \cup {m}) = Append(InOrder(S), m)
<1> DEFINE T == S \cup {m}
           s == InOrder(S)
<1>1. m \notin S
  OBVIOUS
<1>2. /\ IsFiniteSet(T) /\ Cardinality(T) = Cardinality(S) + 1
      /\ Cardinality(S) \in Nat
      /\ T \in SUBSET Nat
  BY <1>1, FS_AddElement, FS_CardinalityType
<1>3. s \in Seq(S) /\ Len(s) = Cardinality(S) /\ Increasing(s, S)
  BY InOrderSeq, InOrderIncreasing
<1>4. s \in Seq(T)
  BY <1>3, SeqMonotonic
<1>5. /\ Append(s, m) \in Seq(T)
      /\ Len(Append(s, m)) = Cardinality(T)
      /\ \A i \in 1 .. Cardinality(S) : Append(s, m)[i] = s[i]
      /\ Append(s, m)[Cardinality(T)] = m
  BY <1>2, <1>3, <1>4, AppendProperties
<1>6. Append(s, m) \in [1 .. Cardinality(T) -> T]
  BY <1>5, LenProperties
<1>7. ASSUME NEW i \in 1 .. Cardinality(T), NEW j \in 1 .. Cardinality(T), i < j
      PROVE  Append(s, m)[i] < Append(s, m)[j]
  <2>1. i \in 1 .. Cardinality(S)
    BY <1>2, <1>7
  <2>2. s[i] \in S /\ Append(s, m)[i] = s[i]
    BY <2>1, <1>3, <1>5 DEF Increasing
  <2>3. CASE j = Cardinality(T)
    BY <2>2, <2>3, <1>5
  <2>4. CASE j \in 1 .. Cardinality(S)
    BY <2>1, <2>2, <2>4, <1>3, <1>5, <1>7 DEF Increasing
  <2>5. j = Cardinality(T) \/ j \in 1 .. Cardinality(S)
    <3>1. \A c \in Nat : \A k \in 1 .. c + 1 : k = c + 1 \/ k \in 1 .. c
      OBVIOUS
    <3> QED BY <1>2, <3>1
  <2> QED BY <2>3, <2>4, <2>5
<1> QED BY <1>2, <1>6, <1>7, IncreasingUnique DEF Increasing

-----------------------------------------------------------------------------
(***************************************************************************)
(* What a channel shows of its messages.                                   *)
(***************************************************************************)
Oldest(set) == {m \in set : Rank(set, m) <= ListLimit}

(* The sequence starts with the oldest messages of the set, and has no     *)
(* others when one listing returns them all.                               *)
Shows(seq, set) ==
  /\ IsPrefix(InOrder(Oldest(set)), seq)
  /\ Cardinality(set) <= ListLimit => Len(seq) = Cardinality(set)

LEMMA OldestListed == \A c : ListMessages(c) = Oldest(stored[c])
BY DEF ListMessages, Oldest, Rank

LEMMA OldestFinite ==
  ASSUME NEW S \in SUBSET Nat, IsFiniteSet(S)
  PROVE  /\ Oldest(S) \in SUBSET S /\ Oldest(S) \in SUBSET Nat /\ IsFiniteSet(Oldest(S))
         /\ Cardinality(S) \in Nat
         /\ Cardinality(S) <= ListLimit => Oldest(S) = S
<1>1. Oldest(S) \in SUBSET S
  BY DEF Oldest
<1>2. Cardinality(S) \in Nat
  BY FS_CardinalityType
<1>3. ASSUME Cardinality(S) <= ListLimit, NEW m \in S
      PROVE  Rank(S, m) <= ListLimit
  BY <1>2, <1>3, RankType, SessionAssumption
<1> QED BY <1>1, <1>2, <1>3, FS_Subset DEF Oldest

(* A listing alone shows what it has listed.                               *)
LEMMA ListingShows ==
  ASSUME NEW S \in SUBSET Nat, IsFiniteSet(S)
  PROVE  Shows(InOrder(Oldest(S)), S)
<1> DEFINE s == InOrder(Oldest(S))
<1>1. s \in Seq(Oldest(S)) /\ Len(s) = Cardinality(Oldest(S))
  BY OldestFinite, InOrderSeq
<1>2. IsPrefix(s, s)
  BY <1>1, LenProperties DEF IsPrefix
<1>3. Cardinality(S) <= ListLimit => Len(s) = Cardinality(S)
  BY <1>1, OldestFinite
<1> QED BY <1>2, <1>3 DEF Shows

LEMMA PrefixAppend ==
  ASSUME NEW D, NEW s \in Seq(D), NEW t \in Seq(D), IsPrefix(s, t), NEW m \in D
  PROVE  /\ IsPrefix(s, Append(t, m))
         /\ Len(s) = Len(t) => IsPrefix(Append(s, m), Append(t, m))
<1>1. /\ Len(s) \in Nat /\ Len(t) \in Nat /\ Len(s) <= Len(t)
      /\ SubSeq(s, 1, Len(s)) = SubSeq(t, 1, Len(s))
  BY LenProperties DEF IsPrefix
<1>2. \A i \in 1 .. Len(s) : s[i] = t[i]
  <2> SUFFICES ASSUME NEW i \in 1 .. Len(s) PROVE s[i] = t[i]
    OBVIOUS
  <2>1. SubSeq(s, 1, Len(s))[i] = s[i] /\ SubSeq(t, 1, Len(s))[i] = t[i]
    BY <1>1
  <2> QED BY <2>1, <1>1
<1>3. /\ Append(t, m) \in Seq(D) /\ Len(Append(t, m)) = Len(t) + 1
      /\ \A i \in 1 .. Len(t) : Append(t, m)[i] = t[i]
  BY AppendProperties
<1>4. SubSeq(Append(t, m), 1, Len(s)) = SubSeq(t, 1, Len(s))
  BY <1>1, <1>3
<1>5. IsPrefix(s, Append(t, m))
  BY <1>1, <1>3, <1>4 DEF IsPrefix
<1>6. ASSUME Len(s) = Len(t) PROVE s = t
  BY <1>1, <1>2, <1>6, SeqEqual
<1>7. IsPrefix(Append(t, m), Append(t, m))
  BY <1>3 DEF IsPrefix
<1> QED BY <1>5, <1>6, <1>7

(* A message newer than all others is shown by adding it at the end.       *)
LEMMA ShowsNewest ==
  ASSUME NEW S \in SUBSET Nat, IsFiniteSet(S), NEW m \in Nat, \A n \in S : n < m,
         NEW s \in Seq(Nat), Shows(s, S)
  PROVE  Shows(Append(s, m), S \cup {m})
<1> DEFINE T == S \cup {m}
           o == InOrder(Oldest(S))
<1>1. /\ m \notin S /\ T \in SUBSET Nat
      /\ IsFiniteSet(T) /\ Cardinality(T) = Cardinality(S) + 1
      /\ Cardinality(S) \in Nat
  BY FS_AddElement, FS_CardinalityType
<1>2. \A n \in S : Rank(T, n) = Rank(S, n)
  <2> SUFFICES ASSUME NEW n \in S PROVE {k \in T : k <= n} = {k \in S : k <= n}
    BY DEF Rank
  <2>1. n \in Nat /\ n < m /\ ~(m <= n)
    OBVIOUS
  <2> QED BY <2>1
<1>3. Rank(T, m) = Cardinality(T)
  <2>1. \A k \in T : k <= m
    <3>1. \A k \in S : k \in Nat /\ k < m
      OBVIOUS
    <3> QED BY <3>1
  <2>2. {k \in T : k <= m} = T
    BY <2>1
  <2> QED BY <2>2 DEF Rank
<1>4. /\ o \in Seq(Oldest(S)) /\ Len(o) = Cardinality(Oldest(S))
      /\ o \in Seq(Nat)
  BY OldestFinite, InOrderSeq, SeqMonotonic
<1>5. Len(Append(s, m)) = Len(s) + 1
  BY AppendProperties
<1>6. CASE Cardinality(S) < ListLimit
  <2>1. Cardinality(T) <= ListLimit /\ Oldest(S) = S /\ Oldest(T) = T
    <3>1. Cardinality(S) <= ListLimit /\ Cardinality(T) <= ListLimit
      BY <1>1, <1>6, SessionAssumption
    <3>2. Oldest(S) = S
      BY <3>1, OldestFinite
    <3>3. Oldest(T) = T
      BY <1>1, <3>1, OldestFinite
    <3> QED BY <3>1, <3>2, <3>3
  <2>2. InOrder(T) = Append(o, m)
    BY <2>1, InOrderAppend
  <2>3. Len(s) = Cardinality(S) /\ Len(o) = Len(s)
    BY <1>1, <1>4, <1>6, <2>1, SessionAssumption DEF Shows
  <2>4. IsPrefix(Append(o, m), Append(s, m))
    BY <1>4, <2>3, PrefixAppend DEF Shows
  <2> QED BY <1>1, <1>5, <2>1, <2>2, <2>3, <2>4 DEF Shows
<1>7. CASE ~(Cardinality(S) < ListLimit)
  <2>1. ~(Cardinality(T) <= ListLimit)
    BY <1>1, <1>7, SessionAssumption
  <2>2. Oldest(T) = Oldest(S)
    BY <1>1, <1>2, <1>3, <2>1 DEF Oldest
  <2>3. IsPrefix(o, Append(s, m))
    BY <1>4, PrefixAppend DEF Shows
  <2> QED BY <2>1, <2>2, <2>3 DEF Shows
<1> QED BY <1>6, <1>7

-----------------------------------------------------------------------------
(***************************************************************************)
(* The inductive invariant.                                                *)
(***************************************************************************)
SubmitTasks ==
  {Idle}
    \cup [at : {"queue"}, reply : {None, "stored", "error"}, message : Messages,
          channel : Channels]
    \cup [at : {"status"}, reply : {None, "locked", "unlocked", "error"}]

LockTasks == {Idle} \cup [at : {"lock"}, reply : {None, "locked", "error"}]

LoadTasks ==
  {Idle}
    \cup [at : {"unlock"}, reply : {None, "unlocked", "error"}]
    \cup [at : {"status", "recheck"}, reply : {None, "locked", "unlocked"}]
    \cup [at : {"list"}, reply : {None}]

SearchTasks ==
  [channel : Channels, query : Queries, current : BOOLEAN, reply : {None} \cup SUBSET Messages]

(* The functions in progress.  The lock and the gate exclude each other.   *)
Loads ==
  /\ load \in [Loaders -> LoadTasks]
  /\ load["gate"].at # "status"
  /\ load["refresh"].at # "unlock"

Tasks ==
  /\ submit \in SubmitTasks
  /\ lock \in LockTasks
  /\ Loads
  /\ lock = Idle \/ load["gate"] = Idle
  /\ searches \subseteq SearchTasks

(* A listing holds what has been committed.                                *)
ListsStored ==
  \A l \in Loaders, c \in Channels : lists[l][c] # None => lists[l][c] \subseteq stored[c]

(* Only a search for what is on display is current, and what a search has  *)
(* found is still to be found.                                             *)
SearchesCurrent ==
  \A s \in searches :
    /\ s.current => s.query = searchQuery /\ s.channel = activeChannelId
    /\ s.reply # None => s.reply \subseteq Search(s.channel, s.query)

(* The submitted message is stored and its reply not taken up yet.         *)
Unreported == submit.at = "queue" /\ submit.reply = "stored"

(* What is in the composer or being submitted is the newest draft, in no   *)
(* channel before it is stored, and then in one.                           *)
DraftIsNewest ==
  /\ composerText \in {0, drafts}
  /\ Archive \subseteq 1 .. drafts
  /\ submit.at = "queue" => submit.message = drafts
  /\ composerText # 0 \/ submit.at = "queue" =>
       \A c \in Channels : drafts \in stored[c] <=> Unreported /\ c = submit.channel

(* What a channel holds but for a message not reported yet.                *)
Reported(c) ==
  IF Unreported /\ c = submit.channel THEN stored[c] \ {submit.message} ELSE stored[c]

(* After a loading that nothing has interfered with: a submission and a    *)
(* loader exclude each other, both find the vault unlocked, the listings   *)
(* are what the archive holds, and so are the messages once they have been *)
(* replaced.                                                               *)
SubmitsAlone == submit # Idle => vaultIsUnlocked /\ \A l \in Loaders : load[l] = Idle

LoadsAlone ==
  \A l \in Loaders : load[l].at \in {"list", "recheck"} =>
    vaultIsUnlocked /\ \A k \in Loaders \ {l} : load[k] = Idle

ListsCurrent ==
  \A l \in Loaders : load[l].at = "list" =>
    \A c \in Channels : lists[l][c] \in {None, ListMessages(c)}

AllShown ==
  vaultIsUnlocked /\ (\A l \in Loaders : load[l].at # "list") =>
    \A c \in Channels : Shows(messages[c], Reported(c))

Undisturbed ==
  lastLoad = "complete" => SubmitsAlone /\ LoadsAlone /\ ListsCurrent /\ AllShown

SessionInv ==
  TypeOK /\ Tasks /\ ListsStored /\ SearchesCurrent /\ SearchResultsCurrent /\ DraftIsNewest
    /\ Undisturbed

(* What a function in progress waits for, and its replies.                 *)
LEMMA IdleForm == Idle.at = "none" /\ \A command : Call(command).at = command
                    /\ Call(command).reply = None
BY DEF Idle, Call

LEMMA SubmitForm ==
  ASSUME NEW t \in SubmitTasks
  PROVE  /\ t = Idle \/ t.at \in {"queue", "status"}
         /\ t = Idle => t.at = "none"
         /\ t.at = "queue" =>
              /\ t.reply \in {None, "stored", "error"}
              /\ t.message \in Messages /\ t.channel \in Channels
              /\ \A r \in {"stored", "error"} :
                   LET u == [t EXCEPT !.reply = r] IN
                   /\ u \in SubmitTasks /\ u.at = "queue" /\ u.reply = r
                   /\ u.message = t.message /\ u.channel = t.channel
         /\ t.at = "status" =>
              /\ t.reply \in {None, "locked", "unlocked", "error"}
              /\ \A r \in {"locked", "unlocked", "error"} :
                   LET u == [t EXCEPT !.reply = r] IN
                   u \in SubmitTasks /\ u.at = "status" /\ u.reply = r
BY DEF SubmitTasks, Idle

LEMMA LockForm ==
  ASSUME NEW t \in LockTasks
  PROVE  /\ t = Idle \/ t.at = "lock"
         /\ t = Idle => t.at = "none"
         /\ t.at = "lock" =>
              /\ t.reply \in {None, "locked", "error"}
              /\ \A r \in {"locked", "error"} :
                   LET u == [t EXCEPT !.reply = r] IN
                   u \in LockTasks /\ u.at = "lock" /\ u.reply = r
BY DEF LockTasks, Idle

LEMMA LoadForm ==
  ASSUME NEW t \in LoadTasks
  PROVE  /\ t = Idle \/ t.at \in {"unlock", "status", "list", "recheck"}
         /\ t = Idle => t.at = "none"
         /\ t.at = "unlock" => t.reply \in {None, "unlocked", "error"}
         /\ t.at \in {"status", "recheck"} => t.reply \in {None, "locked", "unlocked"}
         /\ t.at = "list" => t.reply = None
BY DEF LoadTasks, Idle

LEMMA LoadReply ==
  ASSUME NEW t \in LoadTasks, NEW r,
         \/ t.at = "unlock" /\ r \in {"unlocked", "error"}
         \/ t.at \in {"status", "recheck"} /\ r \in {"locked", "unlocked"}
  PROVE  /\ [t EXCEPT !.reply = r] \in LoadTasks
         /\ [t EXCEPT !.reply = r].at = t.at
         /\ [t EXCEPT !.reply = r].reply = r
BY DEF LoadTasks, Idle

LEMMA NewTasks ==
  /\ Idle \in SubmitTasks /\ Idle \in LockTasks /\ Idle \in LoadTasks
  /\ Call("status") \in SubmitTasks
  /\ Call("lock") \in LockTasks
  /\ \A command \in {"unlock", "status", "list", "recheck"} : Call(command) \in LoadTasks
BY DEF SubmitTasks, LockTasks, LoadTasks, Idle, Call

LEMMA SearchForm ==
  ASSUME NEW s \in SearchTasks
  PROVE  /\ s.channel \in Channels /\ s.query \in Queries /\ s.current \in BOOLEAN
         /\ s.reply \in {None} \cup SUBSET Messages
         /\ LET u == [s EXCEPT !.current = FALSE] IN
            /\ u \in SearchTasks /\ ~u.current
            /\ u.channel = s.channel /\ u.query = s.query /\ u.reply = s.reply
         /\ \A ids \in SUBSET Messages :
              LET u == [s EXCEPT !.reply = ids] IN
              /\ u \in SearchTasks /\ u.reply = ids
              /\ u.channel = s.channel /\ u.query = s.query /\ u.current = s.current
BY DEF SearchTasks

LEMMA StoredFacts ==
  ASSUME TypeOK
  PROVE  /\ \A c \in Channels : /\ stored[c] \in SUBSET Messages /\ stored[c] \in SUBSET Nat
                                /\ IsFiniteSet(stored[c])
                                /\ stored[c] \subseteq Archive
         /\ Archive \subseteq Messages
         /\ Messages \subseteq Nat \ {0}
<1>1. IsFiniteSet(Messages) /\ Messages \subseteq Nat \ {0}
  BY FS_Interval, SessionAssumption DEF Messages
<1>2. \A c \in Channels : stored[c] \in SUBSET Messages
  BY DEF TypeOK
<1>3. \A c \in Channels : IsFiniteSet(stored[c])
  BY <1>1, <1>2, FS_Subset
<1> QED BY <1>1, <1>2, <1>3 DEF Archive

-----------------------------------------------------------------------------
(***************************************************************************)
(* Each part of the invariant is kept.                                     *)
(***************************************************************************)
LEMMA InitInv == Init => SessionInv
<1> SUFFICES ASSUME Init PROVE SessionInv
  OBVIOUS
<1> USE DEF Init
<1>1. Tasks
  BY NewTasks, IdleForm DEF Tasks, Loads, Loaders
<1>2. \A c \in Channels : stored[c] = {}
  OBVIOUS
<1>3. Archive = {}
  BY <1>2 DEF Archive
<1>4. TypeOK
  <2>1. messages \in [Channels -> Seq(Archive)]
    BY EmptySeq
  <2>2. load["refresh"] # Idle /\ load["gate"] = Idle
    BY IdleForm DEF Loaders
  <2>3. drafts \in 0 .. MaxMessages
    BY SessionAssumption
  <2>4. /\ submit.at = "none" /\ lock.at = "none"
        /\ composerBusy = (submit # Idle) /\ vaultBusy = (lock # Idle \/ load["gate"] # Idle)
        /\ vaultLoading = (load["refresh"] # Idle)
    BY <2>2, IdleForm
  <2>5. lists \in [Loaders -> [Channels -> {None} \cup SUBSET Messages]]
    OBVIOUS
  <2>6. stored \in [Channels -> SUBSET Messages]
    OBVIOUS
  <2> QED BY <2>1, <2>3, <2>4, <2>5, <2>6 DEF TypeOK
<1>5. ListsStored /\ SearchesCurrent /\ SearchResultsCurrent
  BY DEF ListsStored, SearchesCurrent, SearchResultsCurrent
<1>6. DraftIsNewest
  BY <1>3, IdleForm DEF DraftIsNewest
<1>7. Undisturbed
  BY DEF Undisturbed
<1> QED BY <1>1, <1>4, <1>5, <1>6, <1>7 DEF SessionInv

(* What the watcher leaves are searches, and results, of what is on        *)
(* display.                                                                *)
LEMMA WatchKeeps ==
  ASSUME SessionInv, NEW query \in Queries \cup {NoQuery}, NEW channel \in Channels,
         Watch(query, channel), UNCHANGED stored
  PROVE  /\ searches' \subseteq SearchTasks
         /\ activeChannelId' \in Channels /\ searchQuery' \in Queries \cup {NoQuery}
         /\ found' \in {None} \cup SUBSET Messages
         /\ SearchesCurrent' /\ SearchResultsCurrent'
<1> DEFINE changed == <<query, channel>> # <<searchQuery, activeChannelId>>
<1>1. /\ searchQuery' = query /\ activeChannelId' = channel
      /\ changed => searches' = Outdated(searches) \cup NewSearch(query, channel) /\ found' = None
      /\ ~changed => searches' = searches /\ found' = found
                     /\ searchQuery' = searchQuery /\ activeChannelId' = activeChannelId
  BY DEF Watch
<1>2. /\ searches \subseteq SearchTasks /\ SearchesCurrent /\ SearchResultsCurrent
      /\ found \in {None} \cup SUBSET Messages
  BY DEF SessionInv, Tasks, TypeOK
<1>3. \A c, q : Search(c, q)' = Search(c, q)
  BY DEF Search
<1>4. CASE ~changed
  BY <1>1, <1>2, <1>3, <1>4 DEF SearchesCurrent, SearchResultsCurrent
<1>5. CASE changed
  <2>1. ASSUME NEW s \in Outdated(searches)
        PROVE  s \in SearchTasks /\ ~s.current
               /\ (s.reply # None => s.reply \subseteq Search(s.channel, s.query))
    <3>1. PICK t \in searches : s = [t EXCEPT !.current = FALSE]
      BY <2>1 DEF Outdated
    <3>2. t \in SearchTasks
      BY <1>2
    <3> QED BY <3>1, <3>2, <1>2, SearchForm DEF SearchesCurrent
  <2>2. ASSUME NEW s \in NewSearch(query, channel)
        PROVE  s \in SearchTasks /\ s.query = query /\ s.channel = channel /\ s.reply = None
    <3>1. /\ query \in Queries
          /\ s = [channel |-> channel, query |-> query, current |-> TRUE, reply |-> None]
      BY <2>2 DEF NewSearch
    <3> QED BY <3>1 DEF SearchTasks
  <2>3. SearchesCurrent'
    BY <1>1, <1>3, <1>5, <2>1, <2>2 DEF SearchesCurrent
  <2>4. SearchResultsCurrent'
    BY <1>1, <1>5 DEF SearchResultsCurrent
  <2>5. searches' \subseteq SearchTasks
    BY <1>1, <1>5, <2>1, <2>2
  <2> QED BY <1>1, <1>5, <2>3, <2>4, <2>5
<1> QED BY <1>4, <1>5

LEMMA SearchNext ==
  ASSUME SessionInv, Next
  PROVE  SearchesCurrent' /\ SearchResultsCurrent'
<1> USE DEF view, session, loading, tasks, history, native, Elsewhere
<1>1. CASE (\E c \in Channels : SelectChannel(c)) \/ (\E q \in Queries \cup {NoQuery} : EnterQuery(q))
           \/ VaultLocked
  <2>1. \E q \in Queries \cup {NoQuery}, c \in Channels : Watch(q, c) /\ UNCHANGED stored
    BY <1>1 DEF SelectChannel, EnterQuery, VaultLocked, SessionInv, TypeOK
  <2> QED BY <2>1, WatchKeeps
<1>2. CASE RunQueue
  <2>1. \A c \in Channels : stored[c] \subseteq stored'[c]
    <3>1. stored \in [Channels -> SUBSET Messages]
      BY DEF SessionInv, TypeOK
    <3>2. \/ stored' = stored
          \/ stored' = [stored EXCEPT ![submit.channel] = @ \cup {submit.message}]
      BY <1>2 DEF RunQueue
    <3> QED BY <3>1, <3>2
  <2>2. \A c \in Channels, q \in Queries \cup {NoQuery} : Search(c, q) \subseteq Search(c, q)'
    BY <2>1 DEF Search
  <2>3. UNCHANGED <<activeChannelId, searchQuery, found, searches>>
    BY <1>2 DEF RunQueue
  <2>4. activeChannelId \in Channels /\ searchQuery \in Queries \cup {NoQuery}
    BY DEF SessionInv, TypeOK
  <2>5. \A s \in searches : s.channel \in Channels /\ s.query \in Queries
    BY SearchForm DEF SessionInv, Tasks
  <2>6. SearchesCurrent'
    BY <2>2, <2>3, <2>5 DEF SessionInv, SearchesCurrent
  <2>7. SearchResultsCurrent'
    BY <2>2, <2>3, <2>4 DEF SessionInv, SearchResultsCurrent
  <2> QED BY <2>6, <2>7
<1>3. ASSUME NEW s \in searches, RunSearch(s)
      PROVE  SearchesCurrent' /\ SearchResultsCurrent'
  <2>1. UNCHANGED <<stored, activeChannelId, searchQuery, found>>
    BY <1>3 DEF RunSearch
  <2>2. s \in SearchTasks
    BY DEF SessionInv, Tasks
  <2>3. PICK ids \in {{}} \cup {Search(s.channel, s.query)} :
          searches' = (searches \ {s}) \cup {[s EXCEPT !.reply = ids]}
    BY <1>3 DEF RunSearch
  <2>4. ids \subseteq Search(s.channel, s.query) /\ ids \in SUBSET Messages
    BY <2>2, <2>3, SearchForm, StoredFacts DEF Search, SessionInv
  <2>5. LET u == [s EXCEPT !.reply = ids] IN
        /\ u.reply = ids
        /\ u.channel = s.channel /\ u.query = s.query /\ u.current = s.current
    BY <2>2, <2>4, SearchForm
  <2>6. \A c, q : Search(c, q)' = Search(c, q)
    BY <2>1 DEF Search
  <2>7. SearchesCurrent'
    BY <2>1, <2>3, <2>4, <2>5, <2>6 DEF SessionInv, SearchesCurrent
  <2>8. SearchResultsCurrent'
    BY <2>1, <2>6 DEF SessionInv, SearchResultsCurrent
  <2> QED BY <2>7, <2>8
<1>4. ASSUME NEW s \in searches, SearchReturns(s)
      PROVE  SearchesCurrent' /\ SearchResultsCurrent'
  <2>1. /\ UNCHANGED <<stored, activeChannelId, searchQuery>>
        /\ searches' = searches \ {s} /\ s.reply # None
        /\ found' = IF s.current THEN s.reply ELSE found
    BY <1>4 DEF SearchReturns
  <2>2. s \in SearchTasks
    BY DEF SessionInv, Tasks
  <2>3. \A c, q : Search(c, q)' = Search(c, q)
    BY <2>1 DEF Search
  <2>4. SearchesCurrent'
    BY <2>1, <2>3 DEF SessionInv, SearchesCurrent
  <2>5. searchQuery # NoQuery \/ ~s.current
    <3>1. s.query \in Queries /\ s.query # NoQuery
      BY <2>2, SearchForm, SessionAssumption
    <3> QED BY <3>1 DEF SessionInv, SearchesCurrent
  <2>6. SearchResultsCurrent'
    BY <2>1, <2>3, <2>5 DEF SessionInv, SearchResultsCurrent, SearchesCurrent
  <2> QED BY <2>4, <2>6
<1>5. ASSUME UNCHANGED <<stored, activeChannelId, searchQuery, found, searches>>
      PROVE  SearchesCurrent' /\ SearchResultsCurrent'
  <2>1. \A c, q : Search(c, q)' = Search(c, q)
    BY <1>5 DEF Search
  <2> QED BY <1>5, <2>1 DEF SessionInv, SearchesCurrent, SearchResultsCurrent
<1>6. CASE Write \/ SubmitMessage \/ QuickLock \/ SubmitVaultGate \/ RefreshVaultState
  BY <1>5, <1>6 DEF Write, SubmitMessage, QuickLock, SubmitVaultGate, RefreshVaultState
<1>7. CASE MessageStored \/ RunSubmitStatus \/ MessageSubmitted \/ SubmitFails \/ RunLock \/ LockFails
  BY <1>5, <1>7 DEF MessageStored, RunSubmitStatus, MessageSubmitted, SubmitFails, SubmitEnds,
     RunLock, LockFails
<1>8. CASE RunUnlock \/ NothingToLoad
  BY <1>5, <1>8 DEF RunUnlock, NothingToLoad
<1>9. ASSUME NEW l \in Loaders, LoadStep(l)
      PROVE  SearchesCurrent' /\ SearchResultsCurrent'
  BY <1>5, <1>9 DEF LoadStep, RunStatus, StartLoading, RunList, MessagesLoaded, LoadEnds, LoadFails
<1> QED
  BY <1>1, <1>2, <1>3, <1>4, <1>6, <1>7, <1>8, <1>9
  DEF Next, User, SubmitStep, LockStep, SearchStep

LEMMA SubmitNext ==
  ASSUME SessionInv, Next
  PROVE  submit' \in SubmitTasks
<1> USE DEF view, session, loading, tasks, history, native, Elsewhere
<1>1. submit \in SubmitTasks
  BY DEF SessionInv, Tasks
<1>2. CASE SubmitMessage
  <2>1. composerText \in Messages /\ activeChannelId \in Channels
    BY <1>2, SessionAssumption DEF SubmitMessage, SessionInv, TypeOK, Messages
  <2> QED BY <1>2, <2>1 DEF SubmitMessage, SubmitTasks
<1>3. CASE RunQueue
  <2>1. PICK r \in {"stored", "error"} :
          submit.at = "queue" /\ submit' = [submit EXCEPT !.reply = r]
    BY <1>3 DEF RunQueue, Waits
  <2>2. [submit EXCEPT !.reply = r] \in SubmitTasks
    BY <1>1, <2>1, SubmitForm
  <2> QED BY <2>1, <2>2
<1>4. CASE RunSubmitStatus
  <2>1. PICK r \in {"locked", "unlocked", "error"} :
          submit.at = "status" /\ submit' = [submit EXCEPT !.reply = r]
    BY <1>4 DEF RunSubmitStatus, Waits, VaultState
  <2>2. [submit EXCEPT !.reply = r] \in SubmitTasks
    BY <1>1, <2>1, SubmitForm
  <2> QED BY <2>1, <2>2
<1>5. CASE MessageStored \/ MessageSubmitted \/ SubmitFails
  BY <1>5, NewTasks DEF MessageStored, MessageSubmitted, SubmitFails, SubmitEnds
<1>6. CASE UNCHANGED submit
  BY <1>1, <1>6
<1>7. ~(SubmitMessage \/ SubmitStep) => UNCHANGED submit
  BY DEF Next, User, LockStep, SearchStep, LoadStep, SelectChannel, EnterQuery, Write, QuickLock,
     SubmitVaultGate, RefreshVaultState, RunLock, VaultLocked, LockFails, RunUnlock, NothingToLoad,
     RunSearch, SearchReturns, RunStatus, StartLoading, RunList, MessagesLoaded, LoadEnds,
     LoadFails
<1> QED BY <1>2, <1>3, <1>4, <1>5, <1>6, <1>7 DEF SubmitStep

(* While a message is submitted nothing is written in the composer.        *)
LEMMA DraftNext ==
  ASSUME SessionInv, Next
  PROVE  DraftIsNewest'
<1> USE DEF view, session, loading, tasks, history, native, Elsewhere
<1>1. /\ submit \in SubmitTasks
      /\ composerText \in {0, drafts} /\ Archive \subseteq 1 .. drafts
      /\ drafts \in Nat /\ composerBusy = (submit # Idle)
      /\ submit.at = "queue" => submit.message = drafts
      /\ composerText # 0 \/ submit.at = "queue" =>
           \A c \in Channels : drafts \in stored[c] <=> Unreported /\ c = submit.channel
      /\ stored \in [Channels -> SUBSET Messages]
      /\ activeChannelId \in Channels
  BY SessionAssumption DEF SessionInv, Tasks, DraftIsNewest, TypeOK
<1>2. \A c \in Channels : stored[c] \subseteq 1 .. drafts
  BY <1>1 DEF Archive
<1>3. ASSUME UNCHANGED stored
      PROVE  UNCHANGED Archive
  BY <1>3 DEF Archive
<1>4. CASE Write
  <2>1. submit.at = "none" /\ drafts' = drafts + 1 /\ composerText' = drafts + 1
        /\ UNCHANGED <<stored, submit>>
    BY <1>1, <1>4, SubmitForm DEF Write, ComposerWritable
  <2>2. Archive' \subseteq 1 .. drafts'
    <3>1. \A k \in 1 .. drafts : k \in 1 .. drafts + 1
      BY <1>1
    <3> QED BY <1>1, <1>3, <2>1, <3>1
  <2>3. \A c \in Channels : drafts' \notin stored'[c]
    BY <1>1, <1>2, <2>1
  <2> QED BY <2>1, <2>2, <2>3 DEF DraftIsNewest, Unreported
<1>5. CASE SubmitMessage
  <2>1. /\ submit.at = "none" /\ composerText # 0 /\ UNCHANGED <<stored, composerText, drafts>>
        /\ submit' = [at |-> "queue", reply |-> None, message |-> composerText,
                      channel |-> activeChannelId]
    BY <1>1, <1>5, SubmitForm DEF SubmitMessage
  <2>2. submit'.at = "queue" /\ submit'.message = drafts /\ submit'.reply # "stored"
    BY <1>1, <2>1, NoneAssumption
  <2> QED BY <1>1, <1>3, <2>1, <2>2 DEF DraftIsNewest, Unreported
<1>6. CASE RunQueue
  <2>1. submit.at = "queue" /\ submit.reply = None /\ UNCHANGED <<composerText, drafts>>
    BY <1>6 DEF RunQueue, Waits
  <2>2. /\ submit.message = drafts /\ submit.channel \in Channels /\ submit.message \in Messages
        /\ \A c \in Channels : drafts \notin stored[c]
    BY <1>1, <2>1, SubmitForm, NoneAssumption DEF Unreported
  <2>3. CASE submit' = [submit EXCEPT !.reply = "error"] /\ UNCHANGED stored
    <3>1. submit'.at = "queue" /\ submit'.reply = "error" /\ submit'.message = drafts
      BY <1>1, <2>1, <2>2, <2>3, SubmitForm
    <3> QED BY <1>1, <1>3, <2>1, <2>2, <2>3, <3>1 DEF DraftIsNewest, Unreported
  <2>4. CASE /\ stored' = [stored EXCEPT ![submit.channel] = @ \cup {submit.message}]
             /\ submit' = [submit EXCEPT !.reply = "stored"]
    <3>1. /\ submit'.at = "queue" /\ submit'.reply = "stored" /\ submit'.message = drafts
          /\ submit'.channel = submit.channel
      BY <1>1, <2>1, <2>2, <2>4, SubmitForm
    <3>2. \A c \in Channels :
            stored'[c] = IF c = submit.channel THEN stored[c] \cup {drafts} ELSE stored[c]
      BY <1>1, <2>2, <2>4
    <3>3. drafts \in 1 .. drafts
      BY <1>1, <2>2, SessionAssumption DEF Messages
    <3>4. Archive' \subseteq 1 .. drafts'
      <4>1. \A c \in Channels : stored'[c] \subseteq 1 .. drafts
        BY <1>2, <3>2, <3>3
      <4> QED BY <2>1, <4>1 DEF Archive
    <3>5. \A c \in Channels : drafts' \in stored'[c] <=> Unreported' /\ c = submit'.channel
      BY <2>1, <2>2, <3>1, <3>2 DEF Unreported
    <3> QED BY <1>1, <2>1, <3>1, <3>4, <3>5 DEF DraftIsNewest
  <2> QED BY <1>6, <2>3, <2>4 DEF RunQueue
<1>7. CASE MessageStored
  <2>1. composerText' = 0 /\ submit'.at = "status" /\ UNCHANGED <<stored, drafts>>
    BY <1>7, IdleForm DEF MessageStored
  <2> QED BY <1>1, <1>3, <2>1 DEF DraftIsNewest
<1>8. CASE RunSubmitStatus
  <2>1. submit.at = "status" /\ UNCHANGED <<stored, drafts, composerText>>
    BY <1>8 DEF RunSubmitStatus, Waits
  <2>2. submit'.at = "status"
    BY <1>1, <1>8, <2>1, SubmitForm DEF RunSubmitStatus, VaultState
  <2> QED BY <1>1, <1>3, <2>1, <2>2 DEF DraftIsNewest, Unreported
<1>9. CASE MessageSubmitted \/ SubmitFails
  <2>1. ~Unreported /\ submit'.at = "none" /\ UNCHANGED <<stored, drafts, composerText>>
    BY <1>9, IdleForm DEF MessageSubmitted, SubmitFails, SubmitEnds, Has, Unreported
  <2> QED BY <1>1, <1>3, <2>1 DEF DraftIsNewest, Unreported
<1>10. CASE VaultLocked
  <2>1. composerText' = 0 /\ UNCHANGED <<stored, drafts, submit>>
    BY <1>10 DEF VaultLocked
  <2> QED BY <1>1, <1>3, <2>1 DEF DraftIsNewest, Unreported
<1>11. CASE UNCHANGED <<composerText, drafts, stored, submit>>
  BY <1>1, <1>3, <1>11 DEF DraftIsNewest, Unreported
<1>12. ~(Write \/ SubmitMessage \/ SubmitStep \/ VaultLocked)
         => UNCHANGED <<composerText, drafts, stored, submit>>
  BY DEF Next, User, LockStep, SearchStep, LoadStep, SelectChannel, EnterQuery, QuickLock,
     SubmitVaultGate, RefreshVaultState, RunLock, LockFails, RunUnlock, NothingToLoad,
     RunSearch, SearchReturns, RunStatus, StartLoading, RunList, MessagesLoaded, LoadEnds,
     LoadFails
<1> QED
  BY <1>4, <1>5, <1>6, <1>7, <1>8, <1>9, <1>10, <1>11, <1>12 DEF SubmitStep

(* The flags of the user interface: each is set exactly while a function   *)
(* that resets it is in progress.                                          *)
Flags ==
  /\ composerBusy = (submit # Idle)
  /\ vaultBusy = (lock # Idle \/ load["gate"] # Idle)
  /\ vaultLoading = (load["refresh"] # Idle)
  /\ lock = Idle \/ load["gate"] = Idle

(* One loader goes on to t, the other one does not move.                   *)
LEMMA LoaderMoves ==
  ASSUME Loads, NEW l \in Loaders, NEW t \in LoadTasks, load' = [load EXCEPT ![l] = t],
         t.at = "status" => l = "refresh", t.at = "unlock" => l = "gate"
  PROVE  /\ Loads' /\ load'[l] = t
         /\ \A k \in Loaders \ {l} : load'[k] = load[k]
BY DEF Loads, Loaders

LEMMA LoadStatusNext ==
  ASSUME SessionInv, NEW l \in Loaders, RunStatus(l)
  PROVE  /\ load[l].at \in {"status", "recheck"} /\ load'[l].at = load[l].at
         /\ load'[l].reply = VaultState /\ load'[l] # Idle /\ load[l] # Idle
         /\ Loads' /\ \A k \in Loaders \ {l} : load'[k] = load[k]
<1>1. Loads /\ load[l] \in LoadTasks
  BY DEF SessionInv, Tasks, Loads
<1>2. load[l].at \in {"status", "recheck"} /\ load' = [load EXCEPT ![l].reply = VaultState]
  BY DEF RunStatus, Waits
<1>3. VaultState \in {"locked", "unlocked"}
  BY DEF VaultState
<1> DEFINE t == [load[l] EXCEPT !.reply = VaultState]
<1>4. t \in LoadTasks /\ t.at = load[l].at /\ t.reply = VaultState
  BY <1>1, <1>2, <1>3, LoadReply
<1>5. load' = [load EXCEPT ![l] = t]
  BY <1>1, <1>2 DEF Loads
<1>6. t.at # "unlock" /\ (t.at = "status" => l = "refresh")
  BY <1>1, <1>2, <1>4 DEF Loads, Loaders
<1>7. Loads' /\ load'[l] = t /\ \A k \in Loaders \ {l} : load'[k] = load[k]
  <2> HIDE DEF t
  <2> QED BY <1>1, <1>4, <1>5, <1>6, LoaderMoves
<1>8. Idle \in LoadTasks /\ Idle.at = "none"
  BY NewTasks, IdleForm
<1> QED BY <1>2, <1>4, <1>7, <1>8

LEMMA UnlockNext ==
  ASSUME SessionInv, RunUnlock
  PROVE  /\ load["gate"].at = "unlock" /\ load'["gate"].at = "unlock"
         /\ load'["gate"] # Idle /\ load["gate"] # Idle
         /\ Loads' /\ load'["refresh"] = load["refresh"]
<1>1. Loads /\ load["gate"] \in LoadTasks /\ "gate" \in Loaders
  BY DEF SessionInv, Tasks, Loads, Loaders
<1>2. PICK r \in {"unlocked", "error"} :
        load["gate"].at = "unlock" /\ load' = [load EXCEPT !["gate"].reply = r]
  BY DEF RunUnlock, Waits
<1> DEFINE t == [load["gate"] EXCEPT !.reply = r]
<1>3. t \in LoadTasks /\ t.at = "unlock"
  BY <1>1, <1>2, LoadReply
<1>4. load' = [load EXCEPT !["gate"] = t]
  BY <1>1, <1>2 DEF Loads
<1>5. Loads' /\ load'["gate"] = t /\ \A k \in Loaders \ {"gate"} : load'[k] = load[k]
  <2> HIDE DEF t
  <2> QED BY <1>1, <1>3, <1>4, LoaderMoves
<1>6. Idle.at = "none"
  BY IdleForm
<1> QED BY <1>2, <1>3, <1>5, <1>6 DEF Loaders

LEMMA LockNext ==
  ASSUME SessionInv, Next
  PROVE  lock' \in LockTasks
<1> USE DEF view, session, loading, tasks, history, native, Elsewhere
<1>1. lock \in LockTasks
  BY DEF SessionInv, Tasks
<1>2. CASE RunLock
  <2>1. PICK r \in {"locked", "error"} : lock.at = "lock" /\ lock' = [lock EXCEPT !.reply = r]
    BY <1>2 DEF RunLock, Waits
  <2>2. [lock EXCEPT !.reply = r] \in LockTasks
    BY <1>1, <2>1, LockForm
  <2> QED BY <2>1, <2>2
<1>3. CASE QuickLock \/ VaultLocked \/ LockFails
  BY <1>3, NewTasks DEF QuickLock, VaultLocked, LockFails
<1>4. ~(QuickLock \/ LockStep) => UNCHANGED lock
  BY DEF Next, User, SubmitStep, SearchStep, LoadStep, SelectChannel, EnterQuery, Write,
     SubmitMessage, SubmitVaultGate, RefreshVaultState, RunQueue, MessageStored, RunSubmitStatus,
     MessageSubmitted, SubmitFails, SubmitEnds, RunUnlock, NothingToLoad, RunSearch,
     SearchReturns, RunStatus, StartLoading, RunList, MessagesLoaded, LoadEnds, LoadFails
<1> QED BY <1>1, <1>2, <1>3, <1>4 DEF LockStep

(* A busy flag is set and reset together with its function.                *)
LEMMA LoadNext ==
  ASSUME SessionInv, Next
  PROVE  Loads' /\ Flags'
<1> USE DEF view, session, loading, tasks, history, native, Elsewhere
<1>1. Loads /\ Flags /\ submit \in SubmitTasks /\ lock \in LockTasks
  BY DEF SessionInv, Tasks, TypeOK, Flags
<1>2. Idle.at = "none" /\ \A command : Call(command).at = command
  BY IdleForm
<1>3. CASE SubmitMessage \/ MessageStored \/ MessageSubmitted \/ SubmitFails
  <2>1. composerBusy' = (submit' # Idle)
    <3>1. CASE SubmitMessage
      <4>1. submit'.at = "queue" /\ composerBusy' = TRUE
        BY <3>1 DEF SubmitMessage
      <4> QED BY <4>1, <1>2
    <3>2. CASE MessageStored
      <4>1. submit.at = "queue" /\ submit' = Call("status") /\ UNCHANGED composerBusy
        BY <3>2 DEF MessageStored, Has
      <4> QED BY <4>1, <1>1, <1>2 DEF Flags
    <3>3. CASE MessageSubmitted \/ SubmitFails
      BY <3>3 DEF MessageSubmitted, SubmitFails, SubmitEnds
    <3> QED BY <1>3, <3>1, <3>2, <3>3
  <2>2. UNCHANGED <<lock, load, vaultBusy, vaultLoading>>
    BY <1>3 DEF SubmitMessage, MessageStored, MessageSubmitted, SubmitFails, SubmitEnds
  <2> QED BY <1>1, <2>1, <2>2 DEF Flags, Loads
<1>4. CASE RunQueue \/ RunSubmitStatus
  <2>1. submit.at # "none" /\ UNCHANGED <<composerBusy, lock, load, vaultBusy, vaultLoading>>
    BY <1>4 DEF RunQueue, RunSubmitStatus, Waits
  <2>2. submit'.at = submit.at
    <3>1. \/ submit.at = "queue" /\ \E r \in {"stored", "error"} : submit' = [submit EXCEPT !.reply = r]
          \/ /\ submit.at = "status"
             /\ \E r \in {"locked", "unlocked", "error"} : submit' = [submit EXCEPT !.reply = r]
      BY <1>4 DEF RunQueue, RunSubmitStatus, Waits, VaultState
    <3>2. ASSUME NEW r, submit' = [submit EXCEPT !.reply = r], [submit EXCEPT !.reply = r].at = submit.at
          PROVE  submit'.at = submit.at
      BY <3>2
    <3> QED BY <1>1, <3>1, <3>2, SubmitForm
  <2> QED BY <1>1, <1>2, <2>1, <2>2 DEF Flags, Loads
<1>5. CASE QuickLock \/ VaultLocked \/ LockFails \/ RunLock
  <2>1. UNCHANGED <<composerBusy, submit, load, vaultLoading>>
    BY <1>5 DEF QuickLock, VaultLocked, LockFails, RunLock
  <2>2. vaultBusy' = (lock' # Idle \/ load'["gate"] # Idle)
    <3>1. CASE QuickLock
      <4>1. lock'.at = "lock" /\ vaultBusy' = TRUE
        BY <3>1, <1>2 DEF QuickLock
      <4> QED BY <4>1, <1>2
    <3>2. CASE VaultLocked \/ LockFails
      <4>1. lock.at = "lock" /\ lock' = Idle /\ vaultBusy' = FALSE /\ UNCHANGED load
        BY <3>2 DEF VaultLocked, LockFails, Has
      <4>2. load["gate"] = Idle
        BY <1>1, <1>2, <4>1 DEF Flags
      <4> QED BY <4>1, <4>2
    <3>3. CASE RunLock
      <4>1. lock.at = "lock" /\ UNCHANGED <<load, vaultBusy>>
        BY <3>3 DEF RunLock, Waits
      <4>2. lock'.at = "lock"
        BY <1>1, <3>3, <4>1, LockForm DEF RunLock
      <4> QED BY <1>1, <1>2, <4>1, <4>2 DEF Flags
    <3> QED BY <1>5, <3>1, <3>2, <3>3
  <2>3. lock' = Idle \/ load'["gate"] = Idle
    <3>1. load'["gate"] = Idle
      BY <1>1, <1>2, <1>5, <2>1 DEF Flags, QuickLock, VaultLocked, LockFails, RunLock, Has, Waits
    <3> QED BY <3>1
  <2> QED BY <1>1, <2>1, <2>2, <2>3 DEF Flags, Loads
<1>6. CASE SubmitVaultGate
  <2>1. load' = [load EXCEPT !["gate"] = Call("unlock")] /\ vaultBusy' /\ lock = Idle
        /\ UNCHANGED <<composerBusy, submit, lock, vaultLoading>>
    BY <1>1, <1>6 DEF SubmitVaultGate, Flags
  <2>2. /\ Loads' /\ load'["gate"] = Call("unlock") /\ load'["refresh"] = load["refresh"]
    BY <1>1, <1>2, <2>1, NewTasks, LoaderMoves DEF Loaders
  <2>3. load'["gate"] # Idle
    BY <1>2, <2>2
  <2> QED BY <1>1, <1>6, <2>1, <2>2, <2>3 DEF Flags, SubmitVaultGate
<1>7. CASE RefreshVaultState
  <2>1. load' = [load EXCEPT !["refresh"] = Call("status")] /\ vaultLoading' = TRUE
        /\ UNCHANGED <<composerBusy, submit, lock, vaultBusy>>
    BY <1>7 DEF RefreshVaultState
  <2>2. /\ Loads' /\ load'["refresh"] = Call("status") /\ load'["gate"] = load["gate"]
    BY <1>1, <1>2, <2>1, NewTasks, LoaderMoves DEF Loaders
  <2>3. load'["refresh"] # Idle
    BY <1>2, <2>2
  <2> QED BY <1>1, <2>1, <2>2, <2>3 DEF Flags
<1>8. CASE RunUnlock
  <2>1. UNCHANGED <<composerBusy, submit, lock, vaultBusy, vaultLoading>>
    BY <1>8 DEF RunUnlock
  <2> QED BY <1>1, <1>8, <2>1, UnlockNext DEF Flags
<1>9. ASSUME NEW l \in Loaders, RunStatus(l)
      PROVE  Loads' /\ Flags'
  <2>1. UNCHANGED <<composerBusy, submit, lock, vaultBusy, vaultLoading>>
    BY <1>9 DEF RunStatus
  <2>2. Loads' /\ \A k \in Loaders : load'[k] = Idle <=> load[k] = Idle
    BY <1>9, LoadStatusNext
  <2> QED BY <1>1, <2>1, <2>2 DEF Flags, Loaders
<1>10. ASSUME NEW l \in Loaders, StartLoading(l) \/ MessagesLoaded(l)
       PROVE  Loads' /\ Flags'
  <2>1. /\ load[l].at \in {"unlock", "status", "list"}
        /\ \E command \in {"list", "recheck"} : load' = [load EXCEPT ![l] = Call(command)]
        /\ UNCHANGED <<composerBusy, submit, lock, vaultBusy, vaultLoading>>
    BY <1>10 DEF StartLoading, MessagesLoaded
  <2>2. PICK command \in {"list", "recheck"} : load' = [load EXCEPT ![l] = Call(command)]
    BY <2>1
  <2>3. Call(command) \in LoadTasks /\ Call(command).at = command
    BY <1>2, NewTasks
  <2>4. Loads' /\ load'[l] = Call(command) /\ \A k \in Loaders \ {l} : load'[k] = load[k]
    BY <1>1, <2>2, <2>3, LoaderMoves
  <2>5. load[l] # Idle /\ load'[l] # Idle
    BY <1>2, <2>1, <2>3, <2>4
  <2> QED BY <1>1, <2>1, <2>4, <2>5 DEF Flags, Loaders
<1>11. ASSUME NEW l \in Loaders, Ends(l), load[l].at # "none",
              UNCHANGED <<composerBusy, submit, lock>>
       PROVE  Loads' /\ Flags'
  <2>1. load' = [load EXCEPT ![l] = Idle] /\ load[l] # Idle
        /\ vaultBusy' = (vaultBusy /\ l # "gate") /\ vaultLoading' = (vaultLoading /\ l # "refresh")
    BY <1>2, <1>11 DEF Ends
  <2>2. Loads' /\ load'[l] = Idle /\ \A k \in Loaders \ {l} : load'[k] = load[k]
    BY <1>1, <1>2, <2>1, NewTasks, LoaderMoves
  <2>3. CASE l = "gate"
    BY <1>1, <1>11, <2>1, <2>2, <2>3 DEF Flags, Loaders
  <2>4. CASE l = "refresh"
    BY <1>1, <1>11, <2>1, <2>2, <2>4 DEF Flags, Loaders
  <2> QED BY <2>3, <2>4 DEF Loaders
<1>12. CASE NothingToLoad
  BY <1>11, <1>12 DEF NothingToLoad, Has, Loaders
<1>13. ASSUME NEW l \in Loaders, LoadEnds(l) \/ LoadFails(l)
       PROVE  Loads' /\ Flags'
  <2>1. load[l].at # "none" /\ Ends(l) /\ UNCHANGED <<composerBusy, submit, lock>>
    BY <1>13 DEF LoadEnds, LoadFails, Has, Waits
  <2> QED BY <1>11, <2>1
<1>14. ASSUME UNCHANGED <<session, submit, lock, load>>
       PROVE  Loads' /\ Flags'
  BY <1>1, <1>14 DEF Loads, Flags
<1>15. CASE User /\ ~(SubmitMessage \/ QuickLock \/ SubmitVaultGate \/ RefreshVaultState)
  BY <1>14, <1>15 DEF User, SelectChannel, EnterQuery, Write
<1>16. CASE SearchStep \/ \E l \in Loaders, c \in Channels : RunList(l, c)
  BY <1>14, <1>16 DEF SearchStep, RunSearch, SearchReturns, RunList
<1> QED
  BY <1>3, <1>4, <1>5, <1>6, <1>7, <1>8, <1>9, <1>10, <1>12, <1>13, <1>15, <1>16
  DEF Next, User, SubmitStep, LockStep, LoadStep

(* What is committed stays committed.                                      *)
LEMMA StoredNext ==
  ASSUME SessionInv, Next
  PROVE  /\ stored' \in [Channels -> SUBSET Messages]
         /\ \A c \in Channels : stored[c] \subseteq stored'[c]
         /\ Archive \subseteq Archive'
         /\ ~RunQueue => UNCHANGED stored
<1> USE DEF view, session, loading, tasks, history, native, Elsewhere
<1>1. stored \in [Channels -> SUBSET Messages] /\ submit \in SubmitTasks
  BY DEF SessionInv, TypeOK, Tasks
<1>2. CASE RunQueue
  <2>1. submit.at = "queue"
    BY <1>2 DEF RunQueue, Waits
  <2>2. submit.message \in Messages
    BY <1>1, <2>1, SubmitForm
  <2>3. \/ stored' = stored
        \/ stored' = [stored EXCEPT ![submit.channel] = @ \cup {submit.message}]
    BY <1>2 DEF RunQueue
  <2>4. stored' \in [Channels -> SUBSET Messages] /\ \A c \in Channels : stored[c] \subseteq stored'[c]
    BY <1>1, <2>2, <2>3
  <2> QED BY <1>2, <2>4 DEF Archive
<1>3. ~RunQueue => UNCHANGED stored
  BY DEF Next, User, SubmitStep, LockStep, SearchStep, LoadStep, SelectChannel, EnterQuery, Write,
     SubmitMessage, QuickLock, SubmitVaultGate, RefreshVaultState, MessageStored,
     RunSubmitStatus, MessageSubmitted, SubmitFails, SubmitEnds, RunLock, VaultLocked, LockFails,
     RunUnlock, NothingToLoad, RunSearch, SearchReturns, RunStatus, StartLoading, RunList,
     MessagesLoaded, LoadEnds, LoadFails
<1> QED BY <1>1, <1>2, <1>3 DEF Archive

LEMMA ListsNext ==
  ASSUME SessionInv, Next
  PROVE  /\ lists' \in [Loaders -> [Channels -> {None} \cup SUBSET Messages]]
         /\ ListsStored'
<1> USE DEF view, session, loading, tasks, history, native, Elsewhere
<1>1. /\ lists \in [Loaders -> [Channels -> {None} \cup SUBSET Messages]]
      /\ \A l \in Loaders, c \in Channels : lists[l][c] # None => lists[l][c] \subseteq stored[c]
      /\ \A c \in Channels : stored[c] \subseteq stored'[c]
      /\ stored \in [Channels -> SUBSET Messages]
  BY StoredNext DEF SessionInv, TypeOK, ListsStored
<1>2. CASE UNCHANGED lists
  BY <1>1, <1>2 DEF ListsStored
<1>3. ASSUME NEW l \in Loaders, StartLoading(l) \/ MessagesLoaded(l)
      PROVE  /\ lists' \in [Loaders -> [Channels -> {None} \cup SUBSET Messages]]
             /\ ListsStored'
  <2>1. lists' = [lists EXCEPT ![l] = [c \in Channels |-> None]]
    BY <1>3 DEF StartLoading, MessagesLoaded
  <2>2. lists' \in [Loaders -> [Channels -> {None} \cup SUBSET Messages]]
    BY <1>1, <2>1
  <2>3. \A k \in Loaders, c \in Channels : lists'[k][c] \in {None, lists[k][c]}
    BY <1>1, <2>1
  <2> QED BY <1>1, <2>2, <2>3 DEF ListsStored
<1>4. ASSUME NEW l \in Loaders, NEW d \in Channels, RunList(l, d)
      PROVE  /\ lists' \in [Loaders -> [Channels -> {None} \cup SUBSET Messages]]
             /\ ListsStored'
  <2>1. lists' = [lists EXCEPT ![l][d] = ListMessages(d)]
    BY <1>4 DEF RunList
  <2>2. ListMessages(d) \subseteq stored[d] /\ ListMessages(d) \in SUBSET Messages
    BY <1>1 DEF ListMessages
  <2>3. lists' \in [Loaders -> [Channels -> {None} \cup SUBSET Messages]]
    BY <1>1, <2>1, <2>2
  <2>4. \A k \in Loaders, c \in Channels :
          lists'[k][c] = IF k = l /\ c = d THEN ListMessages(d) ELSE lists[k][c]
    BY <1>1, <2>1
  <2> QED BY <1>1, <2>2, <2>3, <2>4 DEF ListsStored
<1>5. CASE ~(\E l \in Loaders : \/ StartLoading(l) \/ MessagesLoaded(l)
                                 \/ \E c \in Channels : RunList(l, c))
  <2>1. UNCHANGED lists
    BY <1>5 DEF Next, User, SubmitStep, LockStep, SearchStep, LoadStep, SelectChannel, EnterQuery,
     Write, SubmitMessage, QuickLock, SubmitVaultGate, RefreshVaultState, RunQueue, MessageStored,
     RunSubmitStatus, MessageSubmitted, SubmitFails, SubmitEnds, RunLock, VaultLocked, LockFails,
     RunUnlock, NothingToLoad, RunSearch, SearchReturns, RunStatus, LoadEnds, LoadFails
  <2> QED BY <1>2, <2>1
<1> QED BY <1>3, <1>4, <1>5

(* Nothing is shown that is not in the archive.                            *)
LEMMA MessagesNext ==
  ASSUME SessionInv, Next
  PROVE  messages' \in [Channels -> Seq(Archive')]
<1> USE DEF view, session, loading, tasks, history, native, Elsewhere
<1>1. /\ messages \in [Channels -> Seq(Archive)] /\ Archive \subseteq Archive'
      /\ activeChannelId \in Channels
  BY StoredNext DEF SessionInv, TypeOK
<1>2. messages \in [Channels -> Seq(Archive')]
  <2>1. \A c \in Channels : messages[c] \in Seq(Archive')
    BY <1>1, SeqMonotonic
  <2> QED BY <1>1, <2>1
<1>3. CASE MessageStored
  <2>1. /\ submit.at = "queue" /\ submit.reply = "stored"
        /\ messages' = [messages EXCEPT ![activeChannelId] = Append(@, submit.message)]
    BY <1>3 DEF MessageStored, Has
  <2>2. submit.message = drafts /\ submit.channel \in Channels /\ drafts \in stored[submit.channel]
    BY <2>1, SubmitForm DEF SessionInv, Tasks, DraftIsNewest, Unreported
  <2>3. submit.message \in Archive'
    BY <1>1, <2>2 DEF Archive
  <2>4. Append(messages[activeChannelId], submit.message) \in Seq(Archive')
    BY <1>1, <1>2, <2>3, AppendProperties
  <2> QED BY <1>1, <1>2, <2>1, <2>4
<1>4. CASE VaultLocked
  BY <1>4, EmptySeq DEF VaultLocked
<1>5. ASSUME NEW l \in Loaders, MessagesLoaded(l)
      PROVE  messages' \in [Channels -> Seq(Archive')]
  <2>1. /\ \A c \in Channels : lists[l][c] # None
        /\ messages' = [c \in Channels |-> InOrder(lists[l][c])]
    BY <1>5 DEF MessagesLoaded
  <2>2. ASSUME NEW c \in Channels
        PROVE  InOrder(lists[l][c]) \in Seq(Archive')
    <3>1. lists[l][c] \in SUBSET stored[c]
      BY <2>1 DEF SessionInv, ListsStored
    <3>2. lists[l][c] \in SUBSET Nat /\ IsFiniteSet(lists[l][c]) /\ lists[l][c] \subseteq Archive
      BY <3>1, StoredFacts, FS_Subset DEF SessionInv
    <3>3. InOrder(lists[l][c]) \in Seq(lists[l][c])
      BY <3>2, InOrderSeq
    <3>4. lists[l][c] \subseteq Archive'
      BY <1>1, <3>2
    <3> QED BY <3>3, <3>4, SeqMonotonic
  <2> QED BY <2>1, <2>2
<1>6. CASE UNCHANGED messages
  BY <1>2, <1>6
<1>7. ~(MessageStored \/ VaultLocked \/ \E l \in Loaders : MessagesLoaded(l)) => UNCHANGED messages
  BY DEF Next, User, SubmitStep, LockStep, SearchStep, LoadStep, SelectChannel, EnterQuery, Write,
     SubmitMessage, QuickLock, SubmitVaultGate, RefreshVaultState, RunQueue,
     RunSubmitStatus, MessageSubmitted, SubmitFails, SubmitEnds, RunLock, LockFails,
     RunUnlock, NothingToLoad, RunSearch, SearchReturns, RunStatus, StartLoading, RunList,
     LoadEnds, LoadFails
<1> QED BY <1>3, <1>4, <1>5, <1>6, <1>7

(* The native state, what is on display and the searches.                  *)
LEMMA ViewNext ==
  ASSUME SessionInv, Next
  PROVE  /\ open' \in BOOLEAN
         /\ activeChannelId' \in Channels
         /\ searchQuery' \in Queries \cup {NoQuery}
         /\ found' \in {None} \cup SUBSET Messages
         /\ searches' \subseteq SearchTasks
<1> USE DEF view, session, loading, tasks, history, native, Elsewhere
<1>1. /\ open \in BOOLEAN
      /\ activeChannelId \in Channels
      /\ searchQuery \in Queries \cup {NoQuery}
      /\ found \in {None} \cup SUBSET Messages
      /\ searches \subseteq SearchTasks
  BY DEF SessionInv, TypeOK, Tasks
<1>2. open' \in BOOLEAN
  <2>1. CASE RunUnlock \/ RunLock
    BY <1>1, <2>1 DEF RunUnlock, RunLock
  <2>2. ~(RunUnlock \/ RunLock) => UNCHANGED open
    BY DEF Next, User, SubmitStep, LockStep, SearchStep, LoadStep, SelectChannel, EnterQuery, Write,
     SubmitMessage, QuickLock, SubmitVaultGate, RefreshVaultState, RunQueue, MessageStored,
     RunSubmitStatus, MessageSubmitted, SubmitFails, SubmitEnds, VaultLocked, LockFails,
     NothingToLoad, RunSearch, SearchReturns, RunStatus, StartLoading, RunList,
     MessagesLoaded, LoadEnds, LoadFails
  <2> QED BY <1>1, <2>1, <2>2
<1>3. CASE (\E c \in Channels : SelectChannel(c)) \/ (\E q \in Queries \cup {NoQuery} : EnterQuery(q))
           \/ VaultLocked
  <2>1. \E q \in Queries \cup {NoQuery}, c \in Channels : Watch(q, c) /\ UNCHANGED stored
    BY <1>3 DEF SelectChannel, EnterQuery, VaultLocked, SessionInv, TypeOK
  <2> QED BY <1>2, <2>1, WatchKeeps
<1>4. CASE SearchStep
  <2>1. PICK s \in searches : RunSearch(s) \/ SearchReturns(s)
    BY <1>4 DEF SearchStep
  <2>2. s \in SearchTasks
    BY <1>1
  <2>3. CASE RunSearch(s)
    <3>1. PICK ids \in {{}} \cup {Search(s.channel, s.query)} :
            searches' = (searches \ {s}) \cup {[s EXCEPT !.reply = ids]}
      BY <2>3 DEF RunSearch
    <3>2. ids \in SUBSET Messages
      BY <2>2, <3>1, SearchForm, StoredFacts DEF Search, SessionInv
    <3>3. [s EXCEPT !.reply = ids] \in SearchTasks
      BY <2>2, <3>2, SearchForm
    <3>4. UNCHANGED <<activeChannelId, searchQuery, found>>
      BY <2>3 DEF RunSearch
    <3> QED BY <1>1, <1>2, <3>1, <3>3, <3>4
  <2>4. CASE SearchReturns(s)
    <3>1. s.reply \in {None} \cup SUBSET Messages
      BY <2>2, SearchForm
    <3> QED BY <1>1, <1>2, <2>4, <3>1 DEF SearchReturns
  <2> QED BY <2>1, <2>3, <2>4
<1>5. ~(\/ \E c \in Channels : SelectChannel(c)
        \/ \E q \in Queries \cup {NoQuery} : EnterQuery(q)
        \/ VaultLocked \/ SearchStep)
        => UNCHANGED <<activeChannelId, searchQuery, found, searches>>
  BY DEF Next, User, SubmitStep, LockStep, LoadStep, Write,
     SubmitMessage, QuickLock, SubmitVaultGate, RefreshVaultState, RunQueue, MessageStored,
     RunSubmitStatus, MessageSubmitted, SubmitFails, SubmitEnds, RunLock, LockFails,
     RunUnlock, NothingToLoad, RunStatus, StartLoading, RunList,
     MessagesLoaded, LoadEnds, LoadFails
<1> QED BY <1>1, <1>2, <1>3, <1>4, <1>5

LEMMA DraftsNext ==
  ASSUME SessionInv, Next
  PROVE  drafts' \in 0 .. MaxMessages /\ composerText' \in 0 .. drafts'
<1> USE DEF view, session, loading, tasks, history, native, Elsewhere
<1>1. drafts \in 0 .. MaxMessages
  BY DEF SessionInv, TypeOK
<1>2. drafts' \in 0 .. MaxMessages
  <2>1. CASE Write
    BY <1>1, <2>1, SessionAssumption DEF Write
  <2>2. ~Write => UNCHANGED drafts
    BY DEF Next, User, SubmitStep, LockStep, SearchStep, LoadStep, SelectChannel, EnterQuery,
     SubmitMessage, QuickLock, SubmitVaultGate, RefreshVaultState, RunQueue, MessageStored,
     RunSubmitStatus, MessageSubmitted, SubmitFails, SubmitEnds, RunLock, VaultLocked, LockFails,
     RunUnlock, NothingToLoad, RunSearch, SearchReturns, RunStatus, StartLoading, RunList,
     MessagesLoaded, LoadEnds, LoadFails
  <2> QED BY <1>1, <2>1, <2>2
<1>3. composerText' \in {0, drafts'}
  BY DraftNext DEF DraftIsNewest
<1> QED BY <1>2, <1>3, SessionAssumption

LEMMA StatusNext ==
  ASSUME SessionInv, Next
  PROVE  vaultStatus' \in {"unknown", "locked", "unlocked"}
<1> USE DEF view, session, loading, tasks, history, native, Elsewhere
<1>1. vaultStatus \in {"unknown", "locked", "unlocked"} /\ Loads /\ submit \in SubmitTasks
  BY DEF SessionInv, TypeOK, Tasks
<1>2. CASE MessageSubmitted
  BY <1>1, <1>2, SubmitForm DEF MessageSubmitted
<1>3. CASE VaultLocked \/ NothingToLoad
  BY <1>3 DEF VaultLocked, NothingToLoad
<1>4. ASSUME NEW l \in Loaders, StartLoading(l) \/ LoadEnds(l) \/ LoadFails(l)
      PROVE  vaultStatus' \in {"unknown", "locked", "unlocked"}
  <2>1. load[l] \in LoadTasks
    BY <1>1 DEF Loads
  <2> QED BY <1>1, <1>4, <2>1, LoadForm DEF StartLoading, LoadEnds, LoadFails
<1>5. ~(\/ MessageSubmitted \/ VaultLocked \/ NothingToLoad
        \/ \E l \in Loaders : StartLoading(l) \/ LoadEnds(l) \/ LoadFails(l))
        => UNCHANGED vaultStatus
  BY DEF Next, User, SubmitStep, LockStep, SearchStep, LoadStep, SelectChannel, EnterQuery, Write,
     SubmitMessage, QuickLock, SubmitVaultGate, RefreshVaultState, RunQueue, MessageStored,
     RunSubmitStatus, SubmitFails, SubmitEnds, RunLock, LockFails, RunUnlock, RunSearch,
     SearchReturns, RunStatus, RunList, MessagesLoaded
<1> QED BY <1>1, <1>2, <1>3, <1>4, <1>5

LEMMA TypeNext ==
  ASSUME SessionInv, Next
  PROVE  TypeOK' /\ Tasks'
<1>1. submit' \in SubmitTasks /\ lock' \in LockTasks /\ Loads' /\ Flags'
  BY SubmitNext, LockNext, LoadNext
<1>2. searches' \subseteq SearchTasks
  BY ViewNext
<1>3. Tasks'
  BY <1>1, <1>2 DEF Tasks, Flags
<1>4. submit'.at # "none" => submit'.reply \in Replies
  BY <1>1, SubmitForm, IdleForm DEF Replies
<1>5. lock'.at # "none" => lock'.reply \in Replies
  BY <1>1, LockForm, IdleForm DEF Replies
<1>6. /\ composerBusy' = (submit' # Idle)
      /\ vaultBusy' = (lock' # Idle \/ load'["gate"] # Idle)
      /\ vaultLoading' = (load'["refresh"] # Idle)
  BY <1>1 DEF Flags
<1>7. TypeOK'
  BY <1>4, <1>5, <1>6, StoredNext, ListsNext, MessagesNext, ViewNext, DraftsNext, StatusNext
  DEF TypeOK
<1> QED BY <1>3, <1>7

(* What the history of an undisturbed loading depends on.                  *)
LEMMA UndisturbedKept ==
  ASSUME Undisturbed, UNCHANGED <<lastLoad, submit, vaultStatus, load, lists, stored, messages>>
  PROVE  Undisturbed'
<1>1. \A c : UNCHANGED ListMessages(c) /\ UNCHANGED Reported(c)
  BY DEF ListMessages, Reported, Unreported
<1> QED BY <1>1 DEF Undisturbed, SubmitsAlone, LoadsAlone, ListsCurrent, AllShown, vaultIsUnlocked

(* A message that is not reported yet is the only one that is left out.    *)
LEMMA AllReported ==
  ASSUME ~Unreported
  PROVE  \A c : Reported(c) = stored[c]
BY DEF Reported

(* While a function of a submission changes neither messages nor loaders,  *)
(* what is reported and shown stays the same.                              *)
LEMMA UndisturbedSubmit ==
  ASSUME SessionInv, Next, RunQueue \/ RunSubmitStatus \/ MessageSubmitted \/ SubmitFails
  PROVE  Undisturbed'
<1> USE DEF view, session, loading, tasks, history, native, Elsewhere
<1> SUFFICES ASSUME lastLoad' = "complete"
             PROVE  SubmitsAlone' /\ LoadsAlone' /\ ListsCurrent' /\ AllShown'
  BY DEF Undisturbed
<1>1. submit \in SubmitTasks /\ stored \in [Channels -> SUBSET Messages]
  BY DEF SessionInv, Tasks, TypeOK
<1>2. submit # Idle /\ UNCHANGED <<lastLoad, load, lists, messages>>
  <2>1. submit.at \in {"queue", "status"} /\ UNCHANGED <<lastLoad, load, lists, messages>>
    BY DEF RunQueue, RunSubmitStatus, MessageSubmitted, SubmitFails, SubmitEnds, Waits, Has
  <2> QED BY <2>1, IdleForm
<1>3. /\ vaultIsUnlocked /\ (\A l \in Loaders : load[l] = Idle)
      /\ AllShown
  BY <1>2 DEF SessionInv, Undisturbed, SubmitsAlone
<1>4. \A l \in Loaders : load'[l] = Idle /\ load'[l].at = "none" /\ load[l].at = "none"
  BY <1>2, <1>3, IdleForm
<1>5. \A c \in Channels : Shows(messages[c], Reported(c))
  BY <1>3, <1>4 DEF AllShown
<1>6. submit' # Idle => vaultIsUnlocked'
  <2>1. CASE RunQueue \/ RunSubmitStatus
    BY <1>3, <2>1 DEF RunQueue, RunSubmitStatus, vaultIsUnlocked
  <2>2. CASE MessageSubmitted \/ SubmitFails
    BY <2>2 DEF MessageSubmitted, SubmitFails, SubmitEnds
  <2> QED BY <2>1, <2>2
<1>7. \A c \in Channels : Reported(c)' = Reported(c)
  <2>1. CASE RunQueue
    <3>1. submit.at = "queue" /\ submit.reply # "stored" /\ submit.message = drafts
      BY <2>1, NoneAssumption DEF RunQueue, Waits, SessionInv, DraftIsNewest
    <3>2. \A c \in Channels : submit.message \notin stored[c]
      BY <3>1 DEF SessionInv, DraftIsNewest, Unreported
    <3>3. \A c \in Channels : Reported(c) = stored[c]
      BY <3>1, AllReported DEF Unreported
    <3>4. CASE UNCHANGED stored /\ submit' = [submit EXCEPT !.reply = "error"]
      <4>1. submit'.reply # "stored"
        BY <1>1, <3>1, <3>4, SubmitForm
      <4> QED BY <3>3, <3>4, <4>1 DEF Reported, Unreported
    <3>5. CASE /\ stored' = [stored EXCEPT ![submit.channel] = @ \cup {submit.message}]
               /\ submit' = [submit EXCEPT !.reply = "stored"]
      <4>1. /\ submit'.at = "queue" /\ submit'.reply = "stored"
            /\ submit'.message = submit.message /\ submit'.channel = submit.channel
        BY <1>1, <3>1, <3>5, SubmitForm
      <4>2. \A c \in Channels :
              stored'[c] = IF c = submit.channel THEN stored[c] \cup {submit.message} ELSE stored[c]
        BY <1>1, <3>5
      <4> QED BY <3>2, <3>3, <4>1, <4>2 DEF Reported, Unreported
    <3> QED BY <2>1, <3>4, <3>5 DEF RunQueue
  <2>2. CASE RunSubmitStatus
    <3>1. submit.at = "status" /\ UNCHANGED stored
      BY <2>2 DEF RunSubmitStatus, Waits
    <3>2. submit'.at = "status"
      BY <1>1, <2>2, <3>1, SubmitForm DEF RunSubmitStatus, VaultState
    <3> QED BY <3>1, <3>2 DEF Reported, Unreported
  <2>3. CASE MessageSubmitted \/ SubmitFails
    <3>1. ~Unreported /\ submit'.at = "none" /\ UNCHANGED stored
      BY <2>3, IdleForm DEF MessageSubmitted, SubmitFails, SubmitEnds, Has, Unreported
    <3> QED BY <3>1 DEF Reported, Unreported
  <2> QED BY <2>1, <2>2, <2>3
<1>8. SubmitsAlone' /\ LoadsAlone' /\ ListsCurrent'
  BY <1>4, <1>6 DEF SubmitsAlone, LoadsAlone, ListsCurrent
<1>9. AllShown'
  BY <1>2, <1>5, <1>7 DEF AllShown
<1> QED BY <1>8, <1>9

(* The stored message is newer than all that are shown.                    *)
LEMMA UndisturbedStored ==
  ASSUME SessionInv, MessageStored
  PROVE  Undisturbed'
<1> USE DEF view, session, loading, tasks, history, native, Elsewhere
<1> SUFFICES ASSUME lastLoad' = "complete"
             PROVE  SubmitsAlone' /\ LoadsAlone' /\ ListsCurrent' /\ AllShown'
  BY DEF Undisturbed
<1> DEFINE m == submit.message
           a == activeChannelId
<1>1. /\ submit \in SubmitTasks /\ stored \in [Channels -> SUBSET Messages]
      /\ messages \in [Channels -> Seq(Archive)] /\ a \in Channels
  BY DEF SessionInv, Tasks, TypeOK
<1>2. /\ submit.at = "queue" /\ submit.reply = "stored" /\ submit # Idle
      /\ UNCHANGED <<load, lists, stored, vaultStatus>>
      /\ messages' = [messages EXCEPT ![a] = Append(@, m)]
      /\ submit' = Call("status")
      /\ submit.channel = a /\ lastLoad = "complete"
  BY IdleForm DEF MessageStored, Has, Overlapped
<1>3. vaultIsUnlocked /\ (\A l \in Loaders : load[l] = Idle) /\ AllShown
  BY <1>2 DEF SessionInv, Undisturbed, SubmitsAlone
<1>4. \A l \in Loaders : load'[l] = Idle /\ load'[l].at = "none" /\ load[l].at = "none"
  BY <1>2, <1>3, IdleForm
<1>5. \A c \in Channels : Shows(messages[c], Reported(c))
  BY <1>3, <1>4 DEF AllShown
<1>6. vaultIsUnlocked'
  BY <1>2, <1>3 DEF vaultIsUnlocked
<1>7. \A c \in Channels : /\ Reported(c) = IF c = a THEN stored[c] \ {m} ELSE stored[c]
                          /\ Reported(c)' = stored[c]
  <2>1. submit'.at # "queue"
    BY <1>2, IdleForm
  <2> QED BY <1>2, <2>1 DEF Reported, Unreported
<1>8. \A c \in Channels : c # a => messages'[c] = messages[c]
  BY <1>1, <1>2
<1>9. Shows(messages'[a], stored[a])
  <2> DEFINE S == stored[a] \ {m}
  <2>1. m = drafts /\ m \in stored[a] /\ m \in Nat
    BY <1>1, <1>2, StoredFacts DEF SessionInv, DraftIsNewest, Unreported
  <2>2. S \in SUBSET Nat /\ IsFiniteSet(S)
    BY <1>1, StoredFacts, FS_Subset DEF SessionInv
  <2>3. \A n \in S : n < m
    <3>1. \A n \in S : n \in 1 .. m /\ n # m
      BY <1>1, <2>1, StoredFacts DEF SessionInv, DraftIsNewest
    <3> QED BY <2>1, <3>1
  <2>4. messages[a] \in Seq(Nat)
    <3>1. Archive \subseteq Nat
      BY StoredFacts DEF SessionInv
    <3> QED BY <1>1, <3>1, SeqMonotonic
  <2>5. Shows(messages[a], S)
    BY <1>1, <1>5, <1>7
  <2>6. Shows(Append(messages[a], m), S \cup {m})
    BY <2>1, <2>2, <2>3, <2>4, <2>5, ShowsNewest
  <2>7. S \cup {m} = stored[a] /\ messages'[a] = Append(messages[a], m)
    BY <1>1, <1>2, <2>1
  <2> QED BY <2>6, <2>7
<1>10. AllShown'
  <2>1. \A c \in Channels : Shows(messages'[c], stored[c])
    BY <1>5, <1>7, <1>8, <1>9
  <2>2. \A c \in Channels : Shows(messages'[c], Reported(c)')
    BY <1>7, <2>1
  <2> QED BY <2>2 DEF AllShown, Shows
<1> QED BY <1>4, <1>6, <1>10 DEF SubmitsAlone, LoadsAlone, ListsCurrent

(* A loader that has not come to the listings, or that ends, shows nothing *)
(* else.                                                                   *)
LEMMA UndisturbedLoad ==
  ASSUME SessionInv, lastLoad = "complete", UNCHANGED <<submit, stored, messages, lists>>,
         submit = Idle \/ \A l \in Loaders : load[l] = Idle /\ load'[l] = Idle,
         vaultIsUnlocked' => vaultIsUnlocked,
         submit # Idle => vaultIsUnlocked',
         \A l \in Loaders : load'[l].at \in {"list", "recheck"} =>
           /\ load[l].at = load'[l].at /\ vaultIsUnlocked'
           /\ \A k \in Loaders \ {l} : load[k] = Idle => load'[k] = Idle,
         vaultIsUnlocked' => \A l \in Loaders : load[l].at = "list" => load'[l].at = "list"
  PROVE  SubmitsAlone' /\ LoadsAlone' /\ ListsCurrent' /\ AllShown'
<1>1. SubmitsAlone /\ LoadsAlone /\ ListsCurrent /\ AllShown
  BY DEF SessionInv, Undisturbed
<1>2. \A c : UNCHANGED ListMessages(c) /\ UNCHANGED Reported(c)
  BY DEF ListMessages, Reported, Unreported
<1>3. SubmitsAlone'
  BY DEF SubmitsAlone
<1>4. LoadsAlone'
  BY <1>1 DEF LoadsAlone
<1>5. ListsCurrent'
  BY <1>1, <1>2 DEF ListsCurrent
<1>6. AllShown'
  BY <1>1, <1>2 DEF AllShown
<1> QED BY <1>3, <1>4, <1>5, <1>6

LEMMA UndisturbedNext ==
  ASSUME SessionInv, Next
  PROVE  Undisturbed'
<1> USE DEF view, session, loading, tasks, history, native, Elsewhere
<1>1. /\ submit \in SubmitTasks /\ Loads /\ Undisturbed
      /\ stored \in [Channels -> SUBSET Messages]
      /\ lists \in [Loaders -> [Channels -> {None} \cup SUBSET Messages]]
      /\ messages \in [Channels -> Seq(Archive)]
  BY DEF SessionInv, Tasks, TypeOK
<1>2. lastLoad = "complete" => SubmitsAlone /\ LoadsAlone /\ ListsCurrent /\ AllShown
  BY <1>1 DEF Undisturbed
<1>3. Idle.at = "none" /\ (\A command : Call(command).at = command)
      /\ Overlapped # "complete"
  BY IdleForm DEF Overlapped
<1>4. \A l \in Loaders : \A t : load' = [load EXCEPT ![l] = t] =>
        load'[l] = t /\ \A k \in Loaders \ {l} : load'[k] = load[k]
  BY <1>1 DEF Loads
<1>5. ASSUME lastLoad = "complete", \E l \in Loaders : load[l] # Idle
      PROVE  submit = Idle
  BY <1>2, <1>5 DEF SubmitsAlone
<1>6. CASE SubmitMessage
  <2> SUFFICES ASSUME lastLoad' = "complete"
               PROVE  SubmitsAlone' /\ LoadsAlone' /\ ListsCurrent' /\ AllShown'
    BY DEF Undisturbed
  <2>1. /\ lastLoad = "complete" /\ \A l \in Loaders : load[l] = Idle
        /\ vaultIsUnlocked /\ UNCHANGED <<vaultStatus, stored, load, lists, messages>>
        /\ submit = Idle /\ submit'.reply = None
    BY <1>3, <1>6 DEF SubmitMessage, SessionInv, TypeOK
  <2>2. ~Unreported /\ ~Unreported'
    BY <1>3, <2>1, NoneAssumption DEF Unreported
  <2>3. \A c : UNCHANGED Reported(c)
    BY <2>1, <2>2 DEF Reported
  <2>4. \A l \in Loaders : load'[l] = Idle /\ load'[l].at = "none"
    BY <1>3, <2>1
  <2> QED BY <1>2, <2>1, <2>3, <2>4
          DEF SubmitsAlone, LoadsAlone, ListsCurrent, AllShown, vaultIsUnlocked
<1>7. CASE VaultLocked
  <2> SUFFICES ASSUME lastLoad' = "complete"
               PROVE  SubmitsAlone' /\ LoadsAlone' /\ ListsCurrent' /\ AllShown'
    BY DEF Undisturbed
  <2>1. /\ submit' = Idle /\ \A l \in Loaders : load'[l] = Idle
        /\ vaultStatus' = "locked"
    BY <1>3, <1>7 DEF VaultLocked
  <2>2. \A l \in Loaders : load'[l].at = "none"
    BY <1>3, <2>1
  <2> QED BY <2>1, <2>2 DEF SubmitsAlone, LoadsAlone, ListsCurrent, AllShown, vaultIsUnlocked
<1>8. CASE SubmitVaultGate \/ RefreshVaultState
  <2> SUFFICES ASSUME lastLoad' = "complete"
               PROVE  SubmitsAlone' /\ LoadsAlone' /\ ListsCurrent' /\ AllShown'
    BY DEF Undisturbed
  <2>1. /\ lastLoad = "complete" /\ ~vaultIsUnlocked /\ ~vaultIsUnlocked'
        /\ UNCHANGED <<submit, stored, messages, lists>>
    BY <1>8 DEF SubmitVaultGate, RefreshVaultState, vaultIsUnlocked
  <2>2. PICK l \in Loaders, command \in {"unlock", "status"} :
          load' = [load EXCEPT ![l] = Call(command)]
    BY <1>8 DEF SubmitVaultGate, RefreshVaultState, Loaders
  <2>3. load'[l].at = command /\ \A k \in Loaders \ {l} : load'[k] = load[k]
    BY <1>3, <1>4, <2>2
  <2>4. submit = Idle
    BY <1>2, <2>1 DEF SubmitsAlone
  <2>5. \A k \in Loaders : load[k].at \notin {"list", "recheck"}
    BY <1>2, <2>1 DEF LoadsAlone
  <2>6. \A k \in Loaders : load'[k].at \notin {"list", "recheck"}
    BY <2>3, <2>5
  <2> QED BY <2>1, <2>4, <2>6, UndisturbedLoad
<1>9. ASSUME RunUnlock \/ \E l \in Loaders : RunStatus(l)
      PROVE  Undisturbed'
  <2> SUFFICES ASSUME lastLoad' = "complete"
               PROVE  SubmitsAlone' /\ LoadsAlone' /\ ListsCurrent' /\ AllShown'
    BY DEF Undisturbed
  <2>1. /\ UNCHANGED <<submit, stored, messages, lists, vaultStatus>> /\ lastLoad = "complete"
    BY <1>9 DEF RunUnlock, RunStatus
  <2>2. /\ \A k \in Loaders : load'[k].at = load[k].at /\ (load[k] = Idle => load'[k] = Idle)
        /\ \E k \in Loaders : load[k] # Idle
    BY <1>9, UnlockNext, LoadStatusNext DEF Loaders
  <2>3. submit = Idle
    BY <1>5, <2>1, <2>2
  <2>4. \A k \in Loaders : load'[k].at \in {"list", "recheck"} => vaultIsUnlocked
    BY <1>2, <2>1, <2>2 DEF LoadsAlone
  <2> QED BY <2>1, <2>2, <2>3, <2>4, UndisturbedLoad DEF vaultIsUnlocked
<1>10. ASSUME NEW l \in Loaders, StartLoading(l)
       PROVE  Undisturbed'
  <2> SUFFICES ASSUME lastLoad' = "complete"
               PROVE  SubmitsAlone' /\ LoadsAlone' /\ ListsCurrent' /\ AllShown'
    BY DEF Undisturbed
  <2>1. /\ submit = Idle /\ UNCHANGED submit /\ (\A k \in Loaders \ {l} : load[k] = Idle)
        /\ vaultStatus' = "unlocked"
        /\ load' = [load EXCEPT ![l] = Call("list")]
        /\ lists' = [lists EXCEPT ![l] = [c \in Channels |-> None]]
    BY <1>10 DEF StartLoading
  <2>2. load'[l].at = "list" /\ \A k \in Loaders \ {l} : load'[k] = Idle /\ load'[k].at = "none"
    BY <1>3, <1>4, <2>1
  <2>3. \A c \in Channels : lists'[l][c] = None
    BY <1>1, <2>1
  <2> QED BY <2>1, <2>2, <2>3
          DEF SubmitsAlone, LoadsAlone, ListsCurrent, AllShown, vaultIsUnlocked
<1>11. CASE NothingToLoad
  <2> SUFFICES ASSUME lastLoad' = "complete"
               PROVE  SubmitsAlone' /\ LoadsAlone' /\ ListsCurrent' /\ AllShown'
    BY DEF Undisturbed
  <2>1. /\ lastLoad = "complete" /\ load["refresh"].at = "status" /\ vaultStatus' = "locked"
        /\ UNCHANGED <<submit, stored, messages, lists>>
        /\ load' = [load EXCEPT !["refresh"] = Idle]
    BY <1>11 DEF NothingToLoad, Has, Ends
  <2>2. load["refresh"] # Idle /\ "refresh" \in Loaders
    BY <1>3, <2>1 DEF Loaders
  <2>3. submit = Idle
    BY <1>5, <2>1, <2>2
  <2>4. \A k \in Loaders : load[k].at \notin {"list", "recheck"}
    BY <1>2, <2>1, <2>2 DEF LoadsAlone, Loaders
  <2>5. \A k \in Loaders : load'[k] = Idle \/ load'[k] = load[k]
    BY <1>4, <2>1, <2>2
  <2>6. \A k \in Loaders : load'[k].at \notin {"list", "recheck"}
    BY <1>3, <2>4, <2>5
  <2> QED BY <2>1, <2>3, <2>6, UndisturbedLoad DEF vaultIsUnlocked
<1>12. ASSUME NEW l \in Loaders, NEW d \in Channels, RunList(l, d)
       PROVE  Undisturbed'
  <2> SUFFICES ASSUME lastLoad' = "complete"
               PROVE  SubmitsAlone' /\ LoadsAlone' /\ ListsCurrent' /\ AllShown'
    BY DEF Undisturbed
  <2>1. /\ lastLoad = "complete" /\ UNCHANGED <<submit, stored, messages, load, vaultStatus>>
        /\ lists' = [lists EXCEPT ![l][d] = ListMessages(d)]
    BY <1>12 DEF RunList
  <2>2. \A k \in Loaders, c \in Channels :
          lists'[k][c] = IF k = l /\ c = d THEN ListMessages(d) ELSE lists[k][c]
    BY <1>1, <2>1
  <2>3. \A c : UNCHANGED ListMessages(c) /\ UNCHANGED Reported(c)
    BY <2>1 DEF ListMessages, Reported, Unreported
  <2>4. ListsCurrent'
    BY <1>2, <2>1, <2>2, <2>3 DEF ListsCurrent
  <2> QED BY <1>2, <2>1, <2>3, <2>4 DEF SubmitsAlone, LoadsAlone, AllShown, vaultIsUnlocked
<1>13. ASSUME NEW l \in Loaders, MessagesLoaded(l)
       PROVE  Undisturbed'
  <2> SUFFICES ASSUME lastLoad' = "complete"
               PROVE  SubmitsAlone' /\ LoadsAlone' /\ ListsCurrent' /\ AllShown'
    BY DEF Undisturbed
  <2>1. /\ lastLoad = "complete" /\ UNCHANGED <<submit, stored, vaultStatus>>
        /\ load[l].at = "list" /\ \A c \in Channels : lists[l][c] # None
        /\ load' = [load EXCEPT ![l] = Call("recheck")]
        /\ messages' = [c \in Channels |-> InOrder(lists[l][c])]
    BY <1>13 DEF MessagesLoaded
  <2>2. submit = Idle
    BY <1>3, <1>5, <2>1
  <2>3. vaultIsUnlocked /\ \A k \in Loaders \ {l} : load[k] = Idle
    BY <1>2, <2>1 DEF LoadsAlone
  <2>4. load'[l].at = "recheck" /\ \A k \in Loaders \ {l} : load'[k] = Idle /\ load'[k].at = "none"
    BY <1>3, <1>4, <2>1, <2>3
  <2>5. \A c \in Channels : messages'[c] = InOrder(Oldest(stored[c]))
    BY <1>2, <2>1, OldestListed DEF ListsCurrent
  <2>6. \A c \in Channels : Shows(messages'[c], stored[c])
    BY <2>5, StoredFacts, ListingShows DEF SessionInv
  <2>7. \A c : Reported(c)' = stored[c]
    BY <1>3, <2>1, <2>2 DEF Reported, Unreported
  <2>8. AllShown'
    BY <2>6, <2>7 DEF AllShown, Shows
  <2> QED BY <2>1, <2>2, <2>3, <2>4, <2>8
          DEF SubmitsAlone, LoadsAlone, ListsCurrent, vaultIsUnlocked
<1>14. ASSUME NEW l \in Loaders, LoadEnds(l) \/ LoadFails(l)
       PROVE  Undisturbed'
  <2> SUFFICES ASSUME lastLoad' = "complete"
               PROVE  SubmitsAlone' /\ LoadsAlone' /\ ListsCurrent' /\ AllShown'
    BY DEF Undisturbed
  <2>1. /\ lastLoad = "complete" /\ load[l].at \in {"recheck", "unlock"}
        /\ UNCHANGED <<submit, stored, messages, lists>>
        /\ load' = [load EXCEPT ![l] = Idle]
    BY <1>14 DEF LoadEnds, LoadFails, Ends, Has, Waits
  <2>2. load'[l] = Idle /\ load'[l].at = "none" /\ \A k \in Loaders \ {l} : load'[k] = load[k]
    BY <1>3, <1>4, <2>1
  <2>3. submit = Idle
    BY <1>3, <1>5, <2>1
  <2>4. \A k \in Loaders : load'[k].at \notin {"list", "recheck"}
    BY <1>2, <1>3, <2>1, <2>2 DEF LoadsAlone
  <2>5. \A k \in Loaders : load[k].at # "list"
    BY <2>1, <2>2, <2>4
  <2>6. vaultIsUnlocked' => vaultIsUnlocked
    <3>1. CASE load[l].at = "recheck"
      BY <1>2, <2>1, <3>1 DEF LoadsAlone
    <3>2. CASE load[l].at = "unlock"
      BY <1>14, <3>2 DEF LoadEnds, LoadFails, vaultIsUnlocked
    <3> QED BY <2>1, <3>1, <3>2
  <2> QED BY <2>1, <2>3, <2>4, <2>5, <2>6, UndisturbedLoad
<1>15. CASE \/ \E c \in Channels : SelectChannel(c)
            \/ \E q \in Queries \cup {NoQuery} : EnterQuery(q)
            \/ Write \/ QuickLock \/ RunLock \/ LockFails \/ SearchStep
  <2>1. UNCHANGED <<lastLoad, submit, vaultStatus, load, lists, stored, messages>>
    BY <1>15 DEF SelectChannel, EnterQuery, Write, QuickLock, RunLock, LockFails, SearchStep,
       RunSearch, SearchReturns
  <2> QED BY <1>1, <2>1, UndisturbedKept
<1> QED
  BY <1>6, <1>7, <1>8, <1>9, <1>10, <1>11, <1>12, <1>13, <1>14, <1>15, UndisturbedSubmit,
     UndisturbedStored
  DEF Next, User, SubmitStep, LockStep, LoadStep

-----------------------------------------------------------------------------
(***************************************************************************)
(* The theorems.                                                           *)
(***************************************************************************)
LEMMA NextInv == SessionInv /\ [Next]_vars => SessionInv'
<1>1. ASSUME SessionInv, Next
      PROVE  SessionInv'
  BY <1>1, TypeNext, ListsNext, SearchNext, DraftNext, UndisturbedNext DEF SessionInv
<1>2. ASSUME SessionInv, UNCHANGED vars
      PROVE  SessionInv'
  <2> USE DEF vars, view, session, loading, tasks, history, native
  <2>1. UNCHANGED Archive /\ \A c, q : UNCHANGED Search(c, q)
    BY <1>2 DEF Archive, Search
  <2>2. TypeOK' /\ Tasks' /\ ListsStored'
    BY <1>2, <2>1 DEF SessionInv, TypeOK, Tasks, Loads, ListsStored
  <2>3. SearchesCurrent' /\ SearchResultsCurrent' /\ DraftIsNewest'
    BY <1>2, <2>1 DEF SessionInv, SearchesCurrent, SearchResultsCurrent, DraftIsNewest, Unreported
  <2>4. Undisturbed'
    BY <1>2, UndisturbedKept DEF SessionInv
  <2> QED BY <2>2, <2>3, <2>4 DEF SessionInv
<1> QED BY <1>1, <1>2

LEMMA Invariance == Spec => []SessionInv
<1> QED BY InitInv, NextInv, PTL DEF Spec

(* The user interface and its functions are of their types, a busy flag is *)
(* set exactly while a function that resets it is in progress, and nothing *)
(* is shown that has not been committed.                                   *)
THEOREM TypeCorrect == Spec => []TypeOK
<1>1. SessionInv => TypeOK
  BY DEF SessionInv
<1> QED BY <1>1, Invariance, PTL

(* Search results on display are results of the query and the channel on   *)
(* display, in whatever order the searches are answered.                   *)
THEOREM ResultsAreCurrent == Spec => []SearchResultsCurrent
<1>1. SessionInv => SearchResultsCurrent
  BY DEF SessionInv
<1> QED BY <1>1, Invariance, PTL

(* After a loading that nothing has interfered with, each channel shows    *)
(* its messages, each once and in order: submitMessage's push at the end   *)
(* agrees with the order that list_messages would return.                  *)
THEOREM HistoryIsComplete == Spec => []HistoryComplete
<1>1. ASSUME SessionInv, Quiet, vaultIsUnlocked, lastLoad = "complete", NEW c \in Channels
      PROVE  /\ IsPrefix(InOrder(ListMessages(c)), messages[c])
             /\ Cardinality(stored[c]) <= ListLimit => Len(messages[c]) = Cardinality(stored[c])
  <2>1. submit.at = "none" /\ \A l \in Loaders : load[l].at = "none"
    BY <1>1, IdleForm DEF Quiet
  <2>2. Shows(messages[c], Reported(c))
    BY <1>1, <2>1 DEF SessionInv, Undisturbed, AllShown
  <2>3. Reported(c) = stored[c]
    BY <2>1 DEF Reported, Unreported
  <2> QED BY <2>2, <2>3, OldestListed DEF Shows
<1>2. SessionInv => HistoryComplete
  BY <1>1 DEF HistoryComplete
<1> QED BY <1>2, Invariance, PTL

(* The composer is emptied only when its text has been stored, or by a     *)
(* lock.                                                                   *)
THEOREM DraftIsKept == Spec => DraftKept
<1>1. ASSUME SessionInv, [Next]_vars, composerText # 0, composerText' = 0
      PROVE  composerText \in Archive' \/ (vaultStatus' = "locked" /\ lock # Idle)
  <2> USE DEF vars, view, session, loading, tasks, history, native, Elsewhere
  <2>1. CASE MessageStored
    <3>1. submit.at = "queue" /\ submit.reply = "stored" /\ UNCHANGED stored
      BY <2>1 DEF MessageStored, Has
    <3>2. composerText = drafts /\ submit.channel \in Channels
          /\ drafts \in stored[submit.channel]
      BY <1>1, <3>1, SubmitForm DEF SessionInv, Tasks, DraftIsNewest, Unreported
    <3> QED BY <3>1, <3>2 DEF Archive
  <2>2. CASE VaultLocked
    BY <2>2, IdleForm DEF VaultLocked, Has
  <2>3. CASE Write
    BY <1>1, <2>3, SessionAssumption DEF Write, SessionInv, TypeOK
  <2>4. [Next]_vars /\ ~(MessageStored \/ VaultLocked \/ Write) => UNCHANGED composerText
    BY DEF Next, User, SubmitStep, LockStep, SearchStep, LoadStep, SelectChannel, EnterQuery,
     SubmitMessage, QuickLock, SubmitVaultGate, RefreshVaultState, RunQueue, RunSubmitStatus,
     MessageSubmitted, SubmitFails, SubmitEnds, RunLock, LockFails, RunUnlock, NothingToLoad,
     RunSearch, SearchReturns, RunStatus, StartLoading, RunList, MessagesLoaded, LoadEnds,
     LoadFails
  <2> QED BY <1>1, <2>1, <2>2, <2>3, <2>4
<1>2. SessionInv /\ [Next]_vars =>
        [composerText # 0 /\ composerText' = 0 =>
           composerText \in Archive' \/ (vaultStatus' = "locked" /\ lock # Idle)]_vars
  BY <1>1
<1> QED BY <1>2, Invariance, PTL DEF Spec, DraftKept
=============================================================================
