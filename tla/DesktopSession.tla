--------------------------- MODULE DesktopSession ---------------------------
(***************************************************************************)
(* What the desktop's user interface holds of an unlocked vault            *)
(* (apps/desktop/src/App.vue), with the vault commands it calls            *)
(* (src-tauri/src/lib.rs) and the archive's listing and search             *)
(* (crates/singularis-vault/src/vault.rs).                                 *)
(*                                                                         *)
(* An async function of the user interface runs from one await to the next *)
(* without interruption; between them everything else may happen.  A call  *)
(* of a command is three steps: it is sent, it is executed, its reply is   *)
(* taken up.  Replies of different calls come in any order.  Every command *)
(* may fail.                                                               *)
(*                                                                         *)
(* Messages are numbered in the order of their drafts, which is the order  *)
(* of created_at_ms; preview messages, which are not of the vault, are     *)
(* left out.  Initializing a vault and unlocking it look the same here.    *)
(***************************************************************************)
EXTENDS Naturals, FiniteSets, SequencesExt

CONSTANTS
  Channels,
  Queries,      \* non-empty search queries
  NoQuery,      \* the empty one
  None,         \* no reply yet, no results
  Matches,      \* the messages that each query matches
  ListLimit,    \* LIST_LIMIT: messages one listing returns
  MaxMessages,  \* bound: drafts
  MaxSearches   \* bound: searches in progress

Messages == 1 .. MaxMessages

ASSUME SessionAssumption ==
  /\ NoQuery \notin Queries
  /\ MaxMessages \in Nat
  /\ Matches \in [Queries -> SUBSET Messages]
  /\ ListLimit \in Nat \ {0}
  /\ MaxSearches \in Nat

(* None is neither a reply of a command nor what one has found.            *)
ASSUME NoneAssumption ==
  /\ None \notin {"stored", "error", "locked", "unlocked"}
  /\ \A set \in SUBSET Messages : None # set

VARIABLES
  (* the native side *)
  open,          \* the vault holds a database connection
  stored,        \* table local_messages: the messages of each channel
  (* the user interface *)
  activeChannelId,
  composerText,  \* the draft in the composer, 0 when it is empty
  composerBusy,
  vaultBusy,
  vaultLoading,
  vaultStatus,   \* what it takes the vault's state for
  messages,      \* the vault-backed messages shown in each channel
  searchQuery,
  found,         \* vaultSearchMessageIds
  (* its async functions in progress *)
  submit,        \* submitMessage
  lock,          \* quickLock
  load,          \* submitVaultGate and refreshVaultState
  lists,         \* the listings that loadVaultMessages has got for them
  searches,      \* the callbacks of searchVaultMessages
  (* history *)
  drafts,        \* number of drafts so far
  lastLoad       \* how the last loading of the messages went

native == <<open, stored>>
view == <<activeChannelId, composerText, messages, searchQuery, found>>
session == <<composerBusy, vaultBusy, vaultLoading, vaultStatus>>
loading == <<load, lists>>
tasks == <<submit, lock, loading, searches>>
history == <<drafts, lastLoad>>
vars == <<native, view, session, tasks, history>>

(* A function that does not run, and one that waits for a command's reply. *)
Idle == [at |-> "none"]
Call(command) == [at |-> command, reply |-> None]

Waits(task, command) == task.at = command /\ task.reply = None
Has(task, command, reply) == task.at = command /\ task.reply = reply

Loaders == {"gate", "refresh"}

(* At start onMounted has called refreshVaultState; the native side may be *)
(* older than the page.                                                    *)
Init ==
  /\ open \in BOOLEAN
  /\ stored = [c \in Channels |-> {}]
  /\ activeChannelId \in Channels
  /\ composerText = 0
  /\ composerBusy = FALSE
  /\ vaultBusy = FALSE
  /\ vaultLoading = TRUE
  /\ vaultStatus = "unknown"
  /\ messages = [c \in Channels |-> << >>]
  /\ searchQuery = NoQuery
  /\ found = None
  /\ submit = Idle
  /\ lock = Idle
  /\ load = [l \in Loaders |-> IF l = "refresh" THEN Call("status") ELSE Idle]
  /\ lists = [l \in Loaders |-> [c \in Channels |-> None]]
  /\ searches = {}
  /\ drafts = 0
  /\ lastLoad = "failed"

VaultState == IF open THEN "unlocked" ELSE "locked"

vaultIsUnlocked == vaultStatus = "unlocked"

(* No function is in progress.                                             *)
Quiet == submit = Idle /\ lock = Idle /\ \A l \in Loaders : load[l] = Idle

(* History: a submission, a lock or a change of channel has interfered.    *)
Overlapped == IF lastLoad = "failed" THEN "failed" ELSE "overlapped"

-----------------------------------------------------------------------------
(***************************************************************************)
(* Search.  The watcher on query and channel runs when one of them has     *)
(* changed: older searches are outdated (vaultSearchRevision), the results *)
(* are dropped and a new search is sent.                                   *)
(***************************************************************************)
Search(channel, query) == {m \in stored[channel] : m \in Matches[query]}

(* Faulty: older searches stay valid.                                      *)
NothingOutdated(set) == set

Outdated(set) == {[s EXCEPT !.current = FALSE] : s \in set}

NewSearch(query, channel) ==
  IF query # NoQuery /\ vaultIsUnlocked
  THEN {[channel |-> channel, query |-> query, current |-> TRUE, reply |-> None]}
  ELSE {}

Watch(query, channel) ==
  LET changed == <<query, channel>> # <<searchQuery, activeChannelId>> IN
  /\ searchQuery' = query
  /\ activeChannelId' = channel
  /\ searches' = IF changed THEN Outdated(searches) \cup NewSearch(query, channel) ELSE searches
  /\ found' = IF changed THEN None ELSE found

SelectChannel(channel) ==
  /\ Watch(NoQuery, channel)
  /\ UNCHANGED <<native, composerText, messages, session, submit, lock, loading, history>>

(* The search field, its closing button and Escape.                        *)
EnterQuery(query) ==
  /\ query # NoQuery => Cardinality(searches) < MaxSearches
  /\ Watch(query, activeChannelId)
  /\ UNCHANGED <<native, composerText, messages, session, submit, lock, loading, history>>

(* vault_search_messages.                                                  *)
RunSearch(s) ==
  /\ s.reply = None
  /\ \E ids \in {{}} \cup IF open THEN {Search(s.channel, s.query)} ELSE {} :
       searches' = (searches \ {s}) \cup {[s EXCEPT !.reply = ids]}
  /\ UNCHANGED <<native, view, session, submit, lock, loading, history>>

(* A failed search counts as one without results.                          *)
SearchReturns(s) ==
  /\ s.reply # None
  /\ searches' = searches \ {s}
  /\ found' = IF s.current THEN s.reply ELSE found
  /\ UNCHANGED <<native, activeChannelId, composerText, messages, searchQuery, session,
                 submit, lock, loading, history>>

-----------------------------------------------------------------------------
(***************************************************************************)
(* submitMessage                                                           *)
(***************************************************************************)
(* Faulty: the composer can be written in while a message is submitted.    *)
ComposerAlwaysWritable == vaultIsUnlocked

(* The textarea is disabled otherwise.                                     *)
ComposerWritable == vaultIsUnlocked /\ ~composerBusy

Write ==
  /\ ComposerWritable
  /\ drafts < MaxMessages
  /\ drafts' = drafts + 1
  /\ composerText' = drafts + 1
  /\ UNCHANGED <<native, activeChannelId, messages, searchQuery, found, session, tasks, lastLoad>>

(* The draft becomes a message of the channel shown now.                   *)
SubmitMessage ==
  /\ composerText # 0
  /\ vaultIsUnlocked
  /\ ~composerBusy
  /\ composerBusy' = TRUE
  /\ submit' = [at |-> "queue", reply |-> None, message |-> composerText,
                channel |-> activeChannelId]
  /\ lastLoad' = IF \E l \in Loaders : load[l] # Idle THEN Overlapped ELSE lastLoad
  /\ UNCHANGED <<native, view, vaultBusy, vaultLoading, vaultStatus, lock, loading, searches, drafts>>

(* vault_queue_message: the message is committed to the archive.           *)
RunQueue ==
  /\ Waits(submit, "queue")
  /\ \/ /\ open
        /\ stored' = [stored EXCEPT ![submit.channel] = @ \cup {submit.message}]
        /\ submit' = [submit EXCEPT !.reply = "stored"]
     \/ /\ submit' = [submit EXCEPT !.reply = "error"]
        /\ UNCHANGED stored
  /\ UNCHANGED <<open, view, session, lock, loading, searches, history>>

(* The stored message is shown, in the channel active by now.              *)
MessageStored ==
  /\ Has(submit, "queue", "stored")
  /\ messages' = [messages EXCEPT ![activeChannelId] = Append(@, submit.message)]
  /\ composerText' = 0
  /\ submit' = Call("status")
  /\ lastLoad' = IF submit.channel # activeChannelId THEN Overlapped ELSE lastLoad
  /\ UNCHANGED <<native, activeChannelId, searchQuery, found, session, lock, loading,
                 searches, drafts>>

RunSubmitStatus ==
  /\ Waits(submit, "status")
  /\ \E reply \in {VaultState, "error"} : submit' = [submit EXCEPT !.reply = reply]
  /\ UNCHANGED <<native, view, session, lock, loading, searches, history>>

SubmitEnds ==
  /\ composerBusy' = FALSE
  /\ submit' = Idle
  /\ UNCHANGED <<native, view, vaultBusy, vaultLoading, lock, loading, searches, history>>

(* Faulty: the flag is reset after a success only.                         *)
BusyAfterError ==
  /\ \E command \in {"queue", "status"} : Has(submit, command, "error")
  /\ submit' = Idle
  /\ UNCHANGED <<native, view, session, lock, loading, searches, history>>

SubmitFails ==
  /\ \E command \in {"queue", "status"} : Has(submit, command, "error")
  /\ SubmitEnds
  /\ UNCHANGED vaultStatus

(* (The outbox status that is refreshed at the end is OutboxStatus's       *)
(* subject.)                                                               *)
MessageSubmitted ==
  /\ submit.at = "status"
  /\ submit.reply \notin {None, "error"}
  /\ vaultStatus' = submit.reply
  /\ SubmitEnds

-----------------------------------------------------------------------------
(***************************************************************************)
(* quickLock                                                               *)
(***************************************************************************)
(* (Camera and screen, which it switches off first, and the microphone are *)
(* MediaSession's subject.)                                                *)
QuickLock ==
  /\ ~vaultBusy
  /\ vaultBusy' = TRUE
  /\ lock' = Call("lock")
  /\ UNCHANGED <<native, view, composerBusy, vaultLoading, vaultStatus, submit, loading,
                 searches, history>>

(* vault_lock: the connection is gone whether closing it fails or not.     *)
RunLock ==
  /\ Waits(lock, "lock")
  /\ open' = FALSE
  /\ \E reply \in {"locked", "error"} : lock' = [lock EXCEPT !.reply = reply]
  /\ UNCHANGED <<stored, view, session, submit, loading, searches, history>>

(* clearVaultBackedState, and the watcher if there was a query.            *)
VaultLocked ==
  /\ Has(lock, "lock", "locked")
  /\ vaultStatus' = "locked"
  /\ messages' = [c \in Channels |-> << >>]
  /\ composerText' = 0
  /\ Watch(NoQuery, activeChannelId)
  /\ vaultBusy' = FALSE
  /\ lock' = Idle
  /\ lastLoad' = IF submit # Idle \/ \E l \in Loaders : load[l] # Idle THEN Overlapped ELSE lastLoad
  /\ UNCHANGED <<native, composerBusy, vaultLoading, submit, loading, drafts>>

(* Nothing is cleared when the command fails.                              *)
LockFails ==
  /\ Has(lock, "lock", "error")
  /\ vaultBusy' = FALSE
  /\ lock' = Idle
  /\ UNCHANGED <<native, view, composerBusy, vaultLoading, vaultStatus, submit, loading,
                 searches, history>>

-----------------------------------------------------------------------------
(***************************************************************************)
(* submitVaultGate and refreshVaultState, which both end in                *)
(* loadVaultMessages.                                                      *)
(***************************************************************************)
Elsewhere == <<view, composerBusy, submit, lock, searches, drafts>>

(* The form of the gate is shown when the state is known and not unlocked. *)
SubmitVaultGate ==
  /\ vaultStatus = "locked"
  /\ ~vaultLoading
  /\ ~vaultBusy
  /\ vaultBusy' = TRUE
  /\ load' = [load EXCEPT !["gate"] = Call("unlock")]
  /\ UNCHANGED <<native, vaultLoading, vaultStatus, lists, lastLoad, Elsewhere>>

(* The button that is shown when the state is not known.                   *)
RefreshVaultState ==
  /\ vaultStatus = "unknown"
  /\ ~vaultLoading
  /\ vaultLoading' = TRUE
  /\ load' = [load EXCEPT !["refresh"] = Call("status")]
  /\ UNCHANGED <<native, vaultBusy, vaultStatus, lists, lastLoad, Elsewhere>>

(* vault_unlock; it can fail after the connection has been opened.         *)
RunUnlock ==
  /\ Waits(load["gate"], "unlock")
  /\ \E reply \in {"unlocked", "error"} :
       /\ load' = [load EXCEPT !["gate"].reply = reply]
       /\ open' \in IF reply = "unlocked" THEN {TRUE} ELSE {open, TRUE}
  /\ UNCHANGED <<stored, vaultBusy, vaultLoading, vaultStatus, lists, lastLoad, Elsewhere>>

(* vault_status, before or after the listings.                             *)
RunStatus(l) ==
  /\ Waits(load[l], "status") \/ Waits(load[l], "recheck")
  /\ load' = [load EXCEPT ![l].reply = VaultState]
  /\ UNCHANGED <<native, vaultBusy, vaultLoading, vaultStatus, lists, lastLoad, Elsewhere>>

Ends(l) ==
  /\ load' = [load EXCEPT ![l] = Idle]
  /\ vaultBusy' = (vaultBusy /\ l # "gate")
  /\ vaultLoading' = (vaultLoading /\ l # "refresh")

(* The vault is unlocked: its messages are asked for.                      *)
StartLoading(l) ==
  /\ load[l].at \in {"unlock", "status"}
  /\ load[l].reply = "unlocked"
  /\ vaultStatus' = "unlocked"
  /\ load' = [load EXCEPT ![l] = Call("list")]
  /\ lists' = [lists EXCEPT ![l] = [c \in Channels |-> None]]
  /\ lastLoad' = IF submit # Idle \/ (\E k \in Loaders \ {l} : load[k] # Idle)
                 THEN "overlapped" ELSE "complete"
  /\ UNCHANGED <<native, vaultBusy, vaultLoading, Elsewhere>>

NothingToLoad ==
  /\ Has(load["refresh"], "status", "locked")
  /\ vaultStatus' = "locked"
  /\ Ends("refresh")
  /\ UNCHANGED <<native, lists, lastLoad, Elsewhere>>

(* vault_list_messages: the oldest ListLimit messages of the channel.      *)
ListMessages(channel) ==
  {m \in stored[channel] : Cardinality({n \in stored[channel] : n <= m}) <= ListLimit}

RunList(l, channel) ==
  /\ load[l].at = "list"
  /\ lists[l][channel] = None
  /\ open
  /\ lists' = [lists EXCEPT ![l][channel] = ListMessages(channel)]
  /\ UNCHANGED <<native, vaultBusy, vaultLoading, vaultStatus, load, lastLoad, Elsewhere>>

(* A listing in the order of its messages.                                 *)
InOrder(set) ==
  CHOOSE seq \in [1 .. Cardinality(set) -> set] :
    \A i, j \in 1 .. Cardinality(set) : i < j => seq[i] < seq[j]

(* Faulty: only the channel on display is filled.                          *)
FillActiveChannel(l) ==
  /\ load[l].at = "list"
  /\ \A c \in Channels : lists[l][c] # None
  /\ messages' = [messages EXCEPT ![activeChannelId] = InOrder(lists[l][activeChannelId])]
  /\ load' = [load EXCEPT ![l] = Call("recheck")]
  /\ lists' = [lists EXCEPT ![l] = [c \in Channels |-> None]]
  /\ UNCHANGED <<native, activeChannelId, composerText, searchQuery, found, session, submit,
                 lock, searches, history>>

(* All listings are there and replace what was shown.                      *)
MessagesLoaded(l) ==
  /\ load[l].at = "list"
  /\ \A c \in Channels : lists[l][c] # None
  /\ messages' = [c \in Channels |-> InOrder(lists[l][c])]
  /\ load' = [load EXCEPT ![l] = Call("recheck")]
  /\ lists' = [lists EXCEPT ![l] = [c \in Channels |-> None]]
  /\ UNCHANGED <<native, activeChannelId, composerText, searchQuery, found, session, submit,
                 lock, searches, history>>

LoadEnds(l) ==
  /\ load[l].at = "recheck"
  /\ load[l].reply # None
  /\ vaultStatus' = load[l].reply
  /\ Ends(l)
  /\ UNCHANGED <<native, lists, lastLoad, Elsewhere>>

(* One of the calls fails.  The gate leaves the state as it is, the        *)
(* refresh forgets it.                                                     *)
LoadFails(l) ==
  /\ \/ Has(load[l], "unlock", "error")
     \/ Waits(load[l], "status") \/ load[l].at = "list" \/ Waits(load[l], "recheck")
  /\ vaultStatus' = IF l = "refresh" THEN "unknown" ELSE vaultStatus
  /\ Ends(l)
  /\ lastLoad' = IF load[l].at = "unlock" THEN lastLoad ELSE "failed"
  /\ UNCHANGED <<native, lists, Elsewhere>>

-----------------------------------------------------------------------------
User ==
  \/ \E c \in Channels : SelectChannel(c)
  \/ \E q \in Queries \cup {NoQuery} : EnterQuery(q)
  \/ Write \/ SubmitMessage \/ QuickLock \/ SubmitVaultGate \/ RefreshVaultState

(* The steps of the async functions: each call executed, each reply taken  *)
(* up.                                                                     *)
SubmitStep == RunQueue \/ MessageStored \/ RunSubmitStatus \/ MessageSubmitted \/ SubmitFails

LockStep == RunLock \/ VaultLocked \/ LockFails

LoadStep(l) ==
  \/ RunStatus(l) \/ StartLoading(l) \/ \E c \in Channels : RunList(l, c)
  \/ MessagesLoaded(l) \/ LoadEnds(l) \/ LoadFails(l)

SearchStep == \E s \in searches : RunSearch(s) \/ SearchReturns(s)

Next ==
  \/ User
  \/ SubmitStep \/ LockStep \/ RunUnlock \/ NothingToLoad \/ SearchStep
  \/ \E l \in Loaders : LoadStep(l)

Spec == Init /\ [][Next]_vars

-----------------------------------------------------------------------------
(***************************************************************************)
(* Properties                                                              *)
(***************************************************************************)

Archive == UNION {stored[c] : c \in Channels}

Replies == {None, "stored", "error", "locked", "unlocked"}

(* Type invariant.  A busy flag is set exactly while a function that       *)
(* resets it is in progress, whichever calls fail, and nothing is shown    *)
(* that has not been committed to the archive.                             *)
TypeOK ==
  /\ open \in BOOLEAN
  /\ stored \in [Channels -> SUBSET Messages]
  /\ activeChannelId \in Channels
  /\ composerText \in 0 .. drafts
  /\ composerBusy = (submit # Idle)
  /\ vaultBusy = (lock # Idle \/ load["gate"] # Idle)
  /\ vaultLoading = (load["refresh"] # Idle)
  /\ vaultStatus \in {"unknown", "locked", "unlocked"}
  /\ messages \in [Channels -> Seq(Archive)]
  /\ searchQuery \in Queries \cup {NoQuery}
  /\ found \in {None} \cup SUBSET Messages
  /\ submit.at # "none" => submit.reply \in Replies
  /\ lock.at # "none" => lock.reply \in Replies
  /\ lists \in [Loaders -> [Channels -> {None} \cup SUBSET Messages]]
  /\ drafts \in 0 .. MaxMessages

(* Search results on display are results of the query and the channel on   *)
(* display, although searches may be answered late, in any order, or after *)
(* a lock (the watcher and vaultSearchRevision).                           *)
SearchResultsCurrent ==
  found # None => searchQuery # NoQuery /\ found \subseteq Search(activeChannelId, searchQuery)

(* The composer is emptied only when its text has been stored, or by a     *)
(* lock: a submission that fails or returns late discards no draft.        *)
DraftKept ==
  [][composerText # 0 /\ composerText' = 0 =>
       composerText \in Archive' \/ (vaultStatus' = "locked" /\ lock # Idle)]_vars

(* The local log is the source of the visible history (Singularis.md:58).  *)
(* When nothing has interfered with the last loading and no message was    *)
(* stored after a change of channel, each channel shows its messages, each *)
(* once and in order.  Of a longer archive than one listing returns, the   *)
(* oldest ones are sure to be shown.                                       *)
HistoryComplete ==
  Quiet /\ vaultIsUnlocked /\ lastLoad = "complete" =>
    \A c \in Channels :
      /\ IsPrefix(InOrder(ListMessages(c)), messages[c])
      /\ Cardinality(stored[c]) <= ListLimit => Len(messages[c]) = Cardinality(stored[c])

(* ADR 0004, item 6: locking clears vault-backed state of the user         *)
(* interface.                                                              *)
LockedShowsNothing ==
  Quiet /\ vaultStatus = "locked" => \A c \in Channels : messages[c] = << >>
=============================================================================
