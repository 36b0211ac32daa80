---------------------------- MODULE StateManager ----------------------------
(***************************************************************************)
(* MerkleStateManager with the storage of the accounts: the cache of slots *)
(* with its own diff maps, and the storage tries kept open per account.    *)
(* The accounts and the checkpoints are those of AccountCache.             *)
(*                                                                         *)
(* Storing a slot does not write the storage trie.  When the last          *)
(* checkpoint has been closed flush takes the slots of the diff map to the *)
(* storage tries, account by account, puts the new storage roots into the  *)
(* accounts, and then flushes the accounts.                                *)
(*                                                                         *)
(* Nonce, balance and code are abstracted to what the code asks of them:   *)
(* nothing at all, a balance only, a nonce or code.                        *)
(***************************************************************************)
EXTENDS AccountCache

CONSTANTS
    Slot,
    Value,     \* of a slot; 0 is the value of a slot that is not stored
    NoTrie     \* _storageTries has no trie for the account

StorageRoot == [Slot -> Value]

ASSUME StateAssumption ==
    /\ 0 \in Value
    /\ NotCached \notin Value /\ NoEntry \notin Value \cup {NotCached}
    /\ NoTrie \notin StorageRoot
    /\ Account = [data : {"empty", "funded", "contract"}, storageRoot : StorageRoot]

VARIABLES
    slots,         \* StorageCache._orderedMapCache, or _lruCache
    slotDiff,      \* StorageCache._diffCache, height 0 first
    storageTries   \* MerkleStateManager._storageTries

storageVars == <<slots, slotDiff, storageTries>>
stateVars == <<cacheVars, storageVars>>

-----------------------------------------------------------------------------

AllSlots == Address \X Slot
EmptyTrie == [k \in Slot |-> 0]
NoSlotDiff == [ak \in AllSlots |-> NoEntry]
NoStorageTries == [a \in Address |-> NoTrie]
NoSlots == [ak \in AllSlots |-> NotCached]

(* _getStorageTrie, for an account that exists. *)
StorageTrie(a) ==
    IF storageTries[a] = NoTrie THEN Current(a).storageRoot ELSE storageTries[a]

(* What getStorage returns. *)
StorageOf(a, k) ==
    CASE slots[<<a, k>>] # NotCached -> slots[<<a, k>>]
      [] slots[<<a, k>>] = NotCached /\ Current(a) = NoAccount -> 0
      [] OTHER -> StorageTrie(a)[k]

StateInit ==
    /\ CacheInit
    /\ slots = NoSlots
    /\ slotDiff = <<NoSlotDiff>>
    /\ storageTries = NoStorageTries

-----------------------------------------------------------------------------
(* Accounts. *)

StatePut(a, account) == PutAccount(a, account) /\ UNCHANGED storageVars

(* Mutation: the account is dropped from the cache instead. *)
DeleteUncached(a) ==
    /\ cache' = [cache EXCEPT ![a] = NotCached]
    /\ slots' = [ak \in AllSlots |-> IF ak[1] = a THEN NotCached ELSE slots[ak]]
    /\ UNCHANGED <<trie, roots, diffCache, slotDiff, storageTries>>

(* The cached slots go without an entry in the diff map, and a storage     *)
(* trie that is open stays.                                                *)
StateDelete(a) ==
    /\ DeleteAccount(a)
    /\ slots' = [ak \in AllSlots |-> IF ak[1] = a THEN NotCached ELSE slots[ak]]
    /\ UNCHANGED <<slotDiff, storageTries>>

(* putAccount, clearStorage and the nonce, for an account being created. *)
StateCreate(a) ==
    /\ CachePut(a, [data |-> "contract", storageRoot |-> EmptyTrie])
    /\ slots' = [ak \in AllSlots |-> IF ak[1] = a THEN NotCached ELSE slots[ak]]
    /\ storageTries' = [storageTries EXCEPT ![a] = EmptyTrie]
    /\ slotDiff' = slotDiff

-----------------------------------------------------------------------------
(* Slots. *)

SlotPut(a, k, v) ==
    /\ slots' = [slots EXCEPT ![<<a, k>>] = v]
    /\ slotDiff' = [slotDiff EXCEPT ![Top][<<a, k>>] =
                        IF @ = NoEntry THEN slots[<<a, k>>] ELSE @]

(* A slot that is not cached is looked up in the trie, which stays open. *)
Looked(a, k) ==
    IF slots[<<a, k>>] = NotCached THEN [storageTries EXCEPT ![a] = StorageTrie(a)]
                               ELSE storageTries

(* Both are called for the account that is executing, which exists. *)
GetStorage(a, k) ==
    /\ Current(a) # NoAccount
    /\ GetAccount(a)
    /\ storageTries' = Looked(a, k)
    /\ IF slots[<<a, k>>] = NotCached THEN SlotPut(a, k, StorageTrie(a)[k])
                                  ELSE UNCHANGED <<slots, slotDiff>>

(* SSTORE has read the slot, for its gas, before putStorage. *)
PutStorage(a, k, v) ==
    /\ Current(a) # NoAccount
    /\ GetAccount(a)
    /\ storageTries' = Looked(a, k)
    /\ SlotPut(a, k, v)

-----------------------------------------------------------------------------
(* Checkpoints. *)

StateCheckpoint ==
    /\ Checkpoint
    /\ slotDiff' = Append(slotDiff, NoSlotDiff)
    /\ UNCHANGED <<slots, storageTries>>

(* Mutation: the slots of the committed height are not handed down. *)
CommitDropsSlots ==
    /\ Commit
    /\ slotDiff' = SubSeq(slotDiff, 1, Top - 1)
    /\ UNCHANGED <<slots, storageTries>>

StateCommit ==
    /\ Commit
    /\ slotDiff' = [SubSeq(slotDiff, 1, Top - 1) EXCEPT
                        ![Top - 1] = Merged(@, slotDiff[Top])]
    /\ UNCHANGED <<slots, storageTries>>

StateRevert ==
    /\ Revert
    /\ slots' = Restored(slots, slotDiff[Top])
    /\ slotDiff' = SubSeq(slotDiff, 1, Top - 1)
    /\ storageTries' = NoStorageTries

-----------------------------------------------------------------------------
(* flush and the state root, with no checkpoint open. *)

(* The storage trie of a with the slots of the diff map written. *)
Written(a) ==
    [k \in Slot |->
        CASE slotDiff[1][<<a, k>>] = NoEntry -> StorageTrie(a)[k]
          [] slotDiff[1][<<a, k>>] # NoEntry /\ slots[<<a, k>>] = NotCached -> 0
          [] OTHER -> slots[<<a, k>>]]

HasSlots(a) == \E k \in Slot : slotDiff[1][<<a, k>>] # NoEntry

(* The slots of an account that does not exist are dropped. *)
FlushStorage(a) ==
    /\ CheckpointCount = 0
    /\ HasSlots(a)
    /\ slotDiff' = [slotDiff EXCEPT ![1] =
                        [ak \in AllSlots |-> IF ak[1] = a THEN NoEntry ELSE @[ak]]]
    /\ slots' = slots
    /\ \/ /\ Current(a) # NoAccount
          /\ PutAccount(a, [Current(a) EXCEPT !.storageRoot = Written(a)])
          /\ storageTries' = [storageTries EXCEPT ![a] = Written(a)]
       \/ /\ Current(a) = NoAccount
          /\ GetAccount(a)
          /\ storageTries' = storageTries

FlushAccounts ==
    /\ slotDiff = <<NoSlotDiff>>
    /\ Flush
    /\ UNCHANGED storageVars

(* Mutation: the storage tries of the old root stay open. *)
SetRootKeepsTries(root, clearCache) ==
    /\ SetStateRoot(root, clearCache)
    /\ slots' = IF clearCache THEN NoSlots ELSE slots
    /\ slotDiff' = <<NoSlotDiff>>
    /\ storageTries' = storageTries

(* Nothing is left to flush when it is called. *)
StateSetRoot(root, clearCache) ==
    /\ SetStateRoot(root, clearCache)
    /\ slots' = IF clearCache THEN NoSlots ELSE slots
    /\ slotDiff' = <<NoSlotDiff>>
    /\ storageTries' = NoStorageTries

-----------------------------------------------------------------------------
(* The state as the stack of checkpoints promises it. *)

(* What an account comes down to: its data and its storage.                *)
View(account, storage) ==
    [data |-> IF account = NoAccount THEN "none" ELSE account.data,
     storage |-> storage]

World == [a \in Address |-> View(Current(a), [k \in Slot |-> StorageOf(a, k)])]

(* What account a had in slot k when checkpoint i was made. *)
SavedSlot(i, a, k) ==
    LET elem == PreState(slots, slotDiff, i, <<a, k>>)
        account == SavedAccount(i, a)
    IN  CASE elem # NotCached -> elem
          [] elem = NotCached /\ account = NoAccount -> 0
          [] OTHER -> account.storageRoot[k]

SavedWorld ==
    [i \in 1..Len(roots) |->
        [a \in Address |->
            View(SavedAccount(i, a), [k \in Slot |-> SavedSlot(i, a, k)])]]

Worlds ==
    INSTANCE CheckpointStack WITH
        Key <- Address,
        Value <- [data : {"none", "empty", "funded", "contract"}, storage : StorageRoot],
        Batch <- {{a} : a \in Address},
        Fresh <- {},
        cur <- World,
        saved <- SavedWorld

-----------------------------------------------------------------------------
(* Properties. *)

(* Caches, diff maps and tries have their types.                           *)
StateTypeOK ==
    /\ CacheTypeOK
    /\ slots \in [AllSlots -> Value \cup {NotCached}]
    /\ slotDiff \in Seq([AllSlots -> Value \cup {NotCached, NoEntry}])
    /\ Len(slotDiff) = Len(diffCache)
    /\ storageTries \in [Address -> StorageRoot \cup {NoTrie}]

(* With no checkpoint open and everything flushed the root commits to what *)
(* getAccount and getStorage return.                                       *)
RootIsWorld ==
    CheckpointCount = 0 /\ diffCache = <<NoDiff>> /\ slotDiff = <<NoSlotDiff>> =>
        \A a \in Address :
            World[a] = View(trie[a], IF trie[a] = NoAccount THEN EmptyTrie
                                                            ELSE trie[a].storageRoot)

(* Nested checkpoints, commits and reverts of accounts and storage have    *)
(* the effect they have on a plain map, although the cached slots of a     *)
(* deleted or created account go without a diff entry and an open storage  *)
(* trie is forgotten by a revert alone.                                    *)
WorldCheckpoints == Worlds!Spec

=============================================================================
