------------------------- MODULE StateManagerProofs -------------------------
(***************************************************************************)
(* Proofs about the operations of the state manager: the accounts and the  *)
(* slots together, with the storage tries that stay open.                  *)
(***************************************************************************)
EXTENDS StateManager, AccountCacheProofs

(* The cache of slots is one like that of the accounts, where a slot that  *)
(* is not stored is 0.                                                     *)
NoStored == [ak \in AllSlots |-> 0]

SC == INSTANCE AccountCacheProofs WITH
          Address <- AllSlots, Account <- Value \ {0}, NoAccount <- 0,
          cache <- slots, diffCache <- slotDiff,
          trie <- NoStored, roots <- [i \in 1..Len(roots) |-> NoStored]

-----------------------------------------------------------------------------
(* The slots. *)

(* What the cache held for slot k of a when checkpoint i was made.         *)
PreSlot(i, a, k) == PreState(slots, slotDiff, i, <<a, k>>)

SlotDiffMap == [AllSlots -> Value \cup {NotCached, NoEntry}]

SlotTypeOK ==
    /\ slots \in [AllSlots -> Value \cup {NotCached}]
    /\ slotDiff \in Seq(SlotDiffMap)
    /\ Len(slotDiff) = Len(roots) + 1
    /\ Len(slotDiff) = Top
    /\ Len(roots) \in Nat

(* The slots of an account satisfy what AccountCache assumes of its values. *)
LEMMA SlotAssumption ==
    /\ 0 \notin Value \ {0}
    /\ NotCached \notin (Value \ {0}) \cup {0}
    /\ NoEntry \notin (Value \ {0}) \cup {0, NotCached}
BY StateAssumption

(* The types of the storage cache are those of an account cache over slots. *)
LEMMA SlotTypes ==
    /\ SC!Cached = Value \cup {NotCached}
    /\ SC!DiffMap = SlotDiffMap
    /\ SC!Stored = Value
    /\ SlotTypeOK => SC!CacheTypeOK
<1>1. SC!Stored = Value
  BY StateAssumption DEF SC!Stored
<1>2. SC!Cached = Value \cup {NotCached}
  BY <1>1 DEF SC!Cached
<1>3. SC!DiffMap = SlotDiffMap
  BY <1>2 DEF SC!DiffMap, SlotDiffMap
<1>4. ASSUME SlotTypeOK PROVE SC!CacheTypeOK
  <2> DEFINE r == [i \in 1..Len(roots) |-> NoStored]
  <2>1. Len(roots) \in Nat
    BY <1>4 DEF SlotTypeOK
  <2>2. NoStored \in [AllSlots -> Value]
    BY StateAssumption DEF NoStored
  <2>3. r \in Seq([AllSlots -> Value]) /\ Len(r) = Len(roots)
    <3> HIDE DEF NoStored
    <3>1. r \in [1..Len(roots) -> [AllSlots -> Value]] /\ DOMAIN r = 1..Len(roots)
      BY <2>2
    <3> HIDE DEF r
    <3>2. r \in Seq([AllSlots -> Value])
      BY <2>1, <3>1, IsASeq
    <3> QED BY <2>1, <3>1, <3>2
  <2> HIDE DEF r
  <2>4. /\ slots \in [AllSlots -> SC!Cached] /\ slotDiff \in Seq(SC!DiffMap)
        /\ Len(slotDiff) = Len(r) + 1 /\ r \in Seq([AllSlots -> SC!Stored])
        /\ NoStored \in [AllSlots -> SC!Stored]
    BY <1>1, <1>2, <1>3, <1>4, <2>2, <2>3 DEF SlotTypeOK
  <2> QED BY <2>4 DEF SC!CacheTypeOK, r
<1> QED BY <1>1, <1>2, <1>3, <1>4

(* The value a diff map would restore is found alike in accounts and in    *)
(* slots.                                                                  *)
LEMMA SamePre ==
    \A c, D, i, x : SC!PreState(c, D, i, x) = PreState(c, D, i, x)
BY DEF SC!PreState, PreState, SC!Entries, Entries, SC!Least, Least

(* A slot put keeps what the checkpoints hold.                             *)
LEMMA SlotPutKeeps ==
    ASSUME SlotTypeOK, roots' = roots, Top' = Top,
           NEW b \in Address, NEW j \in Slot, NEW v \in Value \cup {NotCached},
           SlotPut(b, j, v)
    PROVE  /\ SlotTypeOK'
           /\ \A i \in 0..Len(roots), a \in Address, k \in Slot :
                  PreSlot(i, a, k)' = PreSlot(i, a, k)
<1>1. SC!CacheTypeOK
  BY SlotTypes
<1>2. <<b, j>> \in AllSlots
  BY DEF AllSlots
<1> DEFINE x == <<b, j>>
           d == slotDiff[Top]
           e == IF d[x] = NoEntry THEN slots[x] ELSE d[x]
<1>3. d \in SlotDiffMap /\ Top \in 1..Len(slotDiff)
  BY DEF SlotTypeOK
<1>4. slots' = [slots EXCEPT ![x] = v]
      /\ slotDiff' = [slotDiff EXCEPT ![Top] = [d EXCEPT ![x] = e]]
  BY DEF SlotPut
<1>5. [d EXCEPT ![x] = e] = SC!SavePreState(d, x)
  BY <1>2, <1>3 DEF SC!SavePreState, SlotDiffMap
<1>6. SC!CachePut(x, v)
  <2> HIDE DEF x, d, e
  <2>1. Top = SC!Top
    BY DEF SlotTypeOK, SC!Top
  <2>2. slotDiff' = [slotDiff EXCEPT ![SC!Top] = SC!SavePreState(slotDiff[SC!Top], x)]
    BY <1>4, <1>5, <2>1 DEF d
  <2> QED BY <1>4, <2>2 DEF SC!CachePut
<1>7. ASSUME NEW i \in 0..Len(roots), NEW a \in Address, NEW k \in Slot
      PROVE  PreSlot(i, a, k)' = PreSlot(i, a, k)
  <2> DEFINE y == <<a, k>>
             r == [n \in 1..Len(roots) |-> NoStored]
  <2>1. y \in AllSlots
    BY DEF AllSlots
  <2>2. Len(r) = Len(roots)
    BY DEF SlotTypeOK
  <2> HIDE DEF y, x
  <2>3. v \in SC!Cached /\ i \in 0..Len(r)
    BY <2>2, SlotTypes
  <2>4. SC!PreState(slots', slotDiff', i, y) = SC!PreState(slots, slotDiff, i, y)
    BY <1>1, <1>2, <1>6, <2>1, <2>3, SlotAssumption, SC!PutKeeps DEF x
  <2>5. PreState(slots', slotDiff', i, y) = PreState(slots, slotDiff, i, y)
    BY <2>4, SamePre
  <2> QED BY <2>5 DEF PreSlot, y
<1>8. SlotTypeOK'
  <2>1. [d EXCEPT ![x] = e] \in SlotDiffMap /\ slots' \in [AllSlots -> Value \cup {NotCached}]
    BY <1>2, <1>3, <1>4 DEF SlotTypeOK, SlotDiffMap
  <2>2. slotDiff' \in Seq(SlotDiffMap) /\ Len(slotDiff') = Len(slotDiff)
    <3> DEFINE f == [d EXCEPT ![x] = e]
    <3> HIDE DEF f, SlotDiffMap
    <3> QED BY <1>3, <1>4, <2>1, ExceptSeq DEF SlotTypeOK, f
  <2> QED BY <2>1, <2>2 DEF SlotTypeOK
<1> QED BY <1>7, <1>8

(* The part of StateCheckpoint, StateCommit and StateRevert for the slots. *)
SlotCheckpoint == slotDiff' = Append(slotDiff, NoSlotDiff) /\ slots' = slots

SlotCommit ==
    /\ slotDiff' = [SubSeq(slotDiff, 1, Top - 1) EXCEPT
                        ![Top - 1] = Merged(@, slotDiff[Top])]
    /\ slots' = slots

SlotRevert ==
    /\ slots' = Restored(slots, slotDiff[Top])
    /\ slotDiff' = SubSeq(slotDiff, 1, Top - 1)

(* The empty diff map of the slots is one. *)
LEMMA NoSlotDiffType == NoSlotDiff \in SlotDiffMap
BY DEF NoSlotDiff, SlotDiffMap

(* A checkpoint keeps what the others hold and has the current slots.      *)
LEMMA SlotCheckpointKeeps ==
    ASSUME SlotTypeOK, SlotCheckpoint, Len(roots') = Len(roots) + 1, Top' = Top + 1
    PROVE  /\ SlotTypeOK'
           /\ \A a \in Address, k \in Slot :
                  /\ \A i \in 0..Len(roots) : PreSlot(i, a, k)' = PreSlot(i, a, k)
                  /\ \A n : n = Len(roots) + 1 => PreSlot(n, a, k)' = slots[<<a, k>>]
<1>1. SC!CacheTypeOK /\ Len(roots) \in Nat
  BY SlotTypes DEF SlotTypeOK
<1> DEFINE r == [n \in 1..Len(roots) |-> NoStored]
<1>2. Len(r) = Len(roots)
  BY <1>1
<1>3. r' = Append(r, NoStored)
  BY <1>1
<1>4. SC!Checkpoint
  <2> HIDE DEF r, NoStored
  <2>1. SC!NoDiff = NoSlotDiff
    BY DEF SC!NoDiff, NoSlotDiff
  <2> QED BY <1>3, <2>1 DEF SlotCheckpoint, SC!Checkpoint, r, NoStored
<1>5. ASSUME NEW a \in Address, NEW k \in Slot
      PROVE  /\ \A i \in 0..Len(roots) : PreSlot(i, a, k)' = PreSlot(i, a, k)
             /\ \A n : n = Len(roots) + 1 => PreSlot(n, a, k)' = slots[<<a, k>>]
  <2> DEFINE y == <<a, k>>
  <2>1. y \in AllSlots
    BY DEF AllSlots
  <2> HIDE DEF y, r
  <2>2. /\ \A i \in 0..Len(roots) :
               SC!PreState(slots', slotDiff', i, y) = SC!PreState(slots, slotDiff, i, y)
        /\ SC!PreState(slots', slotDiff', Len(roots) + 1, y) = slots[y]
    BY <1>1, <1>2, <1>4, <2>1, SlotAssumption, SC!CheckpointKeeps DEF r
  <2> QED BY <2>2, SamePre DEF PreSlot, y
<1>6. SlotTypeOK'
  <2> HIDE DEF SlotDiffMap, NoSlotDiff
  <2> QED BY <1>1, NoSlotDiffType DEF SlotTypeOK, SlotCheckpoint
<1> QED BY <1>5, <1>6

(* So does a commit, but for the checkpoint it gives up.                   *)
LEMMA SlotCommitKeeps ==
    ASSUME SlotTypeOK, SlotCommit, Len(roots) > 0, Len(roots') = Len(roots) - 1, Top' = Top - 1
    PROVE  /\ SlotTypeOK'
           /\ \A i \in 0..(Len(roots) - 1), a \in Address, k \in Slot :
                  PreSlot(i, a, k)' = PreSlot(i, a, k)
<1>1. SC!CacheTypeOK /\ Len(roots) \in Nat /\ Top = SC!Top /\ Top = Len(roots) + 1
  BY SlotTypes DEF SlotTypeOK, SC!Top
<1> DEFINE r == [n \in 1..Len(roots) |-> NoStored]
           d == Merged(slotDiff[Top - 1], slotDiff[Top])
<1>2. Len(r) = Len(roots) /\ Len(r) > 0
  BY <1>1
<1>3. r' = SubSeq(r, 1, Len(r) - 1)
  <2> HIDE DEF NoStored
  <2> QED BY <1>1
<1>4. d = SC!Merged(slotDiff[SC!Top - 1], slotDiff[SC!Top])
  BY <1>1 DEF Merged, SC!Merged
<1>5. slotDiff' = SC!Lowered(d) /\ slots' = slots
  BY <1>1 DEF SlotCommit, SC!Lowered
<1>6. SC!Commit
  <2> HIDE DEF r, NoStored, d
  <2> QED BY <1>2, <1>3, <1>4, <1>5 DEF SC!Commit, SC!CheckpointCount, r, NoStored
<1>7. ASSUME NEW i \in 0..(Len(roots) - 1), NEW a \in Address, NEW k \in Slot
      PROVE  PreSlot(i, a, k)' = PreSlot(i, a, k)
  <2> DEFINE y == <<a, k>>
  <2>1. y \in AllSlots
    BY DEF AllSlots
  <2> HIDE DEF y, r
  <2>2. SC!PreState(slots', slotDiff', i, y) = SC!PreState(slots, slotDiff, i, y)
    BY <1>1, <1>2, <1>6, <2>1, SlotAssumption, SC!CommitKeeps DEF r
  <2> QED BY <2>2, SamePre DEF PreSlot, y
<1>8. SlotTypeOK'
  <2>1. d \in SC!DiffMap
    <3>1. slotDiff[Top - 1] \in SlotDiffMap /\ slotDiff[Top] \in SlotDiffMap
      <4> HIDE DEF SlotDiffMap
      <4> QED BY <1>1, <1>2 DEF SlotTypeOK
    <3>2. slotDiff[SC!Top - 1] \in SC!DiffMap /\ slotDiff[SC!Top] \in SC!DiffMap
      BY <1>1, <3>1, SlotTypes
    <3>3. \A e, f \in SC!DiffMap : SC!Merged(e, f) \in SC!DiffMap
      BY <1>1, SlotAssumption, SC!DiffMapFacts
    <3> HIDE DEF d
    <3> QED BY <1>4, <3>2, <3>3
  <2>2. /\ SC!Lowered(d) \in Seq(SC!DiffMap)
        /\ Len(SC!Lowered(d)) = SC!Top - 1
    <3> HIDE DEF d, r
    <3>1. SC!CheckpointCount > 0
      BY <1>2 DEF SC!CheckpointCount, r
    <3> QED BY <1>1, <2>1, <3>1, SlotAssumption, SC!LoweredFacts
  <2> HIDE DEF d, SlotDiffMap
  <2>3. slotDiff' \in Seq(SlotDiffMap) /\ Len(slotDiff') = Top - 1
    BY <1>1, <1>5, <2>2, SlotTypes
  <2> QED BY <1>1, <1>5, <2>3 DEF SlotTypeOK
<1> QED BY <1>7, <1>8

(* And a revert, which brings the slots of its checkpoint back.            *)
LEMMA SlotRevertKeeps ==
    ASSUME SlotTypeOK, SlotRevert, Len(roots) > 0, Len(roots') = Len(roots) - 1, Top' = Top - 1
    PROVE  /\ SlotTypeOK'
           /\ \A a \in Address, k \in Slot :
                  /\ slots'[<<a, k>>] = PreSlot(Len(roots), a, k)
                  /\ \A i \in 0..(Len(roots) - 1) : PreSlot(i, a, k)' = PreSlot(i, a, k)
<1>1. SC!CacheTypeOK /\ Len(roots) \in Nat /\ Top = SC!Top /\ Top = Len(roots) + 1
  BY SlotTypes DEF SlotTypeOK, SC!Top
<1> DEFINE r == [n \in 1..Len(roots) |-> NoStored]
           D == SubSeq(slotDiff, 1, Top - 1)
<1>2. Len(r) = Len(roots) /\ Len(r) > 0 /\ SC!CheckpointCount > 0
  BY <1>1 DEF SC!CheckpointCount
<1>3. slots' = SC!Restored(slots, slotDiff[SC!Top])
  BY <1>1 DEF SlotRevert, Restored, SC!Restored
<1>4. /\ D \in Seq(SlotDiffMap) /\ Len(D) = Top - 1
      /\ \A m \in 1..(Top - 1) : D[m] = slotDiff[m]
  <2> HIDE DEF r, SlotDiffMap
  <2> QED BY <1>1, <1>2, FrontFacts DEF SlotTypeOK
<1>5. ASSUME NEW a \in Address, NEW k \in Slot
      PROVE  /\ slots'[<<a, k>>] = PreSlot(Len(roots), a, k)
             /\ \A i \in 0..(Len(roots) - 1) : PreSlot(i, a, k)' = PreSlot(i, a, k)
  <2> DEFINE y == <<a, k>>
  <2>1. y \in AllSlots
    BY DEF AllSlots
  <2> HIDE DEF y, r, D
  <2>2. Len(D) = SC!Top - 1 /\ \A m \in 1..(SC!Top - 1) : D[m] = slotDiff[m]
    BY <1>1, <1>4
  <2>3. /\ slots'[y] = SC!PreState(slots, slotDiff, Len(r), y)
        /\ \A i \in 0..(Len(r) - 1) :
              SC!PreState(slots', D, i, y) = SC!PreState(slots, slotDiff, i, y)
    BY <1>1, <1>2, <1>3, <2>1, <2>2, SlotAssumption, SC!RevertRestores DEF r
  <2> QED BY <1>2, <2>3, SamePre DEF PreSlot, y, D, SlotRevert
<1>6. SlotTypeOK'
  <2>1. slotDiff[Top] \in SlotDiffMap
    <3> HIDE DEF SlotDiffMap
    <3> QED BY <1>1 DEF SlotTypeOK
  <2>2. slots' \in [AllSlots -> Value \cup {NotCached}]
    BY <1>1, <1>3, <2>1, SlotTypes, SlotAssumption, SC!DiffMapFacts DEF SlotTypeOK
  <2> HIDE DEF SlotDiffMap
  <2> QED BY <1>1, <1>4, <2>2 DEF SlotTypeOK, SlotRevert
<1> QED BY <1>5, <1>6

(* The slots of an account that is deleted or created go, and what a       *)
(* checkpoint holds goes with them where no diff map has kept it.          *)
SlotDrop(a) ==
    /\ slots' = [ak \in AllSlots |-> IF ak[1] = a THEN NotCached ELSE slots[ak]]
    /\ slotDiff' = slotDiff

(* clearStorage forgets what is cached of one account: no other slot       *)
(* changes, and a checkpoint would restore to that account what its diff   *)
(* maps have or nothing cached.                                            *)
LEMMA SlotDropKeeps ==
    ASSUME SlotTypeOK, NEW b \in Address, SlotDrop(b), roots' = roots, Top' = Top
    PROVE  /\ SlotTypeOK'
           /\ \A k \in Slot : slots'[<<b, k>>] = NotCached
           /\ \A a \in Address \ {b}, k \in Slot : slots'[<<a, k>>] = slots[<<a, k>>]
           /\ \A i \in 0..Len(roots), a \in Address, k \in Slot :
                  \/ PreSlot(i, a, k)' = PreSlot(i, a, k)
                  \/ /\ a = b /\ PreSlot(i, a, k)' = NotCached
                     /\ PreSlot(i, a, k) = slots[<<a, k>>]
<1>1. \A a \in Address, k \in Slot :
          slots'[<<a, k>>] = IF a = b THEN NotCached ELSE slots[<<a, k>>]
  BY DEF SlotDrop, AllSlots
<1>2. SlotTypeOK'
  BY DEF SlotTypeOK, SlotDrop
<1>3. ASSUME NEW i \in 0..Len(roots), NEW a \in Address, NEW k \in Slot
      PROVE  \/ PreSlot(i, a, k)' = PreSlot(i, a, k)
             \/ /\ a = b /\ PreSlot(i, a, k)' = NotCached
                /\ PreSlot(i, a, k) = slots[<<a, k>>]
  <2> DEFINE y == <<a, k>>
  <2>1. i \in Nat /\ Len(slotDiff) \in Nat /\ slotDiff' = slotDiff
    BY DEF SlotTypeOK, SlotDrop
  <2>2. CASE NoneAbove(slotDiff, i, y)
    <3>1. PreSlot(i, a, k) = slots[y]
      BY <2>2, PreNone DEF PreSlot
    <3>2. PreState(slots', slotDiff, i, y) = slots'[y]
      BY <2>2, PreNone
    <3>3. PreSlot(i, a, k)' = slots'[y]
      BY <2>1, <3>2 DEF PreSlot
    <3> QED BY <1>1, <3>1, <3>3
  <2>3. ASSUME NEW j, IsFirst(slotDiff, i, y, j)
        PROVE  PreSlot(i, a, k)' = PreSlot(i, a, k)
    <3>1. PreState(slots, slotDiff, i, y) = slotDiff[j][y]
      BY <2>1, <2>3, PreAt
    <3>2. PreState(slots', slotDiff, i, y) = slotDiff[j][y]
      BY <2>1, <2>3, PreAt
    <3> QED BY <2>1, <3>1, <3>2 DEF PreSlot
  <2> QED BY <2>1, <2>2, <2>3, PreCases
<1> QED BY <1>1, <1>2, <1>3

(* With one diff map the cache held its entry, or what it still holds.     *)
LEMMA PreOne ==
    ASSUME NEW c, NEW D, Len(D) = 1, NEW x
    PROVE  PreState(c, D, 0, x) = IF D[1][x] = NoEntry THEN c[x] ELSE D[1][x]
<1>1. CASE D[1][x] = NoEntry
  <2>1. NoneAbove(D, 0, x)
    BY <1>1 DEF NoneAbove
  <2> QED BY <1>1, <2>1, PreNone
<1>2. CASE D[1][x] # NoEntry
  <2>1. IsFirst(D, 0, x, 1)
    BY <1>2 DEF IsFirst
  <2> QED BY <1>2, <2>1, PreAt
<1> QED BY <1>1, <1>2

-----------------------------------------------------------------------------
(* The accounts. *)

SavedKept(n) ==
    \A i \in 1..n, a \in Address : SavedAccount(i, a)' = SavedAccount(i, a)

CurrentKept(S) == \A a \in S : Current(a)' = Current(a)

(* The accounts that are current and those the checkpoints would restore   *)
(* are accounts.                                                           *)
LEMMA AccountTypes ==
    ASSUME IInv
    PROVE  /\ Len(roots) \in Nat /\ Top = Len(roots) + 1 /\ CheckpointCount = Len(roots)
           /\ \A a \in Address : Current(a) \in Stored
           /\ \A i \in 1..Len(roots), a \in Address : SavedAccount(i, a) \in Stored
<1>1. CacheTypeOK
  BY DEF IInv
<1>2. Len(roots) \in Nat /\ Top = Len(roots) + 1
  BY <1>1, TypeFacts
<1>3. \A a \in Address : Current(a) \in Stored
  BY MapFacts DEF CurrentMap, Maps
<1>4. ASSUME NEW i \in 1..Len(roots), NEW a \in Address
      PROVE  SavedAccount(i, a) \in Stored
  <2>1. SavedMaps[i] \in Maps
    <3>1. SavedMaps \in Seq(Maps) /\ Len(SavedMaps) = Len(roots)
      BY MapFacts
    <3> HIDE DEF SavedMaps, Maps
    <3> QED BY <3>1, ElementOfSeq
  <2> QED BY <2>1 DEF SavedMaps, Maps
<1> QED BY <1>2, <1>3, <1>4 DEF CheckpointCount

(* A put changes the account alone, and nothing that is saved.             *)
LEMMA AccountPut ==
    ASSUME IInv, NEW b \in Address, NEW v \in Stored, CachePut(b, v)
    PROVE  /\ roots' = roots /\ trie' = trie /\ Top' = Top
           /\ Current(b)' = v /\ CurrentKept(Address \ {b}) /\ SavedKept(Len(roots))
<1>1. /\ roots' = roots /\ trie' = trie /\ cache' = [cache EXCEPT ![b] = v]
      /\ cache \in [Address -> Cached] /\ CacheTypeOK /\ v \in Cached /\ v # NotCached
  BY CacheAssumption DEF CachePut, IInv, CacheTypeOK, Cached, Stored
<1>2. Top' = Top
  BY DEF CachePut, Top, IInv, CacheTypeOK
<1>3. Current(b)' = v /\ CurrentKept(Address \ {b})
  BY <1>1 DEF Current, CurrentKept
<1>4. ASSUME NEW i \in 1..Len(roots), NEW a \in Address
      PROVE  SavedAccount(i, a)' = SavedAccount(i, a)
  <2>1. i \in 0..Len(roots)
    BY AccountTypes
  <2>2. PreState(cache', diffCache', i, a) = PreState(cache, diffCache, i, a)
    BY <1>1, <2>1, PutKeeps
  <2> QED BY <1>1, <2>2 DEF SavedAccount
<1> QED BY <1>1, <1>2, <1>3, <1>4 DEF SavedKept

(* A read changes nothing.                                                 *)
LEMMA AccountGet ==
    ASSUME IInv, NEW b \in Address, GetAccount(b)
    PROVE  /\ roots' = roots /\ trie' = trie /\ Top' = Top
           /\ CurrentKept(Address) /\ SavedKept(Len(roots))
<1>1. CASE cache[b] = NotCached
  <2>1. CachePut(b, trie[b]) /\ trie[b] \in Stored
    BY <1>1 DEF GetAccount, IInv, CacheTypeOK
  <2>2. trie[b] = Current(b)
    BY <1>1 DEF Current
  <2>3. /\ roots' = roots /\ trie' = trie /\ Top' = Top
        /\ Current(b)' = trie[b] /\ CurrentKept(Address \ {b}) /\ SavedKept(Len(roots))
    BY <2>1, AccountPut
  <2> QED BY <2>2, <2>3 DEF CurrentKept
<1>2. CASE UNCHANGED cacheVars
  BY <1>2 DEF cacheVars, Top, CurrentKept, SavedKept, Current, SavedAccount
<1> QED BY <1>1, <1>2 DEF GetAccount

(* The checkpoints, seen from the accounts.                                *)
LEMMA AccountCheckpoint ==
    ASSUME IInv, Checkpoint
    PROVE  /\ Len(roots') = Len(roots) + 1 /\ Top' = Top + 1 /\ trie' = trie
           /\ CurrentKept(Address) /\ SavedKept(Len(roots))
           /\ \A n, a : n = Len(roots) + 1 /\ a \in Address => SavedAccount(n, a)' = Current(a)
<1>1. CacheTypeOK /\ Len(roots) \in Nat /\ cache' = cache /\ trie' = trie
  BY AccountTypes DEF IInv, Checkpoint
<1>2. /\ Len(roots') = Len(roots) + 1 /\ roots'[Len(roots) + 1] = trie
      /\ \A i \in 1..Len(roots) : roots'[i] = roots[i]
  BY DEF IInv, CacheTypeOK, Checkpoint
<1>3. Top' = Top + 1
  BY DEF Checkpoint, Top, IInv, CacheTypeOK
<1>4. ASSUME NEW i \in 1..Len(roots), NEW a \in Address
      PROVE  SavedAccount(i, a)' = SavedAccount(i, a)
  <2>1. i \in 0..Len(roots)
    BY <1>1
  <2>2. PreState(cache', diffCache', i, a) = PreState(cache, diffCache, i, a)
    BY <1>1, <2>1, CheckpointKeeps
  <2> QED BY <1>2, <2>2 DEF SavedAccount
<1>5. ASSUME NEW CONSTANT n, NEW CONSTANT a, n = Len(roots) + 1, a \in Address
      PROVE  SavedAccount(n, a)' = Current(a)
  <2>1. PreState(cache', diffCache', n, a) = cache[a]
    BY <1>1, <1>5, CheckpointKeeps
  <2>2. roots'[n] = trie
    BY <1>2, <1>5
  <2> QED BY <2>1, <2>2 DEF SavedAccount, Current
<1>6. CurrentKept(Address)
  BY <1>1 DEF CurrentKept, Current
<1> QED BY <1>1, <1>2, <1>3, <1>4, <1>5, <1>6 DEF SavedKept

(* Closing a checkpoint drops the youngest root. *)
LEMMA AccountClose ==
    ASSUME IInv, CheckpointCount > 0, roots' = SubSeq(roots, 1, CheckpointCount - 1)
    PROVE  /\ Len(roots') = Len(roots) - 1
           /\ \A i \in 1..(Len(roots) - 1) : roots'[i] = roots[i]
<1>1. roots \in Seq([Address -> Stored]) /\ CheckpointCount = Len(roots)
  BY AccountTypes DEF IInv, CacheTypeOK
<1> QED BY <1>1, FrontFacts

(* commit keeps the accounts, and what the other checkpoints would restore. *)
LEMMA AccountCommit ==
    ASSUME IInv, Commit
    PROVE  /\ Len(roots) > 0 /\ Len(roots') = Len(roots) - 1 /\ Top' = Top - 1 /\ trie' = trie
           /\ CurrentKept(Address) /\ SavedKept(Len(roots) - 1)
<1>1. CacheTypeOK /\ Len(roots) \in Nat /\ cache' = cache /\ trie' = trie /\ Len(roots) > 0
  BY AccountTypes DEF IInv, Commit
<1>2. Len(roots') = Len(roots) - 1 /\ \A i \in 1..(Len(roots) - 1) : roots'[i] = roots[i]
  BY AccountClose DEF Commit
<1>3. Top' = Top - 1
  <2>1. CacheTypeOK'
    BY CommitInv DEF IInv
  <2> QED BY <1>1, <1>2, <2>1, TypeFacts DEF CacheTypeOK, Top
<1>4. ASSUME NEW i \in 1..(Len(roots) - 1), NEW a \in Address
      PROVE  SavedAccount(i, a)' = SavedAccount(i, a)
  <2>1. i \in 0..(Len(roots) - 1)
    BY <1>1
  <2>2. PreState(cache', diffCache', i, a) = PreState(cache, diffCache, i, a)
    BY <1>1, <2>1, CommitKeeps
  <2> QED BY <1>2, <2>2 DEF SavedAccount
<1>5. CurrentKept(Address)
  BY <1>1 DEF CurrentKept, Current
<1> QED BY <1>1, <1>2, <1>3, <1>4, <1>5 DEF SavedKept

(* revert brings back the accounts of the youngest checkpoint, and keeps   *)
(* what the others would restore.                                          *)
LEMMA AccountRevert ==
    ASSUME IInv, Revert
    PROVE  /\ Len(roots) > 0 /\ Len(roots') = Len(roots) - 1 /\ Top' = Top - 1 /\ trie' = trie
           /\ \A a \in Address : Current(a)' = SavedAccount(Len(roots), a)
           /\ SavedKept(Len(roots) - 1)
<1> DEFINE c == Restored(cache, diffCache[Top])
           D == SubSeq(diffCache, 1, Top - 1)
<1>1. CacheTypeOK /\ Len(roots) \in Nat /\ Len(roots) > 0
  BY AccountTypes DEF IInv, Revert
<1>2. Len(roots') = Len(roots) - 1 /\ \A i \in 1..(Len(roots) - 1) : roots'[i] = roots[i]
  BY AccountClose DEF Revert
<1>3. Top' = Top - 1
  <2>1. CacheTypeOK'
    BY RevertInv DEF IInv
  <2> QED BY <1>1, <1>2, <2>1, TypeFacts DEF CacheTypeOK, Top
<1>4. /\ CheckpointCount > 0 /\ cache' = c /\ diffCache' = D /\ trie' = roots[Len(roots)]
  BY AccountTypes DEF Revert
<1>5. \A a \in Address :
         /\ c[a] = PreState(cache, diffCache, Len(roots), a)
         /\ \A i \in 0..(Len(roots) - 1) :
               PreState(c, D, i, a) = PreState(cache, diffCache, i, a)
  <2>1. Len(D) = Top - 1 /\ \A m \in 1..(Top - 1) : D[m] = diffCache[m]
    BY <1>1, DiffFront
  <2> HIDE DEF D
  <2> QED BY <1>1, <1>4, <2>1, RevertRestores
<1> HIDE DEF c, D
<1>6. \A a \in Address : Current(a)' = SavedAccount(Len(roots), a)
  BY <1>4, <1>5 DEF Current, SavedAccount
<1>7. ASSUME NEW i \in 1..(Len(roots) - 1), NEW a \in Address
      PROVE  SavedAccount(i, a)' = SavedAccount(i, a)
  <2>1. i \in 0..(Len(roots) - 1)
    BY <1>1
  <2> QED BY <1>2, <1>4, <1>5, <2>1 DEF SavedAccount
<1>8. trie' = trie
  <2>1. Len(roots) \in 1..Len(roots)
    BY <1>1
  <2> QED BY <1>4, <2>1 DEF IInv, RootsCurrent
<1> QED BY <1>1, <1>2, <1>3, <1>6, <1>7, <1>8 DEF SavedKept

-----------------------------------------------------------------------------
(* The inductive invariant of the state. *)

RootOf(account) == IF account = NoAccount THEN EmptyTrie ELSE account.storageRoot
IsContract(account) == account # NoAccount /\ account.data = "contract"

(* Only contracts have storage, in the state and in the cache.             *)
AccountOK(account) == RootOf(account) # EmptyTrie => IsContract(account)
SlotOK(account, elem) == IsContract(account) \/ elem \in {NotCached, 0}

(* A storage trie that is open is the account's.                           *)
TriesOK ==
    /\ storageTries \in [Address -> StorageRoot \cup {NoTrie}]
    /\ \A a \in Address : storageTries[a] \in {NoTrie, RootOf(Current(a))}

(* No storage root has changed since a checkpoint that is open.            *)
SameRoots ==
    \A i \in 1..Len(roots), a \in Address : RootOf(SavedAccount(i, a)) = RootOf(Current(a))

ContractsOK ==
    \A a \in Address :
        /\ AccountOK(Current(a))
        /\ \A i \in 1..Len(roots) : AccountOK(SavedAccount(i, a))

SlotsOK ==
    \A a \in Address, k \in Slot :
        /\ SlotOK(Current(a), slots[<<a, k>>])
        /\ \A i \in 1..Len(roots) : SlotOK(SavedAccount(i, a), PreSlot(i, a, k))

(* What the cache of slots held before the first change since the last     *)
(* flush, and when a block began, is what the storage trie has.            *)
SlotsCoherent ==
    \A i \in 0..Len(roots), a \in Address, k \in Slot :
        i <= 1 => PreSlot(i, a, k) \in {NotCached, RootOf(Current(a))[k]}

(* And in the trie.                                                        *)
TrieOK == \A a \in Address : AccountOK(trie[a])

SInv ==
    SlotTypeOK /\ TriesOK /\ SameRoots /\ ContractsOK /\ SlotsOK /\ SlotsCoherent /\ TrieOK

(* What a slot is, by what the cache and the account have.                 *)
ValueOf(elem, account, k) == IF elem # NotCached THEN elem ELSE RootOf(account)[k]

(* getStorage reads the cached slot, or else the trie of the current       *)
(* account; a checkpoint would restore the same of the account it saved.   *)
LEMMA StorageFacts ==
    ASSUME IInv, SInv
    PROVE  /\ \A a \in Address, k \in Slot :
                  StorageOf(a, k) = ValueOf(slots[<<a, k>>], Current(a), k)
           /\ \A a \in Address : Current(a) # NoAccount => StorageTrie(a) = RootOf(Current(a))
           /\ \A i, a, k : k \in Slot =>
                  SavedSlot(i, a, k) = ValueOf(PreSlot(i, a, k), SavedAccount(i, a), k)
           /\ \A a \in Address : RootOf(Current(a)) \in StorageRoot
           /\ \A i \in 1..Len(roots), a \in Address : RootOf(SavedAccount(i, a)) \in StorageRoot
<1>1. \A k \in Slot : EmptyTrie[k] = 0
  BY DEF EmptyTrie
<1>2. \A a \in Address : Current(a) # NoAccount => StorageTrie(a) = RootOf(Current(a))
  BY DEF SInv, TriesOK, StorageTrie, RootOf
<1>3. \A a \in Address, k \in Slot :
         StorageOf(a, k) = ValueOf(slots[<<a, k>>], Current(a), k)
  BY <1>1, <1>2 DEF StorageOf, ValueOf, RootOf
<1>4. \A i, a, k : k \in Slot =>
         SavedSlot(i, a, k) = ValueOf(PreSlot(i, a, k), SavedAccount(i, a), k)
  BY <1>1 DEF SavedSlot, PreSlot, ValueOf, RootOf
<1>5. \A x \in Stored : RootOf(x) \in StorageRoot
  BY StateAssumption DEF Stored, RootOf, EmptyTrie, StorageRoot
<1> QED BY <1>2, <1>3, <1>4, <1>5, AccountTypes

(* A step that changes one account and its slots, keeps its storage root   *)
(* and what is saved, but may drop slots.                                  *)
LEMMA WriteInv ==
    ASSUME IInv, SInv, NEW b \in Address,
           roots' = roots, trie' = trie,
           CurrentKept(Address \ {b}), SavedKept(Len(roots)), SlotTypeOK',
           RootOf(Current(b)') = RootOf(Current(b)), AccountOK(Current(b)'),
           storageTries' \in [Address -> StorageRoot \cup {NoTrie}],
           storageTries'[b] \in {NoTrie, RootOf(Current(b))},
           \A a \in Address \ {b} : storageTries'[a] = storageTries[a],
           \A k \in Slot : SlotOK(Current(b)', slots'[<<b, k>>]),
           \A a \in Address \ {b}, k \in Slot : slots'[<<a, k>>] = slots[<<a, k>>],
           \A i \in 0..Len(roots), a \in Address, k \in Slot :
               PreSlot(i, a, k)' \in {NotCached, PreSlot(i, a, k)}
    PROVE  SInv'
<1>1. \A a \in Address : RootOf(Current(a)') = RootOf(Current(a))
  BY DEF CurrentKept
<1>2. Len(roots) \in Nat
  BY AccountTypes
<1>3. TriesOK'
  BY <1>1 DEF SInv, TriesOK
<1>4. ASSUME NEW i \in 1..Len(roots), NEW a \in Address
      PROVE  RootOf(SavedAccount(i, a)') = RootOf(Current(a)')
  <2>1. SavedAccount(i, a)' = SavedAccount(i, a)
    BY DEF SavedKept
  <2> QED BY <1>1, <2>1 DEF SInv, SameRoots
<1>5. ASSUME NEW a \in Address
      PROVE  /\ AccountOK(Current(a)')
             /\ \A i \in 1..Len(roots) : AccountOK(SavedAccount(i, a)')
  <2>1. AccountOK(Current(a)')
    BY DEF SInv, ContractsOK, CurrentKept
  <2>2. \A i \in 1..Len(roots) : AccountOK(SavedAccount(i, a)')
    BY DEF SInv, ContractsOK, SavedKept
  <2> QED BY <2>1, <2>2
<1>6. ASSUME NEW a \in Address, NEW k \in Slot
      PROVE  /\ SlotOK(Current(a)', slots'[<<a, k>>])
             /\ \A i \in 1..Len(roots) : SlotOK(SavedAccount(i, a)', PreSlot(i, a, k)')
  <2>1. SlotOK(Current(a)', slots'[<<a, k>>])
    BY DEF SInv, SlotsOK, CurrentKept
  <2>2. ASSUME NEW i \in 1..Len(roots)
        PROVE  SlotOK(SavedAccount(i, a)', PreSlot(i, a, k)')
    <3>1. i \in 0..Len(roots)
      BY <1>2
    <3>2. SavedAccount(i, a)' = SavedAccount(i, a)
      BY DEF SavedKept
    <3>3. SlotOK(SavedAccount(i, a), PreSlot(i, a, k))
      BY DEF SInv, SlotsOK
    <3> QED BY <3>1, <3>2, <3>3 DEF SlotOK
  <2> QED BY <2>1, <2>2
<1>7. ASSUME NEW i \in 0..Len(roots), NEW a \in Address, NEW k \in Slot, i <= 1
      PROVE  PreSlot(i, a, k)' \in {NotCached, RootOf(Current(a)')[k]}
  <2>1. PreSlot(i, a, k) \in {NotCached, RootOf(Current(a))[k]}
    BY <1>7 DEF SInv, SlotsCoherent
  <2> QED BY <1>1, <2>1
<1>8. SameRoots' /\ ContractsOK' /\ SlotsOK' /\ SlotsCoherent'
  BY <1>4, <1>5, <1>6, <1>7 DEF SameRoots, ContractsOK, SlotsOK, SlotsCoherent
<1>9. TrieOK'
  BY DEF SInv, TrieOK
<1> QED BY <1>3, <1>8, <1>9 DEF SInv

-----------------------------------------------------------------------------
(* What the operations do to the state, and that they keep the invariant.  *)

SlotsKept(n) ==
    \A i \in 1..n, a \in Address, k \in Slot : SavedSlot(i, a, k)' = SavedSlot(i, a, k)

StorageKept(S) ==
    \A a \in S, k \in Slot : StorageOf(a, k)' = StorageOf(a, k)

StorageView ==
    /\ Len(roots) \in Nat
    /\ \A a \in Address, k \in Slot :
           StorageOf(a, k) = ValueOf(slots[<<a, k>>], Current(a), k)
    /\ \A i, a, k : k \in Slot =>
           SavedSlot(i, a, k) = ValueOf(PreSlot(i, a, k), SavedAccount(i, a), k)

(* The storage that is seen in a state has its type *)
LEMMA ViewFacts == IInv /\ SInv => StorageView
BY StorageFacts, AccountTypes DEF StorageView

(* The same after a step. *)
LEMMA ViewStays == IInv' /\ SInv' => StorageView'
BY ViewFacts, PTL

(* What is saved of the slots stays, when the maps and accounts do.        *)
LEMMA KeptSlots ==
    ASSUME StorageView, NEW n \in Nat, SavedKept(n),
           \A i \in 0..n, a \in Address, k \in Slot : PreSlot(i, a, k)' = PreSlot(i, a, k)
    PROVE  SlotsKept(n)
<1> SUFFICES ASSUME NEW i \in 1..n, NEW a \in Address, NEW k \in Slot
             PROVE  SavedSlot(i, a, k)' = SavedSlot(i, a, k)
  BY DEF SlotsKept
<1>1. i \in 0..n
  OBVIOUS
<1>2. PreSlot(i, a, k)' = PreSlot(i, a, k) /\ SavedAccount(i, a)' = SavedAccount(i, a)
  BY <1>1 DEF SavedKept
<1> QED BY <1>2 DEF SavedSlot, PreSlot

(* The storage stays where neither the storage root nor the slots change,  *)
(* or where the slots are read into the cache.                             *)
LEMMA KeptStorage ==
    ASSUME StorageView, StorageView', NEW S \in SUBSET Address,
           \A a \in S : RootOf(Current(a)') = RootOf(Current(a)),
           \A a \in S, k \in Slot :
               \/ slots'[<<a, k>>] = slots[<<a, k>>]
               \/ slots[<<a, k>>] = NotCached /\ slots'[<<a, k>>] = RootOf(Current(a))[k]
    PROVE  StorageKept(S)
<1> SUFFICES ASSUME NEW a \in S, NEW k \in Slot
             PROVE  StorageOf(a, k)' = StorageOf(a, k)
  BY DEF StorageKept
<1>1. StorageOf(a, k) = ValueOf(slots[<<a, k>>], Current(a), k)
  BY DEF StorageView
<1>2. StorageOf(a, k)' = ValueOf(slots'[<<a, k>>], Current(a)', k)
  BY DEF StorageView
<1>3. RootOf(Current(a)')[k] = RootOf(Current(a))[k]
  OBVIOUS
<1> HIDE DEF RootOf
<1> QED BY <1>1, <1>2, <1>3 DEF ValueOf

(* An account is put: its storage stays.                                   *)
LEMMA PutState ==
    ASSUME IInv, SInv, NEW b \in Address, NEW v \in Account, StatePut(b, v),
           RootOf(v) = RootOf(Current(b)), IsContract(Current(b)) => IsContract(v)
    PROVE  /\ SInv' /\ roots' = roots /\ Current(b)' = v /\ CurrentKept(Address \ {b})
           /\ SavedKept(Len(roots)) /\ SlotsKept(Len(roots)) /\ StorageKept(Address)
<1>1. CachePut(b, v) /\ v \in Stored /\ UNCHANGED storageVars
  BY DEF StatePut, PutAccount, Stored
<1>2. /\ roots' = roots /\ trie' = trie /\ Top' = Top /\ Current(b)' = v
      /\ CurrentKept(Address \ {b}) /\ SavedKept(Len(roots))
  BY <1>1, AccountPut
<1>3. slots' = slots /\ slotDiff' = slotDiff /\ storageTries' = storageTries
  BY <1>1 DEF storageVars
<1>4. \A i, a, k : PreSlot(i, a, k)' = PreSlot(i, a, k)
  BY <1>3 DEF PreSlot
<1>5. SlotTypeOK'
  BY <1>2, <1>3 DEF SInv, SlotTypeOK
<1>6. AccountOK(v) /\ \A k \in Slot : SlotOK(v, slots[<<b, k>>])
  BY DEF SInv, ContractsOK, SlotsOK, AccountOK, SlotOK
<1>7. SInv'
  <2>1. /\ RootOf(Current(b)') = RootOf(Current(b)) /\ AccountOK(Current(b)')
        /\ \A k \in Slot : SlotOK(Current(b)', slots'[<<b, k>>])
    BY <1>2, <1>3, <1>6
  <2>2. /\ storageTries' \in [Address -> StorageRoot \cup {NoTrie}]
        /\ storageTries'[b] \in {NoTrie, RootOf(Current(b))}
        /\ \A a \in Address \ {b} : storageTries'[a] = storageTries[a]
        /\ \A a \in Address \ {b}, k \in Slot : slots'[<<a, k>>] = slots[<<a, k>>]
    BY <1>3 DEF SInv, TriesOK
  <2>3. \A i \in 0..Len(roots), a \in Address, k \in Slot :
            PreSlot(i, a, k)' \in {NotCached, PreSlot(i, a, k)}
    BY <1>4
  <2> QED BY <1>2, <1>5, <2>1, <2>2, <2>3, WriteInv
<1>8. IInv'
  BY <1>1, PutInv
<1>9. StorageView /\ StorageView'
  BY <1>7, <1>8, ViewFacts, ViewStays
<1>10. StorageKept(Address)
  <2>1. \A a \in Address : RootOf(Current(a)') = RootOf(Current(a))
    BY <1>2 DEF CurrentKept
  <2> QED BY <1>3, <1>9, <2>1, KeptStorage
<1>11. SlotsKept(Len(roots))
  BY <1>2, <1>4, <1>9, KeptSlots DEF StorageView
<1> QED BY <1>2, <1>7, <1>10, <1>11

(* Where slots are dropped nothing is lost if they are 0 in the trie too.  *)
LEMMA DropSlots ==
    ASSUME SInv, StorageView, StorageView', NEW b \in Address,
           RootOf(Current(b)) = EmptyTrie, SavedKept(Len(roots)),
           \A i \in 1..Len(roots), k \in Slot :
               PreSlot(i, b, k) = slots[<<b, k>>] => slots[<<b, k>>] \in {NotCached, 0},
           \A i \in 0..Len(roots), a \in Address, k \in Slot :
               \/ PreSlot(i, a, k)' = PreSlot(i, a, k)
               \/ /\ a = b /\ PreSlot(i, a, k)' = NotCached
                  /\ PreSlot(i, a, k) = slots[<<a, k>>]
    PROVE  SlotsKept(Len(roots))
<1> SUFFICES ASSUME NEW i \in 1..Len(roots), NEW a \in Address, NEW k \in Slot
             PROVE  SavedSlot(i, a, k)' = SavedSlot(i, a, k)
  BY DEF SlotsKept
<1>1. i \in 0..Len(roots)
  BY DEF StorageView
<1>2. SavedAccount(i, a)' = SavedAccount(i, a)
  BY DEF SavedKept
<1>3. CASE PreSlot(i, a, k)' = PreSlot(i, a, k)
  BY <1>2, <1>3 DEF SavedSlot, PreSlot
<1>4. CASE a = b /\ PreSlot(i, a, k)' = NotCached /\ PreSlot(i, a, k) = slots[<<a, k>>]
  <2>1. RootOf(SavedAccount(i, a))[k] = 0
    BY <1>4 DEF SInv, SameRoots, EmptyTrie
  <2>2. PreSlot(i, a, k) \in {NotCached, 0}
    BY <1>4
  <2>3. SavedSlot(i, a, k) = 0
    BY <2>1, <2>2 DEF StorageView, ValueOf
  <2>4. SavedSlot(i, a, k)' = ValueOf(NotCached, SavedAccount(i, a), k)
    BY <1>2, <1>4 DEF StorageView
  <2> QED BY <2>1, <2>3, <2>4 DEF ValueOf
<1> QED BY <1>1, <1>3, <1>4

(* An account is deleted: without a storage root, and where what a         *)
(* checkpoint holds of its slots is not lost.                              *)
LEMMA DeleteState ==
    ASSUME IInv, SInv, NEW b \in Address, StateDelete(b),
           RootOf(Current(b)) = EmptyTrie,
           \A i \in 1..Len(roots), k \in Slot :
               PreSlot(i, b, k) = slots[<<b, k>>] => slots[<<b, k>>] \in {NotCached, 0}
    PROVE  /\ SInv' /\ roots' = roots /\ Current(b)' = NoAccount /\ CurrentKept(Address \ {b})
           /\ SavedKept(Len(roots)) /\ SlotsKept(Len(roots)) /\ StorageKept(Address \ {b})
<1>1. CachePut(b, NoAccount) /\ NoAccount \in Stored /\ SlotDrop(b) /\ storageTries' = storageTries
  BY DEF StateDelete, DeleteAccount, Stored, SlotDrop
<1>2. /\ roots' = roots /\ trie' = trie /\ Top' = Top /\ Current(b)' = NoAccount
      /\ CurrentKept(Address \ {b}) /\ SavedKept(Len(roots))
  BY <1>1, AccountPut
<1>3. /\ SlotTypeOK'
      /\ \A k \in Slot : slots'[<<b, k>>] = NotCached
      /\ \A a \in Address \ {b}, k \in Slot : slots'[<<a, k>>] = slots[<<a, k>>]
      /\ \A i \in 0..Len(roots), a \in Address, k \in Slot :
             \/ PreSlot(i, a, k)' = PreSlot(i, a, k)
             \/ /\ a = b /\ PreSlot(i, a, k)' = NotCached
                /\ PreSlot(i, a, k) = slots[<<a, k>>]
  BY <1>1, <1>2, SlotDropKeeps DEF SInv
<1>4. RootOf(NoAccount) = EmptyTrie /\ AccountOK(NoAccount) /\ SlotOK(NoAccount, NotCached)
  BY DEF RootOf, AccountOK, SlotOK
<1>5. SInv'
  <2>1. /\ storageTries' \in [Address -> StorageRoot \cup {NoTrie}]
        /\ storageTries'[b] \in {NoTrie, RootOf(Current(b))}
        /\ \A a \in Address \ {b} : storageTries'[a] = storageTries[a]
    BY <1>1 DEF SInv, TriesOK
  <2>2. /\ RootOf(Current(b)') = RootOf(Current(b)) /\ AccountOK(Current(b)')
        /\ \A k \in Slot : SlotOK(Current(b)', slots'[<<b, k>>])
    BY <1>2, <1>3, <1>4
  <2>3. \A i \in 0..Len(roots), a \in Address, k \in Slot :
            PreSlot(i, a, k)' \in {NotCached, PreSlot(i, a, k)}
    BY <1>3
  <2> QED BY <1>2, <1>3, <2>1, <2>2, <2>3, WriteInv
<1>6. IInv'
  BY <1>1, PutInv
<1>7. StorageView /\ StorageView'
  BY <1>5, <1>6, ViewFacts, ViewStays
<1>8. StorageKept(Address \ {b})
  <2>1. \A a \in Address \ {b} : RootOf(Current(a)') = RootOf(Current(a))
    BY <1>2 DEF CurrentKept
  <2> QED BY <1>3, <1>7, <2>1, KeptStorage
<1>9. SlotsKept(Len(roots))
  BY <1>2, <1>3, <1>7, DropSlots
<1> QED BY <1>2, <1>5, <1>8, <1>9

(* An account is created over one that is no contract and has no storage.  *)
LEMMA CreateState ==
    ASSUME IInv, SInv, NEW b \in Address, StateCreate(b),
           ~ IsContract(Current(b)), RootOf(Current(b)) = EmptyTrie
    PROVE  /\ SInv' /\ roots' = roots /\ IsContract(Current(b)') /\ CurrentKept(Address \ {b})
           /\ SavedKept(Len(roots)) /\ SlotsKept(Len(roots)) /\ StorageKept(Address)
<1> DEFINE v == [data |-> "contract", storageRoot |-> EmptyTrie]
<1>1. /\ CachePut(b, v) /\ SlotDrop(b)
      /\ storageTries' = [storageTries EXCEPT ![b] = EmptyTrie]
  BY DEF StateCreate, SlotDrop
<1>2. EmptyTrie \in StorageRoot /\ v \in Account /\ v \in Stored
  BY StateAssumption DEF EmptyTrie, StorageRoot, Stored
<1>3. /\ roots' = roots /\ trie' = trie /\ Top' = Top /\ Current(b)' = v
      /\ CurrentKept(Address \ {b}) /\ SavedKept(Len(roots))
  <2> HIDE DEF v
  <2> QED BY <1>1, <1>2, AccountPut
<1>4. /\ SlotTypeOK'
      /\ \A k \in Slot : slots'[<<b, k>>] = NotCached
      /\ \A a \in Address \ {b}, k \in Slot : slots'[<<a, k>>] = slots[<<a, k>>]
      /\ \A i \in 0..Len(roots), a \in Address, k \in Slot :
             \/ PreSlot(i, a, k)' = PreSlot(i, a, k)
             \/ /\ a = b /\ PreSlot(i, a, k)' = NotCached
                /\ PreSlot(i, a, k) = slots[<<a, k>>]
  BY <1>1, <1>3, SlotDropKeeps DEF SInv
<1>5. v # NoAccount /\ RootOf(v) = EmptyTrie /\ IsContract(v)
  BY <1>2, CacheAssumption DEF RootOf, IsContract
<1>6. SInv'
  <2>1. /\ storageTries' \in [Address -> StorageRoot \cup {NoTrie}]
        /\ storageTries'[b] \in {NoTrie, RootOf(Current(b))}
        /\ \A a \in Address \ {b} : storageTries'[a] = storageTries[a]
    BY <1>1, <1>2 DEF SInv, TriesOK
  <2>2. /\ RootOf(Current(b)') = RootOf(Current(b)) /\ AccountOK(Current(b)')
        /\ \A k \in Slot : SlotOK(Current(b)', slots'[<<b, k>>])
    <3> HIDE DEF v
    <3> QED BY <1>3, <1>4, <1>5 DEF AccountOK, SlotOK
  <2>3. \A i \in 0..Len(roots), a \in Address, k \in Slot :
            PreSlot(i, a, k)' \in {NotCached, PreSlot(i, a, k)}
    BY <1>4
  <2> QED BY <1>3, <1>4, <2>1, <2>2, <2>3, WriteInv
<1>7. IInv'
  <2> HIDE DEF v
  <2> QED BY <1>1, <1>2, PutInv
<1>8. StorageView /\ StorageView'
  BY <1>6, <1>7, ViewFacts, ViewStays
<1>9. \A k \in Slot : slots[<<b, k>>] \in {NotCached, 0}
  BY DEF SInv, SlotsOK, SlotOK
<1>10. SlotsKept(Len(roots))
  BY <1>3, <1>4, <1>8, <1>9, DropSlots
<1>11. StorageKept(Address \ {b})
  <2>1. \A a \in Address \ {b} : RootOf(Current(a)') = RootOf(Current(a))
    BY <1>3 DEF CurrentKept
  <2> QED BY <1>4, <1>8, <2>1, KeptStorage
<1>12. ASSUME NEW k \in Slot PROVE StorageOf(b, k)' = StorageOf(b, k)
  <2>1. StorageOf(b, k) = ValueOf(slots[<<b, k>>], Current(b), k)
    BY <1>8 DEF StorageView
  <2>2. StorageOf(b, k)' = ValueOf(slots'[<<b, k>>], Current(b)', k)
    BY <1>8 DEF StorageView
  <2>3. RootOf(Current(b))[k] = 0 /\ RootOf(Current(b)')[k] = 0
    BY <1>3, <1>5 DEF EmptyTrie
  <2> QED BY <1>4, <1>9, <2>1, <2>2, <2>3 DEF ValueOf
<1> QED BY <1>3, <1>5, <1>6, <1>10, <1>11, <1>12 DEF StorageKept

(* An account is read.                                                     *)
LEMMA ReadState ==
    ASSUME IInv, SInv, NEW b \in Address, GetAccount(b), UNCHANGED storageVars
    PROVE  /\ SInv' /\ roots' = roots /\ CurrentKept(Address)
           /\ SavedKept(Len(roots)) /\ SlotsKept(Len(roots)) /\ StorageKept(Address)
<1>1. /\ roots' = roots /\ trie' = trie /\ Top' = Top
      /\ CurrentKept(Address) /\ SavedKept(Len(roots))
  BY AccountGet
<1>2. slots' = slots /\ slotDiff' = slotDiff /\ storageTries' = storageTries
  BY DEF storageVars
<1>3. \A i, a, k : PreSlot(i, a, k)' = PreSlot(i, a, k)
  BY <1>2 DEF PreSlot
<1>4. SlotTypeOK'
  BY <1>1, <1>2 DEF SInv, SlotTypeOK
<1>5. SInv'
  <2>1. /\ RootOf(Current(b)') = RootOf(Current(b)) /\ AccountOK(Current(b)')
        /\ \A k \in Slot : SlotOK(Current(b)', slots'[<<b, k>>])
        /\ CurrentKept(Address \ {b})
    BY <1>1, <1>2 DEF CurrentKept, SInv, ContractsOK, SlotsOK
  <2>2. /\ storageTries' \in [Address -> StorageRoot \cup {NoTrie}]
        /\ storageTries'[b] \in {NoTrie, RootOf(Current(b))}
        /\ \A a \in Address \ {b} : storageTries'[a] = storageTries[a]
        /\ \A a \in Address \ {b}, k \in Slot : slots'[<<a, k>>] = slots[<<a, k>>]
    BY <1>2 DEF SInv, TriesOK
  <2>3. \A i \in 0..Len(roots), a \in Address, k \in Slot :
            PreSlot(i, a, k)' \in {NotCached, PreSlot(i, a, k)}
    BY <1>3
  <2> QED BY <1>1, <1>4, <2>1, <2>2, <2>3, WriteInv
<1>6. IInv'
  <2>1. [CacheNext]_cacheVars
    BY DEF CacheNext
  <2> QED BY <2>1, StepInv
<1>7. StorageView /\ StorageView'
  BY <1>5, <1>6, ViewFacts, ViewStays
<1>8. StorageKept(Address)
  <2>1. \A a \in Address : RootOf(Current(a)') = RootOf(Current(a))
    BY <1>1 DEF CurrentKept
  <2> QED BY <1>2, <1>7, <2>1, KeptStorage
<1>9. SlotsKept(Len(roots))
  BY <1>1, <1>3, <1>7, KeptSlots DEF StorageView
<1> QED BY <1>1, <1>5, <1>8, <1>9

(* A slot is put in the cache: no other changes, and nothing that is saved. *)
LEMMA PutSlot ==
    ASSUME IInv, SInv, NEW b \in Address, NEW k \in Slot, NEW v \in Value,
           Current(b) # NoAccount, GetAccount(b), storageTries' = Looked(b, k),
           SlotPut(b, k, v), SlotOK(Current(b), v)
    PROVE  /\ SInv' /\ roots' = roots /\ CurrentKept(Address)
           /\ SavedKept(Len(roots)) /\ SlotsKept(Len(roots))
           /\ StorageOf(b, k)' = v
           /\ \A a \in Address, j \in Slot :
                  <<a, j>> # <<b, k>> => StorageOf(a, j)' = StorageOf(a, j)
<1>1. /\ roots' = roots /\ trie' = trie /\ Top' = Top
      /\ CurrentKept(Address) /\ SavedKept(Len(roots))
  BY AccountGet
<1>2. /\ SlotTypeOK'
      /\ \A i \in 0..Len(roots), a \in Address, j \in Slot :
             PreSlot(i, a, j)' = PreSlot(i, a, j)
  BY <1>1, SlotPutKeeps DEF SInv
<1>3. \A a \in Address, j \in Slot :
          slots'[<<a, j>>] = IF <<a, j>> = <<b, k>> THEN v ELSE slots[<<a, j>>]
  BY DEF SlotPut, SInv, SlotTypeOK, AllSlots
<1>4. StorageTrie(b) = RootOf(Current(b)) /\ RootOf(Current(b)) \in StorageRoot
  BY StorageFacts
<1>5. SInv'
  <2>1. /\ RootOf(Current(b)') = RootOf(Current(b)) /\ AccountOK(Current(b)')
        /\ CurrentKept(Address \ {b}) /\ Current(b)' = Current(b)
    BY <1>1 DEF CurrentKept, SInv, ContractsOK
  <2>2. /\ storageTries' \in [Address -> StorageRoot \cup {NoTrie}]
        /\ storageTries'[b] \in {NoTrie, RootOf(Current(b))}
        /\ \A a \in Address \ {b} : storageTries'[a] = storageTries[a]
    BY <1>4 DEF SInv, TriesOK, Looked
  <2>3. \A j \in Slot : SlotOK(Current(b)', slots'[<<b, j>>])
    BY <1>3, <2>1 DEF SInv, SlotsOK
  <2>4. \A a \in Address \ {b}, j \in Slot : slots'[<<a, j>>] = slots[<<a, j>>]
    BY <1>3
  <2>5. \A i \in 0..Len(roots), a \in Address, j \in Slot :
            PreSlot(i, a, j)' \in {NotCached, PreSlot(i, a, j)}
    BY <1>2
  <2> QED BY <1>1, <1>2, <2>1, <2>2, <2>3, <2>4, <2>5, WriteInv
<1>6. IInv'
  <2>1. [CacheNext]_cacheVars
    BY DEF CacheNext
  <2> QED BY <2>1, StepInv
<1>7. StorageView /\ StorageView'
  BY <1>5, <1>6, ViewFacts, ViewStays
<1>8. SlotsKept(Len(roots))
  BY <1>1, <1>2, <1>7, KeptSlots DEF StorageView
<1>9. ASSUME NEW a \in Address, NEW j \in Slot
      PROVE  StorageOf(a, j)' = IF <<a, j>> = <<b, k>> THEN v ELSE StorageOf(a, j)
  <2>1. /\ StorageOf(a, j) = ValueOf(slots[<<a, j>>], Current(a), j)
        /\ StorageOf(a, j)' = ValueOf(slots'[<<a, j>>], Current(a)', j)
    BY <1>7 DEF StorageView
  <2>2. Current(a)' = Current(a)
    BY <1>1 DEF CurrentKept
  <2>3. v # NotCached
    BY StateAssumption
  <2> QED BY <1>3, <2>1, <2>2, <2>3 DEF ValueOf
<1>10. /\ StorageOf(b, k)' = v
       /\ \A a \in Address, j \in Slot :
              <<a, j>> # <<b, k>> => StorageOf(a, j)' = StorageOf(a, j)
  BY <1>9
<1> QED BY <1>1, <1>5, <1>8, <1>10

(* A slot is read: nothing changes.                                        *)
LEMMA ReadSlot ==
    ASSUME IInv, SInv, NEW b \in Address, NEW k \in Slot, GetStorage(b, k)
    PROVE  /\ SInv' /\ roots' = roots /\ CurrentKept(Address)
           /\ SavedKept(Len(roots)) /\ SlotsKept(Len(roots)) /\ StorageKept(Address)
<1>1. GetAccount(b) /\ Current(b) # NoAccount /\ storageTries' = Looked(b, k)
  BY DEF GetStorage
<1>2. CASE slots[<<b, k>>] # NotCached
  <2>1. UNCHANGED storageVars
    BY <1>1, <1>2 DEF GetStorage, Looked, storageVars
  <2> QED BY <1>1, <2>1, ReadState
<1>3. CASE slots[<<b, k>>] = NotCached
  <2> DEFINE v == RootOf(Current(b))[k]
  <2>1. StorageTrie(b) = RootOf(Current(b)) /\ RootOf(Current(b)) \in StorageRoot
    BY <1>1, StorageFacts
  <2>2. SlotPut(b, k, v) /\ v \in Value
    BY <1>3, <2>1 DEF GetStorage, StorageRoot
  <2>3. SlotOK(Current(b), v)
    BY DEF SInv, ContractsOK, AccountOK, SlotOK, EmptyTrie
  <2>4. StorageOf(b, k) = v
    BY <1>3, StorageFacts DEF ValueOf
  <2> HIDE DEF v
  <2>5. /\ SInv' /\ roots' = roots /\ CurrentKept(Address)
        /\ SavedKept(Len(roots)) /\ SlotsKept(Len(roots))
        /\ StorageOf(b, k)' = v
        /\ \A a \in Address, j \in Slot :
               <<a, j>> # <<b, k>> => StorageOf(a, j)' = StorageOf(a, j)
    BY <1>1, <2>2, <2>3, PutSlot
  <2> QED BY <2>4, <2>5 DEF StorageKept
<1> QED BY <1>2, <1>3

(* A contract stores a slot.                                               *)
LEMMA WriteSlot ==
    ASSUME IInv, SInv, NEW b \in Address, NEW k \in Slot, NEW v \in Value,
           PutStorage(b, k, v), IsContract(Current(b))
    PROVE  /\ SInv' /\ roots' = roots /\ CurrentKept(Address)
           /\ SavedKept(Len(roots)) /\ SlotsKept(Len(roots))
           /\ StorageOf(b, k)' = v
           /\ \A a \in Address, j \in Slot :
                  <<a, j>> # <<b, k>> => StorageOf(a, j)' = StorageOf(a, j)
BY PutSlot DEF PutStorage, SlotOK

(* Opening a checkpoint.  The first one is opened when no slot has changed *)
(* since the last flush.                                                   *)
LEMMA OpenState ==
    ASSUME IInv, SInv, StateCheckpoint, Len(roots) = 0 => slotDiff = <<NoSlotDiff>>
    PROVE  /\ SInv' /\ Len(roots') = Len(roots) + 1 /\ CurrentKept(Address)
           /\ SavedKept(Len(roots)) /\ SlotsKept(Len(roots)) /\ StorageKept(Address)
           /\ \A n, a : n = Len(roots) + 1 /\ a \in Address =>
                  /\ SavedAccount(n, a)' = Current(a)
                  /\ \A k \in Slot : SavedSlot(n, a, k)' = StorageOf(a, k)
<1>1. Checkpoint /\ SlotCheckpoint /\ slots' = slots /\ storageTries' = storageTries
  BY DEF StateCheckpoint, SlotCheckpoint
<1>2. /\ Len(roots') = Len(roots) + 1 /\ Top' = Top + 1 /\ Len(roots) \in Nat /\ trie' = trie
      /\ CurrentKept(Address) /\ SavedKept(Len(roots))
      /\ \A n, a : n = Len(roots) + 1 /\ a \in Address => SavedAccount(n, a)' = Current(a)
  BY <1>1, AccountCheckpoint, AccountTypes
<1>3. /\ SlotTypeOK'
      /\ \A a \in Address, k \in Slot :
             /\ \A i \in 0..Len(roots) : PreSlot(i, a, k)' = PreSlot(i, a, k)
             /\ \A n : n = Len(roots) + 1 => PreSlot(n, a, k)' = slots[<<a, k>>]
  BY <1>1, <1>2, SlotCheckpointKeeps DEF SInv
<1>4. ASSUME NEW i \in 1..Len(roots'), NEW a \in Address
      PROVE  /\ RootOf(SavedAccount(i, a)') = RootOf(Current(a)')
             /\ AccountOK(SavedAccount(i, a)')
             /\ \A k \in Slot : SlotOK(SavedAccount(i, a)', PreSlot(i, a, k)')
  <2>1. Current(a)' = Current(a)
    BY <1>2 DEF CurrentKept
  <2>2. CASE i \in 1..Len(roots)
    <3>1. SavedAccount(i, a)' = SavedAccount(i, a) /\ i \in 0..Len(roots)
      BY <1>2, <2>2 DEF SavedKept
    <3> QED BY <1>3, <2>1, <2>2, <3>1 DEF SInv, SameRoots, ContractsOK, SlotsOK
  <2>3. ASSUME NEW CONSTANT n, n = Len(roots) + 1
        PROVE  /\ RootOf(SavedAccount(n, a)') = RootOf(Current(a)')
               /\ AccountOK(SavedAccount(n, a)')
               /\ \A k \in Slot : SlotOK(SavedAccount(n, a)', PreSlot(n, a, k)')
    <3>1. SavedAccount(n, a)' = Current(a)
      BY <1>2, <2>3
    <3>2. \A k \in Slot : PreSlot(n, a, k)' = slots[<<a, k>>]
      BY <1>3, <2>3
    <3> QED BY <2>1, <3>1, <3>2 DEF SInv, ContractsOK, SlotsOK
  <2>4. i \in 1..Len(roots) \/ i = Len(roots) + 1
    BY <1>2
  <2> QED BY <2>2, <2>3, <2>4
<1>5. ASSUME NEW i \in 0..Len(roots'), NEW a \in Address, NEW k \in Slot, i <= 1
      PROVE  PreSlot(i, a, k)' \in {NotCached, RootOf(Current(a)')[k]}
  <2>1. Current(a)' = Current(a)
    BY <1>2 DEF CurrentKept
  <2>2. CASE i \in 0..Len(roots)
    BY <1>3, <1>5, <2>1, <2>2 DEF SInv, SlotsCoherent
  <2>3. CASE i = Len(roots) + 1
    <3>1. Len(roots) = 0 /\ slotDiff = <<NoSlotDiff>> /\ i = 1
      BY <1>2, <1>5, <2>3
    <3>2. NoneAbove(slotDiff, 0, <<a, k>>)
      BY <3>1 DEF NoneAbove, NoSlotDiff, AllSlots
    <3>3. PreSlot(0, a, k) = slots[<<a, k>>]
      BY <3>2, PreNone DEF PreSlot
    <3>4. PreSlot(0, a, k) \in {NotCached, RootOf(Current(a))[k]}
      BY <3>1 DEF SInv, SlotsCoherent
    <3>5. PreSlot(1, a, k)' = slots[<<a, k>>]
      BY <1>3, <3>1
    <3> QED BY <2>1, <3>1, <3>3, <3>4, <3>5
  <2>4. i \in 0..Len(roots) \/ i = Len(roots) + 1
    BY <1>2
  <2> QED BY <2>2, <2>3, <2>4
<1>6. SInv'
  <2>1. TriesOK'
    BY <1>1, <1>2 DEF SInv, TriesOK, CurrentKept
  <2>2. \A a \in Address : AccountOK(Current(a)')
    BY <1>2 DEF SInv, ContractsOK, CurrentKept
  <2>3. \A a \in Address, k \in Slot : SlotOK(Current(a)', slots'[<<a, k>>])
    BY <1>1, <1>2 DEF SInv, SlotsOK, CurrentKept
  <2>4. SameRoots' /\ ContractsOK' /\ SlotsOK' /\ SlotsCoherent'
    BY <1>4, <1>5, <2>2, <2>3 DEF SameRoots, ContractsOK, SlotsOK, SlotsCoherent
  <2>5. TrieOK'
    BY <1>2 DEF SInv, TrieOK
  <2> QED BY <1>3, <2>1, <2>4, <2>5 DEF SInv
<1>7. IInv'
  BY <1>1, CheckpointInv
<1>8. StorageView /\ StorageView'
  BY <1>6, <1>7, ViewFacts, ViewStays
<1>9. StorageKept(Address)
  <2>1. \A a \in Address : RootOf(Current(a)') = RootOf(Current(a))
    BY <1>2 DEF CurrentKept
  <2> QED BY <1>1, <1>8, <2>1, KeptStorage
<1>10. SlotsKept(Len(roots))
  BY <1>2, <1>3, <1>8, KeptSlots
<1>11. ASSUME NEW CONSTANT n, NEW CONSTANT a, NEW k \in Slot,
              n = Len(roots) + 1, a \in Address
       PROVE  SavedSlot(n, a, k)' = StorageOf(a, k)
  <2>1. SavedSlot(n, a, k)' = ValueOf(PreSlot(n, a, k)', SavedAccount(n, a)', k)
    BY <1>8 DEF StorageView
  <2>2. SavedAccount(n, a)' = Current(a) /\ PreSlot(n, a, k)' = slots[<<a, k>>]
    BY <1>2, <1>3, <1>11
  <2>3. StorageOf(a, k) = ValueOf(slots[<<a, k>>], Current(a), k)
    BY <1>8, <1>11 DEF StorageView
  <2> QED BY <2>1, <2>2, <2>3
<1> QED BY <1>2, <1>6, <1>9, <1>10, <1>11

(* Closing a checkpoint keeps the invariant.                               *)
LEMMA CloseInvs ==
    ASSUME IInv, SInv, SlotTypeOK', Len(roots) > 0, Len(roots') = Len(roots) - 1, trie' = trie,
           SavedKept(Len(roots) - 1),
           \A i \in 0..(Len(roots) - 1), a \in Address, k \in Slot :
               PreSlot(i, a, k)' = PreSlot(i, a, k),
           storageTries' \in [Address -> StorageRoot \cup {NoTrie}],
           \A a \in Address :
               /\ storageTries'[a] \in {NoTrie, RootOf(Current(a))}
               /\ RootOf(Current(a)') = RootOf(Current(a))
               /\ AccountOK(Current(a)')
               /\ \A k \in Slot : SlotOK(Current(a)', slots'[<<a, k>>])
    PROVE  SInv'
<1>1. Len(roots) \in Nat /\ 1..Len(roots') \subseteq 1..Len(roots)
      /\ 0..Len(roots') \subseteq 0..Len(roots) /\ 1..Len(roots') \subseteq 0..(Len(roots) - 1)
  BY AccountTypes
<1>2. TriesOK'
  BY DEF TriesOK
<1>3. ASSUME NEW i \in 1..Len(roots'), NEW a \in Address
      PROVE  /\ RootOf(SavedAccount(i, a)') = RootOf(Current(a)')
             /\ AccountOK(SavedAccount(i, a)')
             /\ \A k \in Slot : SlotOK(SavedAccount(i, a)', PreSlot(i, a, k)')
  <2>1. SavedAccount(i, a)' = SavedAccount(i, a) /\ i \in 1..Len(roots)
    BY <1>1 DEF SavedKept
  <2>2. \A k \in Slot : PreSlot(i, a, k)' = PreSlot(i, a, k)
    BY <1>1
  <2> QED BY <2>1, <2>2 DEF SInv, SameRoots, ContractsOK, SlotsOK
<1>4. SlotsCoherent'
  BY <1>1 DEF SInv, SlotsCoherent
<1>5. SameRoots' /\ ContractsOK' /\ SlotsOK'
  BY <1>3 DEF SameRoots, ContractsOK, SlotsOK
<1>6. TrieOK'
  BY DEF SInv, TrieOK
<1> QED BY <1>2, <1>4, <1>5, <1>6 DEF SInv

(* A commit changes nothing but for the checkpoint it gives up.            *)
LEMMA CommitState ==
    ASSUME IInv, SInv, StateCommit
    PROVE  /\ SInv' /\ Len(roots) > 0 /\ Len(roots') = Len(roots) - 1
           /\ CurrentKept(Address) /\ StorageKept(Address)
           /\ SavedKept(Len(roots) - 1) /\ SlotsKept(Len(roots) - 1)
<1>1. Commit /\ SlotCommit /\ slots' = slots /\ storageTries' = storageTries
  BY DEF StateCommit, SlotCommit
<1>2. /\ Len(roots) \in Nat /\ Len(roots) > 0 /\ Len(roots') = Len(roots) - 1
      /\ Top' = Top - 1 /\ trie' = trie /\ CurrentKept(Address) /\ SavedKept(Len(roots) - 1)
  BY <1>1, AccountCommit, AccountTypes
<1>3. /\ SlotTypeOK'
      /\ \A i \in 0..(Len(roots) - 1), a \in Address, k \in Slot :
             PreSlot(i, a, k)' = PreSlot(i, a, k)
  BY <1>1, <1>2, SlotCommitKeeps DEF SInv
<1>4. SInv'
  <2>1. storageTries' \in [Address -> StorageRoot \cup {NoTrie}]
    BY <1>1 DEF SInv, TriesOK
  <2>2. \A a \in Address :
            /\ storageTries'[a] \in {NoTrie, RootOf(Current(a))}
            /\ RootOf(Current(a)') = RootOf(Current(a))
            /\ AccountOK(Current(a)')
            /\ \A k \in Slot : SlotOK(Current(a)', slots'[<<a, k>>])
    BY <1>1, <1>2 DEF SInv, TriesOK, ContractsOK, SlotsOK, CurrentKept
  <2> QED BY <1>2, <1>3, <2>1, <2>2, CloseInvs
<1>5. IInv'
  BY <1>1, CommitInv
<1>6. StorageView /\ StorageView'
  BY <1>4, <1>5, ViewFacts, ViewStays
<1>7. StorageKept(Address)
  <2>1. \A a \in Address : RootOf(Current(a)') = RootOf(Current(a))
    BY <1>2 DEF CurrentKept
  <2> QED BY <1>1, <1>6, <2>1, KeptStorage
<1>8. SlotsKept(Len(roots) - 1)
  BY <1>2, <1>3, <1>6, KeptSlots
<1> QED BY <1>2, <1>4, <1>7, <1>8

(* A revert brings back what its checkpoint holds.                         *)
LEMMA RevertState ==
    ASSUME IInv, SInv, StateRevert
    PROVE  /\ SInv' /\ Len(roots) > 0 /\ Len(roots') = Len(roots) - 1
           /\ \A a \in Address :
                  /\ Current(a)' = SavedAccount(Len(roots), a)
                  /\ \A k \in Slot : StorageOf(a, k)' = SavedSlot(Len(roots), a, k)
           /\ SavedKept(Len(roots) - 1) /\ SlotsKept(Len(roots) - 1)
<1>1. Revert /\ SlotRevert /\ storageTries' = NoStorageTries
  BY DEF StateRevert, SlotRevert
<1>2. /\ Len(roots) \in Nat /\ Len(roots) > 0 /\ Len(roots') = Len(roots) - 1
      /\ Top' = Top - 1 /\ trie' = trie /\ SavedKept(Len(roots) - 1)
      /\ \A a \in Address : Current(a)' = SavedAccount(Len(roots), a)
  BY <1>1, AccountRevert, AccountTypes
<1>3. /\ SlotTypeOK'
      /\ \A a \in Address, k \in Slot : slots'[<<a, k>>] = PreSlot(Len(roots), a, k)
      /\ \A i \in 0..(Len(roots) - 1), a \in Address, k \in Slot :
             PreSlot(i, a, k)' = PreSlot(i, a, k)
  BY <1>1, <1>2, SlotRevertKeeps DEF SInv
<1>4. SInv'
  <2>1. storageTries' \in [Address -> StorageRoot \cup {NoTrie}]
    BY <1>1 DEF NoStorageTries
  <2>2. ASSUME NEW a \in Address
        PROVE  /\ storageTries'[a] \in {NoTrie, RootOf(Current(a))}
               /\ RootOf(Current(a)') = RootOf(Current(a))
               /\ AccountOK(Current(a)')
               /\ \A k \in Slot : SlotOK(Current(a)', slots'[<<a, k>>])
    <3>1. storageTries'[a] = NoTrie
      BY <1>1 DEF NoStorageTries
    <3>2. Len(roots) \in 1..Len(roots)
      BY <1>2
    <3> QED BY <1>2, <1>3, <3>1, <3>2 DEF SInv, SameRoots, ContractsOK, SlotsOK
  <2> QED BY <1>2, <1>3, <2>1, <2>2, CloseInvs
<1>5. IInv'
  BY <1>1, RevertInv
<1>6. StorageView /\ StorageView'
  BY <1>4, <1>5, ViewFacts, ViewStays
<1>7. ASSUME NEW a \in Address, NEW k \in Slot
      PROVE  StorageOf(a, k)' = SavedSlot(Len(roots), a, k)
  <2>1. StorageOf(a, k)' = ValueOf(slots'[<<a, k>>], Current(a)', k)
    BY <1>6 DEF StorageView
  <2>2. SavedSlot(Len(roots), a, k)
            = ValueOf(PreSlot(Len(roots), a, k), SavedAccount(Len(roots), a), k)
    BY <1>6 DEF StorageView
  <2> QED BY <1>2, <1>3, <2>1, <2>2
<1>8. SlotsKept(Len(roots) - 1)
  BY <1>2, <1>3, <1>6, KeptSlots
<1> QED BY <1>2, <1>4, <1>7, <1>8

(* With no checkpoint open there is one diff map of slots.                 *)
LEMMA FlatFacts ==
    ASSUME SInv, Len(roots) = 0
    PROVE  /\ Len(slotDiff) = 1 /\ slotDiff = <<slotDiff[1]>> /\ slotDiff[1] \in SlotDiffMap
           /\ \A a \in Address, k \in Slot :
                  PreSlot(0, a, k) = IF slotDiff[1][<<a, k>>] = NoEntry THEN slots[<<a, k>>]
                                                                   ELSE slotDiff[1][<<a, k>>]
<1>1. slotDiff \in Seq(SlotDiffMap) /\ Len(slotDiff) = 1
  BY DEF SInv, SlotTypeOK
<1>2. slotDiff = <<slotDiff[1]>> /\ slotDiff[1] \in SlotDiffMap
  <2> HIDE DEF SlotDiffMap
  <2> QED BY <1>1
<1> QED BY <1>1, <1>2, PreOne DEF PreSlot

(* With no checkpoint open the invariant is about the slots and the roots. *)
LEMMA FlatInv ==
    ASSUME NEW d \in SlotDiffMap, slotDiff' = <<d>>, Top' = 1, Len(roots') = 0,
           slots' \in [AllSlots -> Value \cup {NotCached}],
           storageTries' \in [Address -> StorageRoot \cup {NoTrie}], TrieOK',
           \A a \in Address :
               /\ storageTries'[a] \in {NoTrie, RootOf(Current(a)')}
               /\ AccountOK(Current(a)')
               /\ \A k \in Slot :
                      /\ SlotOK(Current(a)', slots'[<<a, k>>])
                      /\ (IF d[<<a, k>>] = NoEntry THEN slots'[<<a, k>>] ELSE d[<<a, k>>])
                             \in {NotCached, RootOf(Current(a)')[k]}
    PROVE  SInv'
<1>1. slotDiff' \in Seq(SlotDiffMap) /\ Len(slotDiff') = 1 /\ slotDiff'[1] = d
  <2> HIDE DEF SlotDiffMap
  <2> QED OBVIOUS
<1>2. SlotTypeOK'
  BY <1>1 DEF SlotTypeOK
<1>3. ASSUME NEW i \in 0..Len(roots'), NEW a \in Address, NEW k \in Slot
      PROVE  PreSlot(i, a, k)' \in {NotCached, RootOf(Current(a)')[k]}
  <2>1. i = 0
    OBVIOUS
  <2>2. PreState(slots', slotDiff', 0, <<a, k>>)
            = IF d[<<a, k>>] = NoEntry THEN slots'[<<a, k>>] ELSE d[<<a, k>>]
    BY <1>1, PreOne
  <2>3. PreSlot(i, a, k)' = PreState(slots', slotDiff', 0, <<a, k>>)
    BY <2>1 DEF PreSlot
  <2> QED BY <2>2, <2>3
<1>4. TriesOK' /\ SameRoots' /\ ContractsOK' /\ SlotsOK'
  BY DEF TriesOK, SameRoots, ContractsOK, SlotsOK
<1>5. SlotsCoherent'
  BY <1>3 DEF SlotsCoherent
<1> QED BY <1>2, <1>4, <1>5 DEF SInv

(* The slots of an account are flushed.  Only a contract has any to write. *)
LEMMA FlushSlotsState ==
    ASSUME IInv, SInv, NEW b \in Address, FlushStorage(b)
    PROVE  /\ SInv' /\ Len(roots) = 0 /\ Len(roots') = 0 /\ CurrentKept(Address \ {b})
           /\ Current(b)' = NoAccount <=> Current(b) = NoAccount
           /\ Current(b) # NoAccount => Current(b)'.data = Current(b).data
           /\ StorageKept(Address \ {b})
<1>1. Len(roots) = 0 /\ Top = 1 /\ Top \in Nat
  BY AccountTypes DEF FlushStorage
<1> DEFINE d == [ak \in AllSlots |-> IF ak[1] = b THEN NoEntry ELSE slotDiff[1][ak]]
<1>2. /\ Len(slotDiff) = 1 /\ slotDiff = <<slotDiff[1]>> /\ slotDiff[1] \in SlotDiffMap
      /\ \A a \in Address, k \in Slot :
             PreSlot(0, a, k) = IF slotDiff[1][<<a, k>>] = NoEntry THEN slots[<<a, k>>]
                                                              ELSE slotDiff[1][<<a, k>>]
  BY <1>1, FlatFacts
<1>3. d \in SlotDiffMap /\ slotDiff' = <<d>> /\ slots' = slots
  <2>1. d \in SlotDiffMap
    BY <1>2 DEF SlotDiffMap
  <2>2. slotDiff' = [slotDiff EXCEPT ![1] = d] /\ slots' = slots
    BY DEF FlushStorage
  <2> HIDE DEF d, SlotDiffMap
  <2> QED BY <1>2, <2>1, <2>2
<1>4. /\ \A k \in Slot : d[<<b, k>>] = NoEntry
      /\ \A a \in Address \ {b}, k \in Slot : d[<<a, k>>] = slotDiff[1][<<a, k>>]
  BY DEF AllSlots
<1>5. \A a \in Address, k \in Slot :
          /\ PreSlot(0, a, k) \in {NotCached, RootOf(Current(a))[k]}
          /\ SlotOK(Current(a), slots[<<a, k>>])
          /\ slots[<<a, k>>] \in Value \cup {NotCached}
  <2>1. SlotsCoherent /\ 0 \in 0..Len(roots)
    BY <1>1 DEF SInv
  <2>2. \A a \in Address, k \in Slot : PreSlot(0, a, k) \in {NotCached, RootOf(Current(a))[k]}
    BY <2>1 DEF SlotsCoherent
  <2>3. \A a \in Address, k \in Slot : SlotOK(Current(a), slots[<<a, k>>])
    BY DEF SInv, SlotsOK
  <2>4. \A a \in Address, k \in Slot : slots[<<a, k>>] \in Value \cup {NotCached}
    BY DEF SInv, SlotTypeOK, AllSlots
  <2> QED BY <2>2, <2>3, <2>4
<1> HIDE DEF d
<1>6. /\ slots' \in [AllSlots -> Value \cup {NotCached}]
      /\ storageTries \in [Address -> StorageRoot \cup {NoTrie}]
      /\ \A a \in Address : storageTries[a] \in {NoTrie, RootOf(Current(a))} /\ AccountOK(Current(a))
  BY <1>3 DEF SInv, SlotTypeOK, TriesOK, ContractsOK
<1>7. CASE Current(b) # NoAccount /\ PutAccount(b, [Current(b) EXCEPT !.storageRoot = Written(b)])
                /\ storageTries' = [storageTries EXCEPT ![b] = Written(b)]
  <2> DEFINE R == Written(b)
             v == [Current(b) EXCEPT !.storageRoot = R]
  <2>1. StorageTrie(b) = RootOf(Current(b)) /\ RootOf(Current(b)) \in StorageRoot
    BY <1>7, StorageFacts
  <2>2. R \in [Slot -> Value] /\ R \in StorageRoot
    <3>1. \A k \in Slot : slots[<<b, k>>] # NotCached => slots[<<b, k>>] \in Value
      BY <1>5
    <3>2. \A k \in Slot : R[k] \in Value
      BY <2>1, <3>1, StateAssumption DEF Written, StorageRoot
    <3> QED BY <3>2 DEF Written, StorageRoot
  <2>3. Current(b) \in Account
    BY <1>7, AccountTypes DEF Stored
  <2>4. /\ v \in Account /\ v \in Stored /\ v # NoAccount /\ RootOf(v) = R
        /\ v.data = Current(b).data /\ (IsContract(v) <=> IsContract(Current(b)))
    <3>1. v \in Account /\ v.data = Current(b).data /\ v.storageRoot = R
      BY <2>2, <2>3, StateAssumption
    <3> HIDE DEF v, R
    <3> QED BY <1>7, <3>1, CacheAssumption DEF Stored, RootOf, IsContract
  <2>5. \A k \in Slot :
            R[k] = CASE slotDiff[1][<<b, k>>] = NoEntry -> RootOf(Current(b))[k]
                     [] slotDiff[1][<<b, k>>] # NoEntry /\ slots[<<b, k>>] = NotCached -> 0
                     [] OTHER -> slots[<<b, k>>]
    BY <2>1 DEF Written
  <2> HIDE DEF R
  <2>6. /\ roots' = roots /\ trie' = trie /\ Top' = Top
        /\ Current(b)' = v /\ CurrentKept(Address \ {b})
    <3> HIDE DEF v
    <3> QED BY <1>7, <2>4, AccountPut DEF PutAccount, v, R
  <2> HIDE DEF v
  <2>7. \A k \in Slot : slots[<<b, k>>] \in {NotCached, R[k]}
    BY <1>2, <1>5, <2>5
  <2>8. AccountOK(v)
    <3> SUFFICES ASSUME ~ IsContract(Current(b)) PROVE R = EmptyTrie
      BY <2>4 DEF AccountOK
    <3>1. RootOf(Current(b)) = EmptyTrie
      BY <1>6 DEF AccountOK
    <3>2. \A k \in Slot : R[k] = 0
      BY <1>5, <2>5, <3>1 DEF SlotOK, EmptyTrie
    <3> QED BY <2>2, <3>2 DEF EmptyTrie
  <2>9. storageTries' \in [Address -> StorageRoot \cup {NoTrie}]
        /\ storageTries'[b] = R /\ \A a \in Address \ {b} : storageTries'[a] = storageTries[a]
    BY <1>6, <1>7, <2>2 DEF R
  <2>10. ASSUME NEW a \in Address
         PROVE  /\ storageTries'[a] \in {NoTrie, RootOf(Current(a)')}
                /\ AccountOK(Current(a)')
                /\ \A k \in Slot :
                       /\ SlotOK(Current(a)', slots'[<<a, k>>])
                       /\ (IF d[<<a, k>>] = NoEntry THEN slots'[<<a, k>>] ELSE d[<<a, k>>])
                              \in {NotCached, RootOf(Current(a)')[k]}
    <3>1. CASE a = b
      BY <1>3, <1>4, <1>5, <2>4, <2>6, <2>7, <2>8, <2>9, <3>1 DEF SlotOK
    <3>2. CASE a # b
      <4>1. Current(a)' = Current(a)
        BY <2>6, <3>2 DEF CurrentKept
      <4> QED BY <1>2, <1>3, <1>4, <1>5, <1>6, <2>9, <3>2, <4>1
    <3> QED BY <3>1, <3>2
  <2>11. SInv'
    <3>1. Top' = 1 /\ Len(roots') = 0 /\ TrieOK'
      BY <1>1, <2>6 DEF SInv, TrieOK
    <3> QED BY <1>3, <1>6, <2>9, <2>10, <3>1, FlatInv
  <2>12. IInv'
    BY <1>7, <2>4, PutInv DEF PutAccount, v, R
  <2>13. StorageKept(Address \ {b})
    <3>1. StorageView /\ StorageView'
      BY <2>11, <2>12, ViewFacts, ViewStays
    <3>2. \A a \in Address \ {b} : RootOf(Current(a)') = RootOf(Current(a))
      BY <2>6 DEF CurrentKept
    <3> QED BY <1>3, <3>1, <3>2, KeptStorage
  <2>14. Len(roots') = 0 /\ Current(b)'.data = Current(b).data /\ Current(b)' # NoAccount
    <3>1. Len(roots') = 0
      BY <1>1, <2>6
    <3>2. Current(b)' = v
      BY <2>6
    <3>3. v.data = Current(b).data /\ v # NoAccount
      BY <2>4
    <3> QED BY <3>1, <3>2, <3>3
  <2> QED BY <1>1, <1>7, <2>6, <2>11, <2>13, <2>14
<1>8. CASE Current(b) = NoAccount /\ GetAccount(b) /\ storageTries' = storageTries
  <2>1. roots' = roots /\ trie' = trie /\ Top' = Top /\ CurrentKept(Address)
    BY <1>8, AccountGet
  <2>2. RootOf(Current(b)) = EmptyTrie /\ ~ IsContract(Current(b))
    BY <1>8 DEF RootOf, IsContract
  <2>3. ASSUME NEW a \in Address
        PROVE  /\ storageTries'[a] \in {NoTrie, RootOf(Current(a)')}
               /\ AccountOK(Current(a)')
               /\ \A k \in Slot :
                      /\ SlotOK(Current(a)', slots'[<<a, k>>])
                      /\ (IF d[<<a, k>>] = NoEntry THEN slots'[<<a, k>>] ELSE d[<<a, k>>])
                             \in {NotCached, RootOf(Current(a)')[k]}
    <3>1. Current(a)' = Current(a)
      BY <2>1 DEF CurrentKept
    <3>2. CASE a = b
      <4>1. \A k \in Slot : slots[<<b, k>>] \in {NotCached, 0} /\ EmptyTrie[k] = 0
        BY <1>5, <2>2 DEF SlotOK, EmptyTrie
      <4> QED BY <1>3, <1>4, <1>5, <1>6, <1>8, <2>2, <3>1, <3>2, <4>1
    <3>3. CASE a # b
      BY <1>2, <1>3, <1>4, <1>5, <1>6, <1>8, <3>1, <3>3
    <3> QED BY <3>2, <3>3
  <2>4. SInv'
    <3>1. /\ Top' = 1 /\ Len(roots') = 0 /\ TrieOK'
          /\ storageTries' \in [Address -> StorageRoot \cup {NoTrie}]
      BY <1>1, <1>6, <1>8, <2>1 DEF SInv, TrieOK
    <3> QED BY <1>3, <1>6, <2>3, <3>1, FlatInv
  <2>5. IInv'
    <3>1. [CacheNext]_cacheVars
      BY <1>8 DEF CacheNext
    <3> QED BY <3>1, StepInv
  <2>6. StorageKept(Address \ {b})
    <3>1. StorageView /\ StorageView'
      BY <2>4, <2>5, ViewFacts, ViewStays
    <3>2. \A a \in Address \ {b} : RootOf(Current(a)') = RootOf(Current(a))
      BY <2>1 DEF CurrentKept
    <3> QED BY <1>3, <3>1, <3>2, KeptStorage
  <2> QED BY <1>1, <1>8, <2>1, <2>4, <2>6 DEF CurrentKept
<1> QED BY <1>7, <1>8 DEF FlushStorage

(* The accounts are flushed when no slot is left to flush: nothing changes *)
(* but the trie.                                                           *)
LEMMA FlushState ==
    ASSUME IInv, SInv, FlushAccounts
    PROVE  /\ SInv' /\ Len(roots) = 0 /\ Len(roots') = 0
           /\ diffCache' = <<NoDiff>> /\ slotDiff' = <<NoSlotDiff>>
           /\ CurrentKept(Address) /\ StorageKept(Address)
<1>1. /\ Len(roots) = 0 /\ roots' = roots /\ cache' = cache /\ diffCache' = <<NoDiff>>
      /\ trie' = Flushed(trie, cache, diffCache[1]) /\ CheckpointCount = 0
      /\ slotDiff = <<NoSlotDiff>> /\ slotDiff' = slotDiff
      /\ slots' = slots /\ storageTries' = storageTries
  BY AccountTypes DEF FlushAccounts, Flush, storageVars
<1>2. CurrentKept(Address)
  <2>1. \A a \in Address : cache[a] = NotCached => trie'[a] = trie[a]
    BY <1>1 DEF Flushed
  <2> QED BY <1>1, <2>1 DEF CurrentKept, Current
<1>3. TrieOK'
  <2>1. \A a \in Address : trie'[a] = trie[a] \/ (cache[a] # NotCached /\ trie'[a] = cache[a])
    BY <1>1 DEF Flushed
  <2>2. \A a \in Address : trie'[a] \in {trie[a], Current(a)}
    BY <2>1 DEF Current
  <2> QED BY <2>2 DEF TrieOK, SInv, ContractsOK
<1>4. SInv'
  <2>1. NoSlotDiff \in SlotDiffMap /\ Top' = 1 /\ Len(roots') = 0
    BY <1>1, NoSlotDiffType DEF Top
  <2>2. /\ slots' \in [AllSlots -> Value \cup {NotCached}]
        /\ storageTries' \in [Address -> StorageRoot \cup {NoTrie}]
    BY <1>1 DEF SInv, SlotTypeOK, TriesOK
  <2>3. /\ slotDiff[1] = NoSlotDiff
        /\ \A a \in Address, k \in Slot : NoSlotDiff[<<a, k>>] = NoEntry
    BY <1>1 DEF NoSlotDiff, AllSlots
  <2>4. \A a \in Address, k \in Slot : PreSlot(0, a, k) = slots[<<a, k>>]
    BY <1>1, <2>3, FlatFacts
  <2>5. \A a \in Address, k \in Slot : PreSlot(0, a, k) \in {NotCached, RootOf(Current(a))[k]}
    <3>1. SlotsCoherent /\ 0 \in 0..Len(roots)
      BY <1>1 DEF SInv
    <3> QED BY <3>1 DEF SlotsCoherent
  <2>6. ASSUME NEW a \in Address
        PROVE  /\ storageTries'[a] \in {NoTrie, RootOf(Current(a)')}
               /\ AccountOK(Current(a)')
               /\ \A k \in Slot :
                      /\ SlotOK(Current(a)', slots'[<<a, k>>])
                      /\ (IF NoSlotDiff[<<a, k>>] = NoEntry THEN slots'[<<a, k>>]
                                                           ELSE NoSlotDiff[<<a, k>>])
                             \in {NotCached, RootOf(Current(a)')[k]}
    <3>1. Current(a)' = Current(a)
      BY <1>2 DEF CurrentKept
    <3>2. /\ storageTries[a] \in {NoTrie, RootOf(Current(a))} /\ AccountOK(Current(a))
          /\ \A k \in Slot : SlotOK(Current(a), slots[<<a, k>>])
      BY DEF SInv, TriesOK, ContractsOK, SlotsOK
    <3> QED BY <1>1, <2>3, <2>4, <2>5, <3>1, <3>2
  <2> QED BY <1>1, <1>3, <2>1, <2>2, <2>6, FlatInv
<1>5. IInv'
  <2>1. CacheNext
    BY DEF FlushAccounts, CacheNext
  <2> QED BY <2>1, StepInv
<1>6. StorageKept(Address)
  <2>1. StorageView /\ StorageView'
    BY <1>4, <1>5, ViewFacts, ViewStays
  <2>2. \A a \in Address : RootOf(Current(a)') = RootOf(Current(a))
    BY <1>2 DEF CurrentKept
  <2> QED BY <1>1, <2>1, <2>2, KeptStorage
<1> QED BY <1>1, <1>2, <1>4, <1>6

(* Another root is set when nothing is left to flush.                      *)
LEMMA RootState ==
    ASSUME IInv, SInv, NEW root \in [Address -> Stored], NEW clearCache \in BOOLEAN,
           StateSetRoot(root, clearCache),
           diffCache = <<NoDiff>>, slotDiff = <<NoSlotDiff>>,
           \A a \in Address : AccountOK(root[a])
    PROVE  /\ SInv' /\ Len(roots) = 0 /\ Len(roots') = 0
           /\ diffCache' = <<NoDiff>> /\ slotDiff' = <<NoSlotDiff>>
           /\ \A a \in Address : Current(a)' = root[a]
<1>1. /\ Len(roots) = 0 /\ roots' = roots /\ diffCache' = <<NoDiff>> /\ trie' = root
      /\ cache' = IF clearCache THEN [a \in Address |-> NotCached] ELSE cache
      /\ clearCache \/ root = Flushed(trie, cache, NoDiff)
      /\ CheckpointCount = 0
      /\ slots' = IF clearCache THEN NoSlots ELSE slots
      /\ slotDiff' = <<NoSlotDiff>> /\ storageTries' = NoStorageTries
  BY AccountTypes DEF StateSetRoot, SetStateRoot
<1>2. \A a \in Address, k \in Slot : slots[<<a, k>>] \in {NotCached, RootOf(Current(a))[k]}
  <2>1. SlotsCoherent /\ 0 \in 0..Len(roots)
    BY <1>1 DEF SInv
  <2>2. slotDiff[1] = NoSlotDiff /\ \A a \in Address, k \in Slot : NoSlotDiff[<<a, k>>] = NoEntry
    BY DEF NoSlotDiff, AllSlots
  <2>3. \A a \in Address, k \in Slot : PreSlot(0, a, k) = slots[<<a, k>>]
    BY <1>1, <2>2, FlatFacts
  <2>4. \A a \in Address, k \in Slot : PreSlot(0, a, k) \in {NotCached, RootOf(Current(a))[k]}
    BY <2>1 DEF SlotsCoherent
  <2> QED BY <2>3, <2>4
<1>3. ASSUME NEW a \in Address
      PROVE  /\ Current(a)' = root[a]
             /\ \A k \in Slot : \/ slots'[<<a, k>>] = NotCached
                                \/ /\ slots'[<<a, k>>] = slots[<<a, k>>]
                                   /\ root[a] = Current(a)
  <2>1. CASE clearCache
    BY <1>1, <2>1 DEF Current, NoSlots, AllSlots
  <2>2. CASE ~ clearCache
    <3>1. root[a] = trie[a]
      BY <1>1, <2>2 DEF Flushed, NoDiff
    <3>2. cache[a] \in {NotCached, trie[a]}
      <4>1. Len(diffCache) = 1 /\ diffCache[1] = NoDiff
        OBVIOUS
      <4>2. PreState(cache, diffCache, 0, a) = cache[a]
        BY <4>1, FreshDiff
      <4> QED BY <4>2 DEF IInv, Coherent
    <3> QED BY <1>1, <2>2, <3>1, <3>2 DEF Current
  <2> QED BY <2>1, <2>2
<1>4. SInv'
  <2>1. NoSlotDiff \in SlotDiffMap /\ Top' = 1 /\ Len(roots') = 0
    BY <1>1, NoSlotDiffType DEF Top
  <2>2. /\ slots' \in [AllSlots -> Value \cup {NotCached}]
        /\ storageTries' \in [Address -> StorageRoot \cup {NoTrie}]
    BY <1>1 DEF SInv, SlotTypeOK, NoSlots, NoStorageTries
  <2>3. \A a \in Address, k \in Slot : NoSlotDiff[<<a, k>>] = NoEntry
    BY DEF NoSlotDiff, AllSlots
  <2>4. \A a \in Address : storageTries'[a] = NoTrie
    BY <1>1 DEF NoStorageTries
  <2>5. TrieOK'
    BY <1>1 DEF TrieOK
  <2>6. ASSUME NEW a \in Address
        PROVE  /\ storageTries'[a] \in {NoTrie, RootOf(Current(a)')}
               /\ AccountOK(Current(a)')
               /\ \A k \in Slot :
                      /\ SlotOK(Current(a)', slots'[<<a, k>>])
                      /\ (IF NoSlotDiff[<<a, k>>] = NoEntry THEN slots'[<<a, k>>]
                                                           ELSE NoSlotDiff[<<a, k>>])
                             \in {NotCached, RootOf(Current(a)')[k]}
    <3>1. Current(a)' = root[a]
      BY <1>3
    <3>2. \A k \in Slot : SlotOK(Current(a), slots[<<a, k>>])
      BY DEF SInv, SlotsOK
    <3>3. ASSUME NEW k \in Slot
          PROVE  /\ SlotOK(root[a], slots'[<<a, k>>])
                 /\ slots'[<<a, k>>] \in {NotCached, RootOf(root[a])[k]}
      BY <1>2, <1>3, <3>2 DEF SlotOK
    <3> QED BY <2>3, <2>4, <3>1, <3>3
  <2> QED BY <1>1, <2>1, <2>2, <2>5, <2>6, FlatInv
<1> QED BY <1>1, <1>3, <1>4

(* A state manager starts with empty caches over a state in which only     *)
(* contracts have storage.                                                 *)
LEMMA StateBegins ==
    ASSUME StateInit, \A a \in Address : AccountOK(trie[a])
    PROVE  IInv /\ SInv
<1>1. IInv /\ CacheInit
  BY InitInv DEF StateInit
<1>2. /\ roots = <<>> /\ slots = NoSlots /\ slotDiff = <<NoSlotDiff>>
      /\ storageTries = NoStorageTries /\ \A a \in Address : Current(a) = trie[a]
  BY <1>1 DEF StateInit, CacheInit, Current
<1>3. /\ NoSlotDiff \in SlotDiffMap /\ Len(roots) = 0 /\ Top = 1
      /\ \A a \in Address, k \in Slot : slots[<<a, k>>] = NotCached
      /\ \A a \in Address : storageTries[a] = NoTrie
  BY <1>1, <1>2, NoSlotDiffType, AccountTypes DEF NoSlots, NoStorageTries, AllSlots
<1>4. SlotTypeOK
  <2>1. slotDiff \in Seq(SlotDiffMap) /\ Len(slotDiff) = 1
    <3> HIDE DEF SlotDiffMap
    <3> QED BY <1>2, <1>3
  <2> QED BY <1>2, <1>3, <2>1 DEF SlotTypeOK, NoSlots
<1>5. SlotsCoherent
  <2>1. ASSUME NEW a \in Address, NEW k \in Slot PROVE PreSlot(0, a, k) = NotCached
    <3>1. NoneAbove(slotDiff, 0, <<a, k>>)
      BY <1>2 DEF NoneAbove, NoSlotDiff, AllSlots
    <3> QED BY <1>3, <3>1, PreNone DEF PreSlot
  <2>2. 0..Len(roots) = {0}
    BY <1>3
  <2> QED BY <2>1, <2>2 DEF SlotsCoherent
<1>6. TriesOK /\ SameRoots /\ ContractsOK /\ SlotsOK /\ TrieOK
  BY <1>2, <1>3 DEF TriesOK, SameRoots, ContractsOK, SlotsOK, TrieOK, NoStorageTries, SlotOK
<1> QED BY <1>1, <1>4, <1>5, <1>6 DEF SInv

-----------------------------------------------------------------------------
(* What the invariant says. *)

(* With everything flushed the root commits to what is read.               *)
LEMMA RootWorld == IInv /\ SInv => RootIsWorld
<1> SUFFICES ASSUME IInv, SInv, CheckpointCount = 0, diffCache = <<NoDiff>>,
                    slotDiff = <<NoSlotDiff>>, NEW a \in Address
             PROVE  World[a] = View(trie[a], IF trie[a] = NoAccount THEN EmptyTrie
                                                                  ELSE trie[a].storageRoot)
  BY DEF RootIsWorld
<1>1. Len(roots) = 0 /\ StorageView
  BY AccountTypes, ViewFacts
<1>2. Current(a) = trie[a]
  <2>1. Len(diffCache) = 1 /\ diffCache[1] = NoDiff
    OBVIOUS
  <2>2. PreState(cache, diffCache, 0, a) = cache[a]
    BY <2>1, FreshDiff
  <2> QED BY <2>2 DEF IInv, Coherent, Current
<1>3. \A k \in Slot : slots[<<a, k>>] \in {NotCached, RootOf(Current(a))[k]}
  <2>1. SlotsCoherent /\ 0 \in 0..Len(roots)
    BY <1>1 DEF SInv
  <2>2. slotDiff[1] = NoSlotDiff /\ \A k \in Slot : NoSlotDiff[<<a, k>>] = NoEntry
    BY DEF NoSlotDiff, AllSlots
  <2>3. \A k \in Slot : PreSlot(0, a, k) = slots[<<a, k>>]
    BY <1>1, <2>2, FlatFacts
  <2> QED BY <2>1, <2>3 DEF SlotsCoherent
<1>4. \A k \in Slot : StorageOf(a, k) = RootOf(trie[a])[k]
  BY <1>1, <1>2, <1>3 DEF StorageView, ValueOf
<1>5. RootOf(trie[a]) \in [Slot -> Value]
  BY <1>2, StorageFacts DEF StorageRoot
<1>6. [k \in Slot |-> StorageOf(a, k)] = RootOf(trie[a])
  <2> DEFINE f == [k \in Slot |-> StorageOf(a, k)]
             g == RootOf(trie[a])
  <2>1. DOMAIN g = Slot /\ g = [k \in Slot |-> g[k]]
    BY <1>5
  <2>2. \A k \in Slot : f[k] = g[k]
    BY <1>4
  <2> QED BY <2>1, <2>2
<1> QED BY <1>2, <1>6 DEF World, View, RootOf

(* An account that is no contract has no storage in the trie.              *)
LEMMA TrieGone ==
    ASSUME SInv, NEW a \in Address, trie[a] # NoAccount, trie[a].data # "contract"
    PROVE  trie[a].storageRoot = EmptyTrie
BY DEF SInv, TrieOK, AccountOK, RootOf, IsContract

-----------------------------------------------------------------------------
(* Types, which need no more than that of the operations. *)

TypedState == SlotTypeOK /\ storageTries \in [Address -> StorageRoot \cup {NoTrie}]

(* A slot has a value, and the trie of an account that exists is one.      *)
LEMMA TypedFacts ==
    ASSUME IInv, TypedState
    PROVE  /\ StateTypeOK
           /\ \A a \in Address : Current(a) # NoAccount => StorageTrie(a) \in StorageRoot
           /\ \A a \in Address, k \in Slot : StorageOf(a, k) \in Value
           /\ \A a \in Address, k \in Slot : slots[<<a, k>>] \in Value \cup {NotCached}
<1>1. ASSUME NEW a \in Address, Current(a) # NoAccount
      PROVE  StorageTrie(a) \in StorageRoot
  <2>1. Current(a) \in Account
    BY <1>1, AccountTypes DEF Stored
  <2>2. Current(a).storageRoot \in StorageRoot
    BY <2>1, StateAssumption
  <2> QED BY <2>2 DEF StorageTrie, TypedState
<1>2. \A a \in Address, k \in Slot : slots[<<a, k>>] \in Value \cup {NotCached}
  BY DEF TypedState, SlotTypeOK, AllSlots
<1>3. ASSUME NEW a \in Address, NEW k \in Slot
      PROVE  StorageOf(a, k) \in Value
  <2>1. Current(a) # NoAccount => StorageTrie(a)[k] \in Value
    BY <1>1 DEF StorageRoot
  <2> QED BY <1>2, <2>1, StateAssumption DEF StorageOf
<1>4. StateTypeOK
  BY DEF TypedState, SlotTypeOK, SlotDiffMap, StateTypeOK, IInv, Top
<1> QED BY <1>1, <1>2, <1>3, <1>4

(* An operation on one account and its slots keeps the types.              *)
LEMMA TypedWrite ==
    ASSUME IInv, TypedState, NEW b \in Address, roots' = roots, Top' = Top,
           storageTries' \in [Address -> StorageRoot \cup {NoTrie}],
           \/ UNCHANGED <<slots, slotDiff>>
           \/ SlotDrop(b)
           \/ \E k \in Slot, v \in Value : SlotPut(b, k, v)
    PROVE  TypedState'
<1>1. CASE UNCHANGED <<slots, slotDiff>>
  BY <1>1 DEF TypedState, SlotTypeOK
<1>2. CASE SlotDrop(b)
  BY <1>2, SlotDropKeeps DEF TypedState
<1>3. ASSUME NEW k \in Slot, NEW v \in Value, SlotPut(b, k, v) PROVE TypedState'
  BY <1>3, SlotPutKeeps DEF TypedState
<1> QED BY <1>1, <1>2, <1>3

(* The operations on accounts and slots.                                   *)
LEMMA TypedAccess ==
    ASSUME IInv, TypedState, NEW b \in Address
    PROVE  /\ \A v : StatePut(b, v) => TypedState' /\ roots' = roots
           /\ GetAccount(b) /\ UNCHANGED storageVars => TypedState' /\ roots' = roots
           /\ StateDelete(b) => TypedState' /\ roots' = roots
           /\ StateCreate(b) => TypedState' /\ roots' = roots
           /\ \A k \in Slot : GetStorage(b, k) => TypedState' /\ roots' = roots
           /\ \A k \in Slot, v \in Value : PutStorage(b, k, v) => TypedState' /\ roots' = roots
<1>1. storageTries \in [Address -> StorageRoot \cup {NoTrie}]
  BY DEF TypedState
<1>2. ASSUME NEW v, StatePut(b, v) PROVE TypedState' /\ roots' = roots
  <2>1. CachePut(b, v) /\ v \in Stored /\ UNCHANGED storageVars
    BY <1>2 DEF StatePut, PutAccount, Stored
  <2>2. roots' = roots /\ Top' = Top
    BY <2>1, AccountPut
  <2> QED BY <1>1, <2>1, <2>2, TypedWrite DEF storageVars
<1>3. ASSUME GetAccount(b), UNCHANGED storageVars PROVE TypedState' /\ roots' = roots
  <2>1. roots' = roots /\ Top' = Top
    BY <1>3, AccountGet
  <2> QED BY <1>1, <1>3, <2>1, TypedWrite DEF storageVars
<1>4. ASSUME StateDelete(b) PROVE TypedState' /\ roots' = roots
  <2>1. CachePut(b, NoAccount) /\ NoAccount \in Stored /\ SlotDrop(b) /\ storageTries' = storageTries
    BY <1>4 DEF StateDelete, DeleteAccount, Stored, SlotDrop
  <2>2. roots' = roots /\ Top' = Top
    BY <2>1, AccountPut
  <2> QED BY <1>1, <2>1, <2>2, TypedWrite
<1>5. ASSUME StateCreate(b) PROVE TypedState' /\ roots' = roots
  <2> DEFINE v == [data |-> "contract", storageRoot |-> EmptyTrie]
  <2>1. /\ CachePut(b, v) /\ SlotDrop(b)
        /\ storageTries' = [storageTries EXCEPT ![b] = EmptyTrie]
    BY <1>5 DEF StateCreate, SlotDrop
  <2>2. EmptyTrie \in StorageRoot /\ v \in Stored
    BY StateAssumption DEF EmptyTrie, StorageRoot, Stored
  <2> HIDE DEF v
  <2>3. roots' = roots /\ Top' = Top
    BY <2>1, <2>2, AccountPut
  <2> QED BY <1>1, <2>1, <2>2, <2>3, TypedWrite
<1>6. ASSUME NEW k \in Slot, GetStorage(b, k) \/ \E v \in Value : PutStorage(b, k, v)
      PROVE  TypedState' /\ roots' = roots
  <2>1. /\ Current(b) # NoAccount /\ GetAccount(b) /\ storageTries' = Looked(b, k)
        /\ \/ UNCHANGED <<slots, slotDiff>>
           \/ SlotPut(b, k, StorageTrie(b)[k])
           \/ \E v \in Value : SlotPut(b, k, v)
    BY <1>6 DEF GetStorage, PutStorage
  <2>2. roots' = roots /\ Top' = Top
    BY <2>1, AccountGet
  <2>3. StorageTrie(b) \in StorageRoot /\ StorageTrie(b)[k] \in Value
    BY <2>1, TypedFacts DEF StorageRoot
  <2>4. storageTries' \in [Address -> StorageRoot \cup {NoTrie}]
    BY <1>1, <2>1, <2>3 DEF Looked
  <2>5. UNCHANGED <<slots, slotDiff>> \/ \E v \in Value : SlotPut(b, k, v)
    BY <2>1, <2>3
  <2> QED BY <2>2, <2>4, <2>5, TypedWrite
<1> QED BY <1>2, <1>3, <1>4, <1>5, <1>6

(* The checkpoints.                                                        *)
LEMMA TypedCheckpoints ==
    ASSUME IInv, TypedState
    PROVE  /\ StateCheckpoint => TypedState' /\ Len(roots') = Len(roots) + 1
           /\ StateCommit \/ StateRevert =>
                  TypedState' /\ Len(roots) > 0 /\ Len(roots') = Len(roots) - 1
<1>1. ASSUME StateCheckpoint PROVE TypedState' /\ Len(roots') = Len(roots) + 1
  <2>1. Checkpoint /\ SlotCheckpoint /\ storageTries' = storageTries
    BY <1>1 DEF StateCheckpoint, SlotCheckpoint
  <2>2. Len(roots') = Len(roots) + 1 /\ Top' = Top + 1
    BY <2>1, AccountCheckpoint
  <2> QED BY <2>1, <2>2, SlotCheckpointKeeps DEF TypedState
<1>2. ASSUME StateCommit PROVE TypedState' /\ Len(roots) > 0 /\ Len(roots') = Len(roots) - 1
  <2>1. Commit /\ SlotCommit /\ storageTries' = storageTries
    BY <1>2 DEF StateCommit, SlotCommit
  <2>2. Len(roots) > 0 /\ Len(roots') = Len(roots) - 1 /\ Top' = Top - 1
    BY <2>1, AccountCommit
  <2> QED BY <2>1, <2>2, SlotCommitKeeps DEF TypedState
<1>3. ASSUME StateRevert PROVE TypedState' /\ Len(roots) > 0 /\ Len(roots') = Len(roots) - 1
  <2>1. Revert /\ SlotRevert /\ storageTries' = NoStorageTries
    BY <1>3 DEF StateRevert, SlotRevert
  <2>2. Len(roots) > 0 /\ Len(roots') = Len(roots) - 1 /\ Top' = Top - 1
    BY <2>1, AccountRevert
  <2> QED BY <2>1, <2>2, SlotRevertKeeps DEF TypedState, NoStorageTries
<1> QED BY <1>1, <1>2, <1>3

(* A flush and another root, with no checkpoint open.                      *)
LEMMA TypedRoots ==
    ASSUME IInv, TypedState
    PROVE  /\ \A b \in Address : FlushStorage(b) => TypedState' /\ Len(roots') = 0
           /\ FlushAccounts => TypedState' /\ Len(roots') = 0
           /\ \A root, clearCache :
                  StateSetRoot(root, clearCache) => TypedState' /\ Len(roots') = 0
<1>1. CheckpointCount = Len(roots) /\ Top = Len(roots) + 1
  BY AccountTypes
<1>2. ASSUME Len(roots') = 0, Top' = 1, NEW d \in SlotDiffMap, slotDiff' = <<d>>,
             slots' \in {slots, NoSlots}
      PROVE  SlotTypeOK'
  <2>1. slotDiff' \in Seq(SlotDiffMap) /\ Len(slotDiff') = 1
    <3> HIDE DEF SlotDiffMap
    <3> QED BY <1>2
  <2>2. slots' \in [AllSlots -> Value \cup {NotCached}]
    BY <1>2 DEF TypedState, SlotTypeOK, NoSlots
  <2> QED BY <1>2, <2>1, <2>2 DEF SlotTypeOK
<1>3. ASSUME NEW b \in Address, FlushStorage(b) PROVE TypedState' /\ Len(roots') = 0
  <2> DEFINE d == [ak \in AllSlots |-> IF ak[1] = b THEN NoEntry ELSE slotDiff[1][ak]]
  <2>1. Len(roots) = 0 /\ Top = 1 /\ slots' = slots /\ slotDiff' = [slotDiff EXCEPT ![1] = d]
    BY <1>1, <1>3 DEF FlushStorage
  <2>2. slotDiff \in Seq(SlotDiffMap) /\ Len(slotDiff) = 1
    BY <2>1 DEF TypedState, SlotTypeOK
  <2>3. slotDiff[1] \in SlotDiffMap
    <3> HIDE DEF SlotDiffMap
    <3> QED BY <2>2
  <2>4. d \in SlotDiffMap
    BY <2>3 DEF SlotDiffMap
  <2> HIDE DEF d
  <2>5. slotDiff' = <<d>>
    <3> HIDE DEF SlotDiffMap
    <3> QED BY <2>1, <2>2
  <2>6. CASE Current(b) # NoAccount
    <3> DEFINE v == [Current(b) EXCEPT !.storageRoot = Written(b)]
    <3>1. /\ CachePut(b, v) /\ v \in Stored
          /\ storageTries' = [storageTries EXCEPT ![b] = Written(b)]
      BY <1>3, <2>6 DEF FlushStorage, PutAccount, Stored
    <3> HIDE DEF v
    <3>2. roots' = roots /\ Top' = Top
      BY <3>1, AccountPut
    <3>3. \A k \in Slot : StorageTrie(b)[k] \in Value /\ slots[<<b, k>>] \in Value \cup {NotCached}
      BY <2>6, TypedFacts DEF StorageRoot
    <3>4. Written(b) \in StorageRoot
      <4>1. \A k \in Slot : Written(b)[k] \in Value
        BY <3>3, StateAssumption DEF Written
      <4> QED BY <4>1 DEF Written, StorageRoot
    <3>5. storageTries' \in [Address -> StorageRoot \cup {NoTrie}]
      BY <3>1, <3>4 DEF TypedState
    <3> QED BY <1>2, <2>1, <2>4, <2>5, <3>2, <3>5 DEF TypedState
  <2>7. CASE Current(b) = NoAccount
    <3>1. GetAccount(b) /\ storageTries' = storageTries
      BY <1>3, <2>7 DEF FlushStorage
    <3>2. roots' = roots /\ Top' = Top
      BY <3>1, AccountGet
    <3> QED BY <1>2, <2>1, <2>4, <2>5, <3>1, <3>2 DEF TypedState
  <2> QED BY <2>6, <2>7
<1>4. ASSUME FlushAccounts \/ \E root, clearCache : StateSetRoot(root, clearCache)
      PROVE  TypedState' /\ Len(roots') = 0
  <2>1. /\ Len(roots') = 0 /\ diffCache' = <<NoDiff>> /\ slotDiff' = <<NoSlotDiff>>
        /\ slots' \in {slots, NoSlots} /\ storageTries' \in {storageTries, NoStorageTries}
    BY <1>1, <1>4 DEF FlushAccounts, Flush, StateSetRoot, SetStateRoot, storageVars
  <2>2. Top' = 1
    BY <2>1 DEF Top
  <2>3. SlotTypeOK'
    BY <1>2, <2>1, <2>2, NoSlotDiffType
  <2> QED BY <2>1, <2>3 DEF TypedState, NoStorageTries
<1> QED BY <1>3, <1>4

=============================================================================
