--------------------------- MODULE EVMWorldProofs ---------------------------
(***************************************************************************)
(* The EVM drives the accounts together with their storage as a stack of   *)
(* checkpoints, flushes what it changed, and keeps the original values of  *)
(* slots.                                                                  *)
(***************************************************************************)
EXTENDS EVMStateProofs

-----------------------------------------------------------------------------
(* The world as a stack of levels: those of the open checkpoints, and on   *)
(* top what getAccount and getStorage return.                              *)

Levels == Len(roots) + 1

At(i, a) == IF i = Levels THEN Current(a) ELSE SavedAccount(i, a)

SlotAt(i, a, k) == IF i = Levels THEN StorageOf(a, k) ELSE SavedSlot(i, a, k)

(* Level i becomes what level j was, for the addresses of S.               *)
Becomes(i, j, S) ==
    \A a \in S : /\ At(i, a)' = At(j, a)
                 /\ \A k \in Slot : SlotAt(i, a, k)' = SlotAt(j, a, k)

Opens ==
    /\ Levels' = Levels + 1
    /\ \A i \in 1..Levels : Becomes(i, i, Address)
    /\ \A i : i = Levels + 1 => Becomes(i, Levels, Address)

Commits ==
    /\ Levels > 1 /\ Levels' = Levels - 1
    /\ \A i \in 1..(Levels - 2) : Becomes(i, i, Address)
    /\ \A i : i = Levels - 1 => Becomes(i, Levels, Address)

Reverts ==
    /\ Levels > 1 /\ Levels' = Levels - 1
    /\ \A i \in 1..(Levels - 1) : Becomes(i, i, Address)

(* What is saved stays, and so do the addresses of S.                      *)
Writes(S) ==
    /\ Levels' = Levels
    /\ \A i \in 1..(Levels - 1) : Becomes(i, i, Address)
    /\ \A i : i = Levels => Becomes(i, i, S)

(* Opening and closing checkpoints, as steps of the levels.                *)
LEMMA OpenLevels ==
    ASSUME IInv, SInv, StateCheckpoint, Len(roots) = 0 => slotDiff = <<NoSlotDiff>>
    PROVE  SInv' /\ Opens
<1>1. /\ SInv' /\ Len(roots') = Len(roots) + 1 /\ CurrentKept(Address)
      /\ SavedKept(Len(roots)) /\ SlotsKept(Len(roots)) /\ StorageKept(Address)
      /\ \A n, a : n = Len(roots) + 1 /\ a \in Address =>
             /\ SavedAccount(n, a)' = Current(a)
             /\ \A k \in Slot : SavedSlot(n, a, k)' = StorageOf(a, k)
      /\ Len(roots) \in Nat
  BY OpenState, AccountTypes
<1>2. ASSUME NEW CONSTANT i, i \in 1..Levels PROVE Becomes(i, i, Address)
  <2>1. i # Levels'
    BY <1>1, <1>2 DEF Levels
  <2>2. CASE i = Levels
    BY <1>1, <2>1, <2>2 DEF Becomes, At, SlotAt, Levels
  <2>3. CASE i # Levels
    <3>1. i \in 1..Len(roots)
      BY <1>1, <1>2, <2>3 DEF Levels
    <3> QED BY <1>1, <2>1, <2>3, <3>1 DEF Becomes, At, SlotAt, SavedKept, SlotsKept
  <2> QED BY <2>2, <2>3
<1>3. ASSUME NEW CONSTANT i, i = Levels + 1 PROVE Becomes(i, Levels, Address)
  <2>1. i = Levels'
    BY <1>1, <1>3 DEF Levels
  <2> QED BY <1>1, <2>1 DEF Becomes, At, SlotAt, CurrentKept, StorageKept
<1> QED BY <1>1, <1>2, <1>3 DEF Opens, Levels

(* A commit forgets the youngest checkpoint: lower ones and the current    *)
(* contents stay.                                                          *)
LEMMA CommitLevels ==
    ASSUME IInv, SInv, StateCommit
    PROVE  SInv' /\ Commits
<1>1. /\ SInv' /\ Len(roots) > 0 /\ Len(roots') = Len(roots) - 1
      /\ CurrentKept(Address) /\ StorageKept(Address)
      /\ SavedKept(Len(roots) - 1) /\ SlotsKept(Len(roots) - 1) /\ Len(roots) \in Nat
  BY CommitState, AccountTypes
<1>2. ASSUME NEW CONSTANT i, i \in 1..(Levels - 2) PROVE Becomes(i, i, Address)
  <2>1. i # Levels' /\ i # Levels /\ i \in 1..(Len(roots) - 1)
    BY <1>1, <1>2 DEF Levels
  <2> QED BY <1>1, <2>1 DEF Becomes, At, SlotAt, SavedKept, SlotsKept
<1>3. ASSUME NEW CONSTANT i, i = Levels - 1 PROVE Becomes(i, Levels, Address)
  <2>1. i = Levels'
    BY <1>1, <1>3 DEF Levels
  <2> QED BY <1>1, <2>1 DEF Becomes, At, SlotAt, CurrentKept, StorageKept
<1> QED BY <1>1, <1>2, <1>3 DEF Commits, Levels

(* A revert makes the contents of the youngest checkpoint the current ones. *)
LEMMA RevertLevels ==
    ASSUME IInv, SInv, StateRevert
    PROVE  SInv' /\ Reverts
<1>1. /\ SInv' /\ Len(roots) > 0 /\ Len(roots') = Len(roots) - 1
      /\ \A a \in Address :
             /\ Current(a)' = SavedAccount(Len(roots), a)
             /\ \A k \in Slot : StorageOf(a, k)' = SavedSlot(Len(roots), a, k)
      /\ SavedKept(Len(roots) - 1) /\ SlotsKept(Len(roots) - 1) /\ Len(roots) \in Nat
  BY RevertState, AccountTypes
<1>2. ASSUME NEW CONSTANT i, i \in 1..(Levels - 1) PROVE Becomes(i, i, Address)
  <2>1. i # Levels
    BY <1>1, <1>2 DEF Levels
  <2>2. CASE i = Len(roots)
    <3>1. i = Levels'
      BY <1>1, <2>2 DEF Levels
    <3> QED BY <1>1, <2>1, <2>2, <3>1 DEF Becomes, At, SlotAt
  <2>3. CASE i # Len(roots)
    <3>1. i # Levels' /\ i \in 1..(Len(roots) - 1)
      BY <1>1, <1>2, <2>3 DEF Levels
    <3> QED BY <1>1, <2>1, <3>1 DEF Becomes, At, SlotAt, SavedKept, SlotsKept
  <2> QED BY <2>2, <2>3
<1> QED BY <1>1, <1>2 DEF Reverts, Levels

(* Everything else leaves what is saved, and changes one address at most.  *)
LEMMA WriteLevels ==
    ASSUME Len(roots) \in Nat, roots' = roots, NEW S \in SUBSET Address,
           SavedKept(Len(roots)), SlotsKept(Len(roots)), CurrentKept(S), StorageKept(S)
    PROVE  Writes(S)
<1>1. Levels' = Levels
  BY DEF Levels
<1>2. ASSUME NEW CONSTANT i, i \in 1..(Levels - 1) PROVE Becomes(i, i, Address)
  <2>1. i # Levels /\ i # Levels' /\ i \in 1..Len(roots)
    BY <1>1, <1>2 DEF Levels
  <2> QED BY <2>1 DEF Becomes, At, SlotAt, SavedKept, SlotsKept
<1>3. ASSUME NEW CONSTANT i, i = Levels PROVE Becomes(i, i, S)
  BY <1>1, <1>3 DEF Becomes, At, SlotAt, CurrentKept, StorageKept
<1> QED BY <1>1, <1>2, <1>3 DEF Writes

(* And nothing changes where the state does not.                           *)
LEMMA SameLevels ==
    ASSUME Len(roots) \in Nat, SInv, UNCHANGED stateVars
    PROVE  SInv' /\ Writes(Address) /\ UNCHANGED Worlds!vars
<1>1. UNCHANGED <<cache, diffCache, trie, roots, slots, slotDiff, storageTries>>
  BY DEF stateVars, cacheVars, storageVars
<1>2. /\ \A a : Current(a)' = Current(a) /\ StorageTrie(a)' = StorageTrie(a)
      /\ \A a, k : StorageOf(a, k)' = StorageOf(a, k)
      /\ \A i, a : SavedAccount(i, a)' = SavedAccount(i, a)
      /\ \A i, a, k : PreSlot(i, a, k)' = PreSlot(i, a, k)
      /\ \A i, a, k : SavedSlot(i, a, k)' = SavedSlot(i, a, k)
  BY <1>1 DEF Current, StorageTrie, StorageOf, SavedAccount, PreSlot, SavedSlot
<1>3. SInv'
  BY <1>1, <1>2 DEF SInv, SlotTypeOK, TriesOK, SameRoots, ContractsOK, SlotsOK, SlotsCoherent,
                    TrieOK, Top
<1>4. Writes(Address)
  <2>1. Address \in SUBSET Address
    OBVIOUS
  <2>2. /\ SavedKept(Len(roots)) /\ SlotsKept(Len(roots))
        /\ CurrentKept(Address) /\ StorageKept(Address)
    BY <1>2 DEF SavedKept, SlotsKept, CurrentKept, StorageKept
  <2> QED BY <1>1, <2>1, <2>2, WriteLevels
<1>5. UNCHANGED Worlds!vars
  BY <1>1, <1>2 DEF Worlds!vars, World, SavedWorld
<1> QED BY <1>3, <1>4, <1>5

-----------------------------------------------------------------------------
(* What the steps of the levels are to the stack of checkpoints. *)

ViewAt(i) == [a \in Address |-> View(At(i, a), [k \in Slot |-> SlotAt(i, a, k)])]

(* The maps of the refinement are the levels.                              *)
LevelsShow ==
    /\ \A i : i = Levels => World = ViewAt(i)
    /\ DOMAIN SavedWorld = 1..(Levels - 1) /\ Len(SavedWorld) = Levels - 1
    /\ SavedWorld = [i \in 1..(Levels - 1) |-> SavedWorld[i]]
    /\ \A i \in 1..(Levels - 1) : SavedWorld[i] = ViewAt(i)
    /\ World \in [Address -> [data : {"none", "empty", "funded", "contract"},
                              storage : StorageRoot]]

(* What a level shows of an account and of its slots are values of their   *)
(* types                                                                   *)
LEMMA LevelsView == IInv /\ TypedState => LevelsShow
<1> SUFFICES ASSUME IInv, TypedState PROVE LevelsShow
  OBVIOUS
<1>1. Len(roots) \in Nat /\ Levels - 1 = Len(roots) /\ 1..(Levels - 1) = 1..Len(roots)
  BY AccountTypes DEF Levels
<1>2. World = ViewAt(Levels)
  BY DEF World, ViewAt, At, SlotAt
<1>3. /\ DOMAIN SavedWorld = 1..(Levels - 1) /\ Len(SavedWorld) = Levels - 1
      /\ SavedWorld = [i \in 1..(Levels - 1) |-> SavedWorld[i]]
  <2> DEFINE F(i) == [a \in Address |->
                         View(SavedAccount(i, a), [k \in Slot |-> SavedSlot(i, a, k)])]
  <2>1. SavedWorld = [i \in 1..Len(roots) |-> F(i)]
    BY DEF SavedWorld
  <2> HIDE DEF F
  <2>2. Len([i \in 1..Len(roots) |-> F(i)]) = Len(roots)
    BY <1>1
  <2> QED BY <1>1, <2>1, <2>2
<1>4. ASSUME NEW i \in 1..(Levels - 1) PROVE SavedWorld[i] = ViewAt(i)
  <2>1. i # Levels
    BY <1>1
  <2> QED BY <1>1, <2>1 DEF SavedWorld, ViewAt, At, SlotAt
<1>5. ASSUME NEW a \in Address
      PROVE  World[a] \in [data : {"none", "empty", "funded", "contract"}, storage : StorageRoot]
  <2>1. [k \in Slot |-> StorageOf(a, k)] \in StorageRoot
    BY TypedFacts DEF StorageRoot
  <2>2. Current(a) # NoAccount => Current(a).data \in {"empty", "funded", "contract"}
    BY AccountTypes, StateAssumption DEF Stored
  <2> QED BY <2>1, <2>2 DEF World, View
<1> QED BY <1>2, <1>3, <1>4, <1>5 DEF LevelsShow, World

(* The same after a step. *)
LEMMA LevelsStayView == IInv' /\ TypedState' => LevelsShow'
BY LevelsView, PTL

(* A level that becomes another shows the same.                            *)
LEMMA BecomesView ==
    ASSUME NEW CONSTANT i, NEW j, Becomes(i, j, Address)
    PROVE  ViewAt(i)' = ViewAt(j)
BY DEF ViewAt, Becomes

(* A sequence without its last element.                                    *)
LEMMA Shortened ==
    ASSUME NEW s, NEW r, NEW n \in Nat, n > 0,
           DOMAIN s = 1..n, Len(s) = n, s = [i \in 1..n |-> s[i]],
           DOMAIN r = 1..(n - 1), r = [i \in 1..(n - 1) |-> r[i]],
           \A i \in 1..(n - 1) : r[i] = s[i]
    PROVE  s # <<>> /\ r = SubSeq(s, 1, Len(s) - 1)
<1>1. s # <<>>
  OBVIOUS
<1>2. SubSeq(s, 1, n - 1) = [i \in 1..(n - 1) |-> s[i]]
  OBVIOUS
<1> QED BY <1>1, <1>2

(* Each step of the levels is one of the stack.                            *)
LEMMA LevelMoves ==
    ASSUME IInv, TypedState, IInv', TypedState'
    PROVE  /\ Opens => Worlds!Checkpoint
           /\ Commits => Worlds!Commit
           /\ Reverts => Worlds!Revert
           /\ \A b \in Address : Writes(Address \ {b}) => Worlds!Write
           /\ Writes(Address) => UNCHANGED Worlds!vars
           /\ Levels = 1 /\ Levels' = 1 => Worlds!Load
<1>1. LevelsShow /\ Levels - 1 \in Nat /\ Levels \in Nat
  BY LevelsView, AccountTypes DEF Levels
<1>2. /\ \A i : i = Levels' => World' = ViewAt(i)'
      /\ DOMAIN SavedWorld' = 1..(Levels' - 1) /\ Len(SavedWorld') = Levels' - 1
      /\ SavedWorld' = [i \in 1..(Levels' - 1) |-> SavedWorld'[i]]
      /\ \A i \in 1..(Levels' - 1) : SavedWorld'[i] = ViewAt(i)'
      /\ World' \in [Address -> [data : {"none", "empty", "funded", "contract"},
                                 storage : StorageRoot]]
  BY LevelsStayView DEF LevelsShow
<1>3. World = ViewAt(Levels) /\ \A i \in 1..(Levels - 1) : SavedWorld[i] = ViewAt(i)
  BY <1>1 DEF LevelsShow
<1> HIDE DEF Levels
<1>4. ASSUME Opens PROVE Worlds!Checkpoint
  <2>1. World' = World
    <3>1. ASSUME NEW CONSTANT i, i = Levels + 1 PROVE ViewAt(i)' = ViewAt(Levels)
      BY <1>4, <3>1, BecomesView DEF Opens
    <3>2. Levels' = Levels + 1
      BY <1>4 DEF Opens
    <3> QED BY <1>2, <1>3, <3>1, <3>2
  <2>2. \A i \in 1..Levels : ViewAt(i)' = ViewAt(i)
    BY <1>4, BecomesView DEF Opens
  <2>3. SavedWorld' = Append(SavedWorld, World)
    <3>1. Levels' - 1 = Levels
      BY <1>1, <1>4 DEF Opens
    <3>2. /\ DOMAIN Append(SavedWorld, World) = 1..Levels
          /\ Append(SavedWorld, World) = [i \in 1..Levels |-> IF i = Levels THEN World
                                                                           ELSE SavedWorld[i]]
      BY <1>1 DEF LevelsShow
    <3>3. ASSUME NEW i \in 1..Levels
          PROVE  SavedWorld'[i] = IF i = Levels THEN World ELSE SavedWorld[i]
      <4>1. SavedWorld'[i] = ViewAt(i)
        BY <1>2, <2>2, <3>1
      <4> QED BY <1>1, <1>3, <4>1
    <3>4. SavedWorld' = [i \in 1..Levels |-> SavedWorld'[i]]
      BY <1>2, <3>1
    <3> QED BY <3>2, <3>3, <3>4
  <2> QED BY <2>1, <2>3 DEF Worlds!Checkpoint
<1>5. ASSUME Levels > 1, Levels' = Levels - 1, \A i \in 1..(Levels - 2) : ViewAt(i)' = ViewAt(i)
      PROVE  SavedWorld # <<>> /\ SavedWorld' = SubSeq(SavedWorld, 1, Len(SavedWorld) - 1)
  <2> DEFINE n == Levels - 1
  <2>1. n \in Nat /\ n > 0 /\ Levels' - 1 = n - 1 /\ 1..(Levels - 2) = 1..(n - 1)
    BY <1>1, <1>5
  <2>2. DOMAIN SavedWorld = 1..n /\ Len(SavedWorld) = n
        /\ SavedWorld = [i \in 1..n |-> SavedWorld[i]]
    BY <1>1 DEF LevelsShow
  <2>3. DOMAIN SavedWorld' = 1..(n - 1) /\ SavedWorld' = [i \in 1..(n - 1) |-> SavedWorld'[i]]
    BY <1>2, <2>1
  <2>4. ASSUME NEW i \in 1..(n - 1) PROVE SavedWorld'[i] = SavedWorld[i]
    <3>1. i \in 1..(Levels - 1) /\ i \in 1..(Levels - 2) /\ i \in 1..(Levels' - 1)
      BY <1>1, <1>5, <2>1
    <3> QED BY <1>2, <1>3, <1>5, <3>1
  <2> HIDE DEF n
  <2> QED BY <2>1, <2>2, <2>3, <2>4, Shortened
<1>6. ASSUME Commits PROVE Worlds!Commit
  <2>1. Levels > 1 /\ Levels' = Levels - 1 /\ \A i \in 1..(Levels - 2) : ViewAt(i)' = ViewAt(i)
    BY <1>6, BecomesView DEF Commits
  <2>2. World' = World
    <3>1. ASSUME NEW CONSTANT i, i = Levels - 1 PROVE ViewAt(i)' = ViewAt(Levels)
      BY <1>6, <3>1, BecomesView DEF Commits
    <3> QED BY <1>2, <1>3, <2>1, <3>1
  <2> QED BY <1>5, <2>1, <2>2 DEF Worlds!Commit
<1>7. ASSUME Reverts PROVE Worlds!Revert
  <2>1. Levels > 1 /\ Levels' = Levels - 1 /\ \A i \in 1..(Levels - 1) : ViewAt(i)' = ViewAt(i)
    BY <1>7, BecomesView DEF Reverts
  <2>2. Levels - 1 \in 1..(Levels - 1) /\ \A i \in 1..(Levels - 2) : i \in 1..(Levels - 1)
    BY <1>1, <2>1
  <2>3. World' = SavedWorld[Levels - 1]
    <3>1. ASSUME NEW CONSTANT i, i = Levels - 1 PROVE World' = SavedWorld[i]
      BY <1>2, <1>3, <2>1, <2>2, <3>1
    <3> QED BY <3>1
  <2>4. Len(SavedWorld) = Levels - 1
    BY <1>1 DEF LevelsShow
  <2> QED BY <1>5, <2>1, <2>2, <2>3, <2>4 DEF Worlds!Revert
<1>8. ASSUME NEW S \in SUBSET Address, Writes(S)
      PROVE  SavedWorld' = SavedWorld /\ \A a \in S : World'[a] = World[a]
  <2>1. Levels' = Levels /\ \A i \in 1..(Levels - 1) : ViewAt(i)' = ViewAt(i)
    BY <1>8, BecomesView DEF Writes
  <2>2. SavedWorld' = SavedWorld
    <3>1. SavedWorld = [i \in 1..(Levels - 1) |-> SavedWorld[i]]
      BY <1>1 DEF LevelsShow
    <3> QED BY <1>2, <1>3, <2>1, <3>1
  <2>3. ASSUME NEW a \in S PROVE World'[a] = World[a]
    <3>1. ASSUME NEW CONSTANT i, i = Levels PROVE ViewAt(i)'[a] = ViewAt(i)[a]
      <4>1. a \in Address /\ Becomes(i, i, S)
        BY <1>8, <3>1 DEF Writes
      <4> QED BY <4>1 DEF ViewAt, Becomes
    <3> QED BY <1>2, <1>3, <2>1, <3>1
  <2> QED BY <2>2, <2>3
<1>9. ASSUME NEW b \in Address, Writes(Address \ {b}) PROVE Worlds!Write
  <2>1. SavedWorld' = SavedWorld /\ \A a \in Address \ {b} : World'[a] = World[a]
    BY <1>8, <1>9
  <2> QED BY <1>2, <2>1 DEF Worlds!Write
<1>10. ASSUME Writes(Address) PROVE UNCHANGED Worlds!vars
  <2>1. SavedWorld' = SavedWorld /\ \A a \in Address : World'[a] = World[a]
    BY <1>8, <1>10
  <2>2. World' = World
    BY <1>1, <1>2, <2>1 DEF LevelsShow
  <2> QED BY <2>1, <2>2 DEF Worlds!vars
<1>11. ASSUME Levels = 1, Levels' = 1 PROVE Worlds!Load
  <2>1. SavedWorld = <<>> /\ SavedWorld' = <<>>
    <3>1. \A f : f = [i \in 1..0 |-> f[i]] => f = <<>>
      OBVIOUS
    <3>2. SavedWorld = [i \in 1..0 |-> SavedWorld[i]] /\ SavedWorld' = [i \in 1..0 |-> SavedWorld'[i]]
      BY <1>1, <1>2, <1>11 DEF LevelsShow
    <3> QED BY <3>1, <3>2
  <2> QED BY <1>2, <2>1 DEF Worlds!Load
<1> QED BY <1>4, <1>6, <1>7, <1>9, <1>10, <1>11

-----------------------------------------------------------------------------
(* The invariant of the world. *)

(* From the transaction's checkpoint until its messages are done.          *)
InTx == {"message"} \cup InMessage

(* A block starts with everything flushed.                                 *)
FlushedOK == pc \in {"idle", "rooted"} => diffCache = <<NoDiff>> /\ slotDiff = <<NoSlotDiff>>

(* A message deletes no contract that the transaction found.               *)
MonotoneOK ==
    pc \in InTx =>
        \A a \in Address :
            IsContract(At(2, a)) => \A j \in 2..Levels : IsContract(At(j, a))

(* A message that runs code, or has called another, is that of a contract, *)
(* and has been one since it was entered.                                  *)
RunnersOK ==
    \A d \in 1..Len(frames) :
        d < Len(frames) \/ pc \in {"run", "stop"} =>
            \A a \in Address, j \in (d + 3)..Levels :
                a = frames[d].to => IsContract(At(j, a))

(* What a transaction created was no contract when it began, unless the    *)
(* creation has failed; and only that is deleted.                          *)
CreatedOK ==
    \A d \in 1..Len(frames) :
        d < Len(frames) \/ pc # "fail" =>
            \A a \in frames[d].created : ~ IsContract(At(2, a))

TodoOK ==
    /\ pc \notin {"cleanup", "miner", "destroy"} => todo = {}
    /\ pc \in {"miner", "destroy"} => \A a \in todo : ~ IsContract(At(2, a))

(* The originals are those of the transaction; a slot without one has not  *)
(* changed since.                                                          *)
OriginalsOK ==
    /\ Levels <= 2 \/ pc = "commit" => originals = NoSlots
    /\ Levels > 2 =>
           \A a \in Address, k \in Slot : originals[<<a, k>>] \in {NotCached, SlotAt(2, a, k)}
    /\ pc \in InTx =>
           \A a \in Address, k \in Slot :
               originals[<<a, k>>] = NotCached =>
                   \A j \in 2..Levels : SlotAt(j, a, k) = SlotAt(2, a, k)

WInv ==
    /\ TyInv /\ SInv
    /\ FlushedOK /\ MonotoneOK /\ RunnersOK /\ CreatedOK /\ TodoOK /\ OriginalsOK

WorldStep == [Worlds!Next]_(Worlds!vars)

WStep ==
    /\ SInv' /\ WorldStep
    /\ FlushedOK' /\ MonotoneOK' /\ RunnersOK' /\ CreatedOK' /\ TodoOK' /\ OriginalsOK'

(* SELFDESTRUCT deletes what the transaction created alone, and in the     *)
(* genesis state only contracts have storage.                              *)
Settled == EIP6780 /\ \A a \in Address : AccountOK(Genesis[a])

(* How many levels there are.                                              *)
Depths ==
    /\ Levels \in Nat /\ Levels >= 1 /\ Len(frames) \in Nat
    /\ pc \in InMessage <=> Len(frames) > 0
    /\ pc \in {"idle", "rooted", "flush"} => Levels = 1
    /\ pc \in {"block", "rewarded", "tx"} => Levels = 2
    /\ pc = "cleanup" => Levels = IF ret = "commit" THEN 3 ELSE 2
    /\ pc \in {"message", "miner", "destroy", "commit"} => Levels = 3
    /\ pc = "new" => Levels = 2 + Len(frames)
    /\ pc \in InMessage \ {"new"} => Levels = 3 + Len(frames)

(* How many checkpoints of the state are open is known from where the      *)
(* execution is                                                            *)
LEMMA DepthFacts == TyInv => Depths
<1> SUFFICES ASSUME TyInv PROVE Depths
  OBVIOUS
<1>1. CountOK /\ Len(roots) \in Nat /\ Len(frames) \in Nat
      /\ (pc \in InMessage <=> Len(frames) > 0)
  BY TyFacts DEF TyInv
<1>2. Levels \in Nat /\ Levels >= 1 /\ Levels = Len(roots) + 1
  BY <1>1 DEF Levels
<1>7. /\ Len(roots) = 0 => Levels = 1
      /\ Len(roots) = 1 => Levels = 2
      /\ Len(roots) = 2 => Levels = 3
  <2>1. \A n : (n = 0 => n + 1 = 1) /\ (n = 1 => n + 1 = 2) /\ (n = 2 => n + 1 = 3)
    OBVIOUS
  <2> QED BY <2>1, Zenon DEF Levels
<1> HIDE DEF Levels, InMessage
<1>3. pc = "cleanup" => Levels = IF ret = "commit" THEN 3 ELSE 2
  <2>1. pc = "cleanup" => Len(roots) = IF ret = "commit" THEN 2 ELSE 1
    BY <1>1 DEF CountOK
  <2> QED BY <1>7, <2>1
<1>4. pc = "new" => Levels = 2 + Len(frames)
  BY <1>1, <1>2 DEF CountOK
<1>5. pc \in InMessage \ {"new"} => Levels = 3 + Len(frames)
  BY <1>1, <1>2 DEF CountOK
<1>6. /\ pc \in {"idle", "rooted", "flush"} => Levels = 1
      /\ pc \in {"block", "rewarded", "tx"} => Levels = 2
      /\ pc \in {"message", "miner", "destroy", "commit"} => Levels = 3
  <2>1. /\ pc \in {"idle", "rooted", "flush"} => Len(roots) = 0
        /\ pc \in {"block", "rewarded", "tx"} => Len(roots) = 1
        /\ pc \in {"message", "miner", "destroy", "commit"} => Len(roots) = 2
    BY <1>1 DEF CountOK
  <2> QED BY <1>7, <2>1
<1> QED BY <1>1, <1>2, <1>3, <1>4, <1>5, <1>6 DEF Depths

(* The same after a step. *)
LEMMA DepthsStay == TyInv' => Depths'
BY DepthFacts, PTL

(* Within a transaction the checkpoint of the transaction is open.         *)
InTxDeep == pc \in InTx => Levels >= 3

(* Inside a transaction the checkpoints of block and transaction are open. *)
LEMMA InTxDepth == Depths => InTxDeep
<1> SUFFICES ASSUME Depths, pc \in InTx PROVE Levels >= 3
  BY DEF InTxDeep
<1>1. CASE pc = "message"
  BY <1>1 DEF Depths
<1>2. CASE pc = "new"
  BY <1>2 DEF Depths, InMessage
<1>3. CASE pc \in InMessage \ {"new"}
  BY <1>3 DEF Depths
<1> QED BY <1>1, <1>2, <1>3 DEF InTx

(* And in the state a step leads to.                                       *)
LEMMA InTxStays == Depths' => InTxDeep'
BY InTxDepth, PTL

-----------------------------------------------------------------------------
(* The steps of messages, in general. *)

(* Above any level contracts do not go, and slots do not change, but with  *)
(* the levels above it that are given up.                                  *)
ContractsShift ==
    \A m \in 1..Levels : \A j : j \in m..Levels' =>
        \E i \in m..Levels : \A a \in Address : IsContract(At(i, a)) => IsContract(At(j, a)')

SlotsShift ==
    \A m \in 1..Levels : \A j : j \in m..Levels' =>
        \E i \in m..Levels :
            \A a \in Address, k \in Slot : SlotAt(j, a, k)' = SlotAt(i, a, k)

TxKept == Becomes(2, 2, Address)

(* How the levels a slot is compared with move when a checkpoint opens,    *)
(* closes or is restored, and when accounts other than the one in question *)
(* are written.                                                            *)
LEMMA ShiftFacts ==
    ASSUME Levels \in Nat
    PROVE  /\ Opens /\ Levels >= 2 => ContractsShift /\ SlotsShift /\ TxKept
           /\ Commits /\ Levels >= 4 => ContractsShift /\ SlotsShift /\ TxKept
           /\ Reverts /\ Levels >= 3 => ContractsShift /\ SlotsShift /\ TxKept
           /\ \A b \in Address :
                  /\ Levels >= 3 /\ Writes(Address \ {b}) => TxKept
                  /\ Writes(Address \ {b})
                     /\ (IsContract(Current(b)) => IsContract(Current(b)')) => ContractsShift
           /\ Levels >= 3 /\ Writes(Address) => TxKept
           /\ Writes(Address) => ContractsShift /\ SlotsShift
<1>1. ASSUME NEW m \in 1..Levels,
             \A j : j \in m..Levels' => \E i \in m..Levels : Becomes(j, i, Address)
      PROVE  \A j : j \in m..Levels' =>
                 /\ \E i \in m..Levels : \A a \in Address : IsContract(At(i, a)) => IsContract(At(j, a)')
                 /\ \E i \in m..Levels :
                        \A a \in Address, k \in Slot : SlotAt(j, a, k)' = SlotAt(i, a, k)
  <2> HIDE DEF IsContract
  <2> QED BY <1>1 DEF Becomes
<1> DEFINE Shifting == \A m \in 1..Levels : \A j : j \in m..Levels' =>
                           \E i \in m..Levels : Becomes(j, i, Address)
<1>2. Shifting => ContractsShift /\ SlotsShift
  BY <1>1 DEF ContractsShift, SlotsShift
<1> HIDE DEF Levels
<1>3. ASSUME Opens PROVE Shifting
  <2> SUFFICES ASSUME NEW m \in 1..Levels, NEW CONSTANT j, j \in m..Levels'
               PROVE  \E i \in m..Levels : Becomes(j, i, Address)
    OBVIOUS
  <2>1. CASE j = Levels + 1
    BY <1>3, <2>1 DEF Opens
  <2>2. CASE j # Levels + 1
    BY <1>3, <2>2 DEF Opens
  <2> QED BY <2>1, <2>2
<1>4. ASSUME Commits PROVE Shifting
  <2> SUFFICES ASSUME NEW m \in 1..Levels, NEW CONSTANT j, j \in m..Levels'
               PROVE  \E i \in m..Levels : Becomes(j, i, Address)
    OBVIOUS
  <2>1. CASE j = Levels - 1
    BY <1>4, <2>1 DEF Commits
  <2>2. CASE j # Levels - 1
    <3>1. j \in 1..(Levels - 2) /\ j \in m..Levels
      BY <1>4, <2>2 DEF Commits
    <3> QED BY <1>4, <3>1 DEF Commits
  <2> QED BY <2>1, <2>2
<1>5. ASSUME Reverts PROVE Shifting
  BY <1>5 DEF Reverts
<1>6. ASSUME Writes(Address) PROVE Shifting
  <2> SUFFICES ASSUME NEW m \in 1..Levels, NEW CONSTANT j, j \in m..Levels'
               PROVE  \E i \in m..Levels : Becomes(j, i, Address)
    OBVIOUS
  <2>1. CASE j = Levels
    BY <1>6, <2>1 DEF Writes
  <2>2. CASE j # Levels
    BY <1>6, <2>2 DEF Writes
  <2> QED BY <2>1, <2>2
<1>7. /\ Opens /\ Levels >= 2 => TxKept
      /\ Commits /\ Levels >= 4 => TxKept
      /\ Reverts /\ Levels >= 3 => TxKept
      /\ \A S \in SUBSET Address : Levels >= 3 /\ Writes(S) => TxKept
  <2>1. /\ Levels >= 2 => 2 \in 1..Levels
        /\ Levels >= 4 => 2 \in 1..(Levels - 2)
        /\ Levels >= 3 => 2 \in 1..(Levels - 1)
    OBVIOUS
  <2> QED BY <2>1 DEF Opens, Commits, Reverts, Writes, TxKept
<1>8. ASSUME NEW b \in Address, Writes(Address \ {b}),
             IsContract(Current(b)) => IsContract(Current(b)')
      PROVE  ContractsShift
  <2> SUFFICES ASSUME NEW m \in 1..Levels, NEW CONSTANT j, j \in m..Levels'
               PROVE  \E i \in m..Levels :
                          \A a \in Address : IsContract(At(i, a)) => IsContract(At(j, a)')
    BY DEF ContractsShift
  <2>1. j \in m..Levels /\ Levels' = Levels
    BY <1>8 DEF Writes
  <2>2. CASE j = Levels
    <3>1. Becomes(j, j, Address \ {b})
      BY <1>8, <2>2 DEF Writes
    <3>2. At(j, b) = Current(b) /\ At(j, b)' = Current(b)'
      BY <2>1, <2>2 DEF At
    <3> HIDE DEF IsContract
    <3>3. \A a \in Address : IsContract(At(j, a)) => IsContract(At(j, a)')
      BY <1>8, <3>1, <3>2 DEF Becomes
    <3> QED BY <2>1, <3>3
  <2>3. CASE j # Levels
    <3>1. Becomes(j, j, Address)
      BY <1>8, <2>1, <2>3 DEF Writes
    <3> HIDE DEF IsContract
    <3> QED BY <2>1, <3>1 DEF Becomes
  <2> QED BY <2>2, <2>3
<1>9. \A b \in Address : Address \ {b} \in SUBSET Address
  OBVIOUS
<1>10. Address \in SUBSET Address
  OBVIOUS
<1> HIDE DEF Shifting
<1> QED BY <1>2, <1>3, <1>4, <1>5, <1>6, <1>7, <1>8, <1>9, <1>10

(* The frames hold addresses.                                              *)
FramesTyped ==
    \A d \in 1..Len(frames) :
        /\ frames[d].to \in Address
        /\ frames[d].created \subseteq Address /\ frames[d].destructed \subseteq Address

(* The address of a message that runs is an address *)
LEMMA FrameTypes == TyInv => FramesTyped
<1> SUFFICES ASSUME TyInv, NEW d \in 1..Len(frames)
             PROVE  /\ frames[d].to \in Address
                    /\ frames[d].created \subseteq Address /\ frames[d].destructed \subseteq Address
  BY DEF FramesTyped
<1>1. frames \in Seq(Msg)
  BY TyFacts, InvFacts
<1>2. frames[d] \in Msg
  <2> HIDE DEF Msg
  <2> QED BY <1>1, ElementOfSeq
<1> QED BY <1>2 DEF Msg

(* The same after a step. *)
LEMMA FrameTypesStay == TyInv' => FramesTyped'
BY FrameTypes, PTL

(* The frames that run code after a step did so before, at a level there   *)
(* was, or have come to a contract.                                        *)
RunnersCarried ==
    \A d \in 1..Len(frames') :
        d < Len(frames') \/ pc' \in {"run", "stop"} =>
            \/ /\ d \in 1..Len(frames) /\ frames'[d].to = frames[d].to /\ d + 3 <= Levels
               /\ d < Len(frames) \/ pc \in {"run", "stop"}
            \/ \A a \in Address, j \in (d + 3)..Levels' :
                   a = frames'[d].to => IsContract(At(j, a)')

CreatedCarried ==
    \A d \in 1..Len(frames') :
        d < Len(frames') \/ pc' # "fail" =>
            \A a \in frames'[d].created : ~ IsContract(At(2, a))

(* What a step of a message keeps, when it does that much.                 *)
LEMMA MessageKeeps ==
    ASSUME WInv, TyInv', pc \in InTx, pc' \in InTx \cup {"miner"},
           SInv', WorldStep, TxKept, ContractsShift,
           (SlotsShift /\ originals' = originals) \/ OriginalsOK',
           RunnersCarried, CreatedCarried, TodoOK'
    PROVE  WStep
<1>1. /\ Levels \in Nat /\ Levels >= 3 /\ Levels' \in Nat /\ Levels' >= 3
      /\ FramesTyped /\ FramesTyped' /\ Len(frames) \in Nat
  <2>1. Depths /\ Depths'
    BY DepthFacts, DepthsStay DEF WInv
  <2>2. Levels >= 3
    BY <2>1, InTxDepth DEF InTxDeep
  <2>3. Levels' >= 3
    <3>1. CASE pc' = "miner"
      BY <2>1, <3>1 DEF Depths
    <3>2. CASE pc' \in InTx
      BY <2>1, <3>2, InTxStays DEF InTxDeep
    <3> QED BY <3>1, <3>2
  <2> QED BY <2>1, <2>2, <2>3, FrameTypes, FrameTypesStay DEF Depths, WInv
<1>2. \A a \in Address : /\ At(2, a)' = At(2, a)
                         /\ \A k \in Slot : SlotAt(2, a, k)' = SlotAt(2, a, k)
  BY DEF TxKept, Becomes
<1> HIDE DEF Levels, IsContract
<1>3. FlushedOK'
  BY DEF FlushedOK, InTx, InMessage
<1>4. MonotoneOK'
  <2> SUFFICES ASSUME NEW a \in Address, IsContract(At(2, a)'), NEW CONSTANT j, j \in 2..Levels'
               PROVE  IsContract(At(j, a)')
    BY DEF MonotoneOK
  <2>1. 2 \in 1..Levels
    BY <1>1
  <2>2. PICK i \in 2..Levels : \A x \in Address : IsContract(At(i, x)) => IsContract(At(j, x)')
    BY <2>1 DEF ContractsShift
  <2>3. IsContract(At(i, a))
    BY <1>2 DEF WInv, MonotoneOK
  <2> QED BY <2>2, <2>3
<1>5. RunnersOK'
  <2> SUFFICES ASSUME NEW CONSTANT d, d \in 1..Len(frames'),
                      d < Len(frames') \/ pc' \in {"run", "stop"}, NEW x \in Address,
                      NEW CONSTANT j, j \in (d + 3)..Levels', x = frames'[d].to
               PROVE  IsContract(At(j, x)')
    BY DEF RunnersOK
  <2>1. CASE \A a \in Address, i \in (d + 3)..Levels' : a = frames'[d].to => IsContract(At(i, a)')
    BY <2>1
  <2>2. CASE /\ d \in 1..Len(frames) /\ frames'[d].to = frames[d].to /\ d + 3 <= Levels
             /\ d < Len(frames) \/ pc \in {"run", "stop"}
    <3>1. d + 3 \in 1..Levels
      BY <1>1, <2>2
    <3>2. PICK i \in (d + 3)..Levels :
              \A y \in Address : IsContract(At(i, y)) => IsContract(At(j, y)')
      BY <3>1 DEF ContractsShift
    <3>3. IsContract(At(i, x))
      BY <2>2, <3>2 DEF WInv, RunnersOK
    <3> QED BY <3>2, <3>3
  <2> QED BY <2>1, <2>2 DEF RunnersCarried
<1>6. CreatedOK'
  BY <1>1, <1>2 DEF CreatedOK, CreatedCarried, FramesTyped
<1>7. OriginalsOK'
  <2> SUFFICES ASSUME SlotsShift, originals' = originals
               PROVE  OriginalsOK'
    OBVIOUS
  <2>1. Levels' > 2 /\ pc' # "commit"
    BY <1>1 DEF InTx, InMessage
  <2>2. \A a \in Address, k \in Slot : originals[<<a, k>>] \in {NotCached, SlotAt(2, a, k)'}
    <3>1. \A a \in Address, k \in Slot : originals[<<a, k>>] \in {NotCached, SlotAt(2, a, k)}
      <4>1. OriginalsOK /\ Levels > 2
        BY <1>1 DEF WInv
      <4> QED BY <4>1 DEF OriginalsOK
    <3> QED BY <1>2, <3>1
  <2>3. ASSUME NEW a \in Address, NEW k \in Slot, originals[<<a, k>>] = NotCached,
               NEW CONSTANT j, j \in 2..Levels'
        PROVE  SlotAt(j, a, k)' = SlotAt(2, a, k)'
    <3>1. 2 \in 1..Levels
      BY <1>1
    <3>2. PICK i \in 2..Levels : SlotAt(j, a, k)' = SlotAt(i, a, k)
      BY <2>3, <3>1 DEF SlotsShift
    <3>3. SlotAt(i, a, k) = SlotAt(2, a, k)
      BY <2>3 DEF WInv, OriginalsOK
    <3> QED BY <1>2, <3>2, <3>3
  <2> QED BY <1>1, <2>1, <2>2, <2>3 DEF OriginalsOK
<1> QED BY <1>3, <1>4, <1>5, <1>6, <1>7 DEF WStep

-----------------------------------------------------------------------------
(* The operations on the state, under the invariant. *)

(* What the invariant gives of the parts below it.                         *)
LEMMA WFacts ==
    ASSUME WInv
    PROVE  /\ IInv /\ SInv /\ TyInv /\ TypedState /\ Depths /\ FramesTyped
           /\ Len(roots) \in Nat /\ Levels = Len(roots) + 1 /\ Levels \in Nat
           /\ Len(frames) \in Nat /\ pc \in Labels
           /\ touched \subseteq Address /\ todo \subseteq Address
BY TyFacts, DepthFacts, FrameTypes DEF WInv, Levels, Depths

(* A step of the levels is one of the stack of checkpoints.                *)
LEMMA WMoves ==
    ASSUME WInv, TyInv',
           \/ Opens \/ Commits \/ Reverts \/ Writes(Address) \/ (Levels = 1 /\ Levels' = 1)
           \/ \E b \in Address : Writes(Address \ {b})
    PROVE  WorldStep
<1>1. IInv /\ TypedState
  BY WFacts
<1>2. TypedState'
  BY DEF TyInv
<1>3. IInv'
  BY DEF TyInv, KInv, AInv
<1> QED BY <1>1, <1>2, <1>3, LevelMoves DEF WorldStep, Worlds!Next

(* What a payment leaves of an account.                                    *)
LEMMA PaidFacts ==
    ASSUME WInv, NEW b \in Address, NEW value
    PROVE  /\ Paid(b, value) \in Account /\ RootOf(Paid(b, value)) = RootOf(Current(b))
           /\ IsContract(Paid(b, value)) <=> IsContract(Current(b))
           /\ AccountOrNew(b).data = "contract" <=> IsContract(Current(b))
           /\ AccountOrNew(b).storageRoot = RootOf(Current(b))
<1>1. Current(b) \in Account \cup {NoAccount} /\ EmptyTrie \in StorageRoot
  BY WFacts, AccountTypes, StateAssumption DEF Stored, EmptyTrie, StorageRoot
<1>2. /\ Account = [data : {"empty", "funded", "contract"}, storageRoot : StorageRoot]
      /\ NoAccount \notin Account
  BY StateAssumption, CacheAssumption
<1> DEFINE x == AccountOrNew(b)
<1>3. /\ x \in [data : {"empty", "funded", "contract"}, storageRoot : StorageRoot]
      /\ x.data = "contract" <=> IsContract(Current(b))
      /\ x.storageRoot = RootOf(Current(b))
  BY <1>1, <1>2 DEF AccountOrNew, IsContract, RootOf
<1> HIDE DEF x
<1>4. /\ Paid(b, value) \in Account /\ Paid(b, value).storageRoot = x.storageRoot
      /\ Paid(b, value).data = "contract" <=> x.data = "contract"
  <2>1. Paid(b, value) = [x EXCEPT !.data = IF value > 0 /\ x.data = "empty" THEN "funded" ELSE x.data]
    BY DEF Paid, x
  <2> QED BY <1>2, <1>3, <2>1
<1> QED BY <1>2, <1>3, <1>4 DEF x, IsContract, RootOf

(* Slots that are kept at every level.                                     *)
LEMMA SlotsStay ==
    ASSUME WInv, roots' = roots, SlotsKept(Len(roots)), StorageKept(Address)
    PROVE  SlotsShift
<1>1. Len(roots) \in Nat /\ Levels = Len(roots) + 1 /\ Levels' = Levels
  BY WFacts DEF Levels
<1> SUFFICES ASSUME NEW m \in 1..Levels, NEW CONSTANT j, j \in m..Levels'
             PROVE  \E i \in m..Levels :
                        \A a \in Address, k \in Slot : SlotAt(j, a, k)' = SlotAt(i, a, k)
  BY DEF SlotsShift
<1>2. j \in m..Levels /\ (j # Levels => j \in 1..Len(roots))
  BY <1>1
<1>3. \A a \in Address, k \in Slot : SlotAt(j, a, k)' = SlotAt(j, a, k)
  BY <1>1, <1>2 DEF SlotAt, SlotsKept, StorageKept
<1> QED BY <1>2, <1>3

(* A put that keeps the storage root and what is a contract.               *)
LEMMA PutInTx ==
    ASSUME WInv, TyInv', NEW b \in Address, NEW v \in Account, StatePut(b, v),
           RootOf(v) = RootOf(Current(b)), IsContract(Current(b)) => IsContract(v)
    PROVE  /\ SInv' /\ WorldStep /\ ContractsShift /\ SlotsShift /\ (Levels >= 3 => TxKept)
           /\ Levels' = Levels /\ Current(b)' = v /\ Writes(Address \ {b})
<1>1. IInv /\ SInv /\ Len(roots) \in Nat /\ Levels \in Nat
  BY WFacts
<1>2. /\ SInv' /\ roots' = roots /\ Current(b)' = v /\ CurrentKept(Address \ {b})
      /\ SavedKept(Len(roots)) /\ SlotsKept(Len(roots)) /\ StorageKept(Address)
  BY <1>1, PutState
<1>3. Writes(Address \ {b})
  <2>1. StorageKept(Address \ {b}) /\ Address \ {b} \in SUBSET Address
    BY <1>2 DEF StorageKept
  <2> QED BY <1>1, <1>2, <2>1, WriteLevels
<1>4. SlotsShift
  BY <1>2, SlotsStay
<1>5. ContractsShift /\ (Levels >= 3 => TxKept)
  <2> HIDE DEF IsContract
  <2>1. IsContract(Current(b)) => IsContract(Current(b)')
    BY <1>2
  <2> QED BY <1>1, <1>3, <2>1, ShiftFacts
<1>6. WorldStep
  BY <1>3, WMoves
<1> QED BY <1>2, <1>3, <1>4, <1>5, <1>6 DEF Writes

(* A step of a message that leaves the state.                              *)
LEMMA QuietInTx ==
    ASSUME WInv, TyInv', UNCHANGED stateVars
    PROVE  /\ SInv' /\ WorldStep /\ ContractsShift /\ SlotsShift /\ (Levels >= 3 => TxKept)
           /\ Levels' = Levels /\ Writes(Address)
<1>1. SInv /\ Len(roots) \in Nat /\ Levels \in Nat
  BY WFacts
<1>2. SInv' /\ Writes(Address)
  BY <1>1, SameLevels
<1>3. WorldStep
  BY <1>2, WMoves
<1> QED BY <1>1, <1>2, <1>3, ShiftFacts DEF Writes

-----------------------------------------------------------------------------
(* The steps of messages. *)

(* A message that is entered has a level of its own.                       *)
LEMMA EnterWorld ==
    ASSUME WInv, TyInv', Enter
    PROVE  WStep
<1>1. /\ IInv /\ SInv /\ Depths /\ Len(roots) \in Nat /\ Levels = Len(roots) + 1
      /\ Len(frames) \in Nat /\ Len(frames) > 0 /\ Levels = 2 + Len(frames)
  BY WFacts DEF Enter, Depths, InMessage
<1>2. /\ StateCheckpoint /\ pc = "new" /\ pc' = "start"
      /\ originals' = originals /\ frames' = frames /\ todo' = todo
  BY DEF Enter, Goto
<1>3. SInv' /\ Opens
  BY <1>1, <1>2, OpenLevels
<1>4. WorldStep /\ ContractsShift /\ SlotsShift /\ TxKept
  <2> HIDE DEF Levels
  <2> QED BY <1>1, <1>3, ShiftFacts, WMoves
<1>5. RunnersCarried /\ CreatedCarried
  <2> HIDE DEF Levels, IsContract
  <2>1. RunnersCarried
    BY <1>1, <1>2 DEF RunnersCarried
  <2>2. CreatedCarried
    BY <1>2 DEF CreatedCarried, WInv, CreatedOK
  <2> QED BY <2>1, <2>2
<1>6. TodoOK'
  BY <1>2 DEF WInv, TodoOK
<1>7. pc \in InTx /\ pc' \in InTx \cup {"miner"}
  BY <1>2 DEF InTx, InMessage
<1> QED BY <1>2, <1>3, <1>4, <1>5, <1>6, <1>7, MessageKeeps

(* A call runs the code of a contract, if its target is one.               *)
LEMMA CallWorld ==
    ASSUME WInv, TyInv', NEW value, ExecuteCall(value)
    PROVE  WStep
<1>1. /\ Depths /\ FramesTyped /\ Len(frames) \in Nat /\ Len(frames) > 0
      /\ Levels = 3 + Len(frames) /\ Self \in Address /\ Levels \in Nat
  <2>1. Self \in Address
    BY WFacts, TyFacts DEF ExecuteCall, InMessage
  <2> QED BY <2>1, WFacts DEF ExecuteCall, Depths, InMessage
<1> PICK b \in Address : b = Self
  BY <1>1
<1>2. /\ StatePut(b, Paid(b, value)) /\ pc = "start"
      /\ pc' \in {IF AccountOrNew(b).data = "contract" THEN "run" ELSE "halt", "fail"}
      /\ originals' = originals /\ frames' = frames /\ todo' = todo
  BY DEF ExecuteCall, CallGoesTo, Goto
<1>3. /\ Paid(b, value) \in Account /\ RootOf(Paid(b, value)) = RootOf(Current(b))
      /\ IsContract(Paid(b, value)) <=> IsContract(Current(b))
      /\ AccountOrNew(b).data = "contract" <=> IsContract(Current(b))
  BY PaidFacts
<1>4. /\ SInv' /\ WorldStep /\ ContractsShift /\ SlotsShift /\ TxKept
      /\ Levels' = Levels /\ Current(b)' = Paid(b, value)
  <2> DEFINE v == Paid(b, value)
  <2> HIDE DEF IsContract, RootOf, Levels
  <2>1. /\ v \in Account /\ StatePut(b, v) /\ RootOf(v) = RootOf(Current(b))
        /\ IsContract(Current(b)) => IsContract(v)
    BY <1>2, <1>3
  <2>2. Levels >= 3
    BY <1>1
  <2> HIDE DEF v
  <2>3. /\ SInv' /\ WorldStep /\ ContractsShift /\ SlotsShift /\ (Levels >= 3 => TxKept)
        /\ Levels' = Levels /\ Current(b)' = v
    BY <2>1, PutInTx
  <2> QED BY <2>2, <2>3 DEF v
<1> HIDE DEF Levels, IsContract
<1>5. RunnersCarried
  <2>1. pc' = "run" => IsContract(Current(b)')
    BY <1>2, <1>3, <1>4
  <2>2. \A j : j = Levels => At(j, b)' = Current(b)'
    BY <1>4 DEF At
  <2>3. b = frames[Len(frames)].to
    BY DEF Self, Frame
  <2> SUFFICES ASSUME NEW d \in 1..Len(frames), d < Len(frames) \/ pc' \in {"run", "stop"}
               PROVE  \/ d + 3 <= Levels /\ d < Len(frames)
                      \/ \A a \in Address, j \in (d + 3)..Levels :
                             a = frames[d].to => IsContract(At(j, a)')
    BY <1>2, <1>4 DEF RunnersCarried
  <2>4. CASE d < Len(frames)
    BY <1>1, <2>4
  <2>5. CASE d = Len(frames)
    <3>1. pc' = "run"
      BY <1>2, <2>5
    <3>2. ASSUME NEW j \in (d + 3)..Levels PROVE IsContract(At(j, b)')
      <4>1. j = Levels
        BY <1>1, <2>5
      <4> QED BY <2>1, <2>2, <3>1, <4>1
    <3> QED BY <2>3, <2>5, <3>2
  <2> QED BY <1>1, <2>4, <2>5
<1>6. CreatedCarried
  BY <1>2 DEF CreatedCarried, WInv, CreatedOK
<1>7. TodoOK'
  BY <1>2 DEF WInv, TodoOK
<1>8. pc \in InTx /\ pc' \in InTx \cup {"miner"}
  BY <1>2 DEF InTx, InMessage
<1> QED BY <1>2, <1>4, <1>5, <1>6, <1>7, <1>8, MessageKeeps

(* A creation makes a contract of what was none; otherwise it fails.       *)
LEMMA CreateWorld ==
    ASSUME WInv, TyInv', ExecuteCreate
    PROVE  WStep
<1>1. /\ IInv /\ SInv /\ Depths /\ FramesTyped /\ Len(frames) \in Nat /\ Len(frames) > 0
      /\ Levels = 3 + Len(frames) /\ Self \in Address /\ Levels \in Nat /\ Len(roots) \in Nat
      /\ pc = "start" /\ frames \in Seq(Msg)
  <2>1. Self \in Address /\ pc = "start" /\ frames \in Seq(Msg)
    BY WFacts, TyFacts, InvFacts DEF ExecuteCreate, InMessage
  <2> QED BY <2>1, WFacts DEF Depths, InMessage
<1> PICK b \in Address : b = Self
  BY <1>1
<1> DEFINE f == [frames[Len(frames)] EXCEPT !.created = @ \cup {b}]
<1>2. /\ frames' = [frames EXCEPT ![Len(frames)] = f]
      /\ originals' = originals /\ todo' = todo
      /\ \/ GetAccount(b) /\ UNCHANGED storageVars /\ pc' = "fail"
         \/ ~ Collides(b) /\ StateCreate(b) /\ pc' = "run"
  BY DEF ExecuteCreate, Goto
<1>3. /\ f.to = b /\ f.created = frames[Len(frames)].created \cup {b}
      /\ Len(frames') = Len(frames) /\ frames'[Len(frames)] = f
      /\ \A d \in 1..Len(frames) : d # Len(frames) => frames'[d] = frames[d]
  <2>1. frames[Len(frames)] \in Msg
    BY <1>1, TyFacts, FrameFacts DEF Frame, InMessage, WInv
  <2>2. f.to = b /\ f.created = frames[Len(frames)].created \cup {b}
    BY <2>1 DEF Self, Frame, Msg
  <2> HIDE DEF f, Msg
  <2> QED BY <1>1, <1>2, <2>2
<1> HIDE DEF f
<1>4. ~ Collides(b) => ~ IsContract(Current(b)) /\ RootOf(Current(b)) = EmptyTrie
  BY PaidFacts DEF Collides
<1>5. /\ SInv' /\ WorldStep /\ ContractsShift /\ SlotsShift /\ TxKept
      /\ Levels' = Levels /\ (pc' = "run" => IsContract(Current(b)'))
  <2>1. /\ SInv' /\ roots' = roots /\ CurrentKept(Address \ {b})
        /\ IsContract(Current(b)) => IsContract(Current(b)')
        /\ SavedKept(Len(roots)) /\ SlotsKept(Len(roots)) /\ StorageKept(Address)
        /\ pc' = "run" => IsContract(Current(b)')
    <3> HIDE DEF IsContract, RootOf
    <3>1. CASE GetAccount(b) /\ UNCHANGED storageVars /\ pc' = "fail"
      BY <1>1, <3>1, ReadState DEF CurrentKept
    <3>2. CASE ~ Collides(b) /\ StateCreate(b) /\ pc' = "run"
      BY <1>1, <1>4, <3>2, CreateState
    <3> QED BY <1>2, <3>1, <3>2
  <2>2. Writes(Address \ {b}) /\ Levels' = Levels
    <3>1. StorageKept(Address \ {b}) /\ Address \ {b} \in SUBSET Address
      BY <2>1 DEF StorageKept
    <3> QED BY <1>1, <2>1, <3>1, WriteLevels DEF Levels
  <2>3. SlotsShift
    BY <2>1, SlotsStay
  <2> HIDE DEF IsContract, Levels
  <2>4. ContractsShift /\ TxKept
    <3>1. Levels \in Nat /\ Levels >= 3
      BY <1>1
    <3>2. IsContract(Current(b)) => IsContract(Current(b)')
      BY <2>1
    <3> QED BY <2>2, <3>1, <3>2, ShiftFacts
  <2> QED BY <2>1, <2>2, <2>3, <2>4, WMoves
<1> HIDE DEF Levels, IsContract, RootOf
<1>6. RunnersCarried
  <2>1. \A j : j = Levels => At(j, b)' = Current(b)'
    BY <1>5 DEF At
  <2> SUFFICES ASSUME NEW d \in 1..Len(frames), d < Len(frames) \/ pc' \in {"run", "stop"}
               PROVE  \/ d + 3 <= Levels /\ d < Len(frames) /\ frames'[d].to = frames[d].to
                      \/ \A a \in Address, j \in (d + 3)..Levels :
                             a = frames'[d].to => IsContract(At(j, a)')
    BY <1>3, <1>5 DEF RunnersCarried
  <2>2. CASE d < Len(frames)
    BY <1>1, <1>3, <2>2
  <2>3. CASE d = Len(frames)
    <3>1. pc' = "run" /\ frames'[d].to = b
      <4>1. pc' \in {"run", "stop"}
        BY <1>1, <2>3
      <4> QED BY <1>2, <1>3, <2>3, <4>1
    <3>2. ASSUME NEW j \in (d + 3)..Levels PROVE IsContract(At(j, b)')
      <4>1. j = Levels
        BY <1>1, <2>3
      <4> QED BY <1>5, <2>1, <3>1, <4>1
    <3> QED BY <3>1, <3>2
  <2> QED BY <1>1, <2>2, <2>3
<1>7. CreatedCarried
  <2>1. pc' # "fail" => ~ IsContract(At(2, b))
    <3>1. pc' # "fail" => ~ IsContract(Current(b))
      BY <1>2, <1>4
    <3>2. At(Levels, b) = Current(b) /\ Levels \in 2..Levels
      BY <1>1 DEF At
    <3>3. MonotoneOK /\ pc \in InTx
      BY <1>1 DEF WInv, InTx, InMessage
    <3> QED BY <3>1, <3>2, <3>3 DEF MonotoneOK
  <2>2. CreatedOK
    BY DEF WInv
  <2> SUFFICES ASSUME NEW d \in 1..Len(frames), d < Len(frames) \/ pc' # "fail",
                      NEW a \in frames'[d].created
               PROVE  ~ IsContract(At(2, a))
    BY <1>3 DEF CreatedCarried
  <2>3. a \in frames[d].created \/ (a = b /\ pc' # "fail")
    BY <1>1, <1>3
  <2> QED BY <1>1, <2>1, <2>2, <2>3 DEF CreatedOK
<1>8. TodoOK'
  BY <1>1, <1>2 DEF WInv, TodoOK
<1>9. pc \in InTx /\ pc' \in InTx \cup {"miner"}
  BY <1>1, <1>2 DEF InTx, InMessage
<1> QED BY <1>2, <1>5, <1>6, <1>7, <1>8, <1>9, MessageKeeps

(* A frame that is pushed.                                                 *)
LEMMA PushedFrame ==
    ASSUME frames \in Seq(Msg), Len(frames) \in Nat, NEW f
    PROVE  /\ Len(Append(frames, f)) = Len(frames) + 1
           /\ Append(frames, f)[Len(frames) + 1] = f
           /\ \A d \in 1..Len(frames) : Append(frames, f)[d] = frames[d]
<1> HIDE DEF Msg
<1> QED OBVIOUS

(* A message within a message has the frame of its caller below it.        *)
LEMMA MessageWorld ==
    ASSUME WInv, TyInv', NEW to \in Address, NEW kind, Message(to, kind)
    PROVE  WStep
<1>1. /\ Depths /\ FramesTyped /\ Len(frames) \in Nat /\ Levels \in Nat
      /\ pc \in {"message", "run"} /\ pc' = "new" /\ originals' = originals /\ todo' = todo
  BY WFacts DEF Message, Goto
<1>2. Levels >= 3 /\ pc \in InTx /\ pc' \in InTx
  BY <1>1, InTxDepth DEF InTxDeep, InTx, InMessage
<1>3. TodoOK'
  BY <1>1 DEF WInv, TodoOK
<1>4. CASE /\ pc = "message" /\ UNCHANGED stateVars
           /\ frames' = <<[to |-> to, kind |-> kind, destructed |-> {}, created |-> {}]>>
  <2>1. SInv' /\ WorldStep /\ ContractsShift /\ SlotsShift /\ TxKept
    BY <1>2, <1>4, QuietInTx
  <2>2. Len(frames') = 1 /\ frames'[1].created = {}
    BY <1>4
  <2> HIDE DEF Levels, IsContract
  <2>3. RunnersCarried /\ CreatedCarried
    BY <1>1, <2>2 DEF RunnersCarried, CreatedCarried
  <2> QED BY <1>1, <1>2, <1>3, <2>1, <2>3, MessageKeeps
<1>5. CASE /\ pc = "run" /\ frames' = Append(frames, [Frame EXCEPT !.to = to, !.kind = kind])
           /\ UNCHANGED stateVars \/ StatePut(Self, Current(Self))
  <2>1. /\ Self \in Address /\ Frame \in Msg /\ Len(frames) > 0 /\ frames \in Seq(Msg)
        /\ Levels = 3 + Len(frames)
    BY <1>1, <1>5, WFacts, TyFacts, FrameFacts, InvFacts DEF InMessage, Depths
  <2>2. SInv' /\ WorldStep /\ ContractsShift /\ SlotsShift /\ TxKept
    <3>1. CASE UNCHANGED stateVars
      BY <1>2, <3>1, QuietInTx
    <3>2. CASE StatePut(Self, Current(Self))
      <4> DEFINE v == Current(Self)
      <4>1. v \in Account
        BY <3>2 DEF StatePut, PutAccount
      <4> HIDE DEF v
      <4>2. StatePut(Self, v) /\ v = Current(Self)
        BY <3>2 DEF v
      <4> QED BY <1>2, <2>1, <4>1, <4>2, PutInTx
    <3> QED BY <1>5, <3>1, <3>2
  <2> DEFINE f == [Frame EXCEPT !.to = to, !.kind = kind]
  <2>3. f.created = frames[Len(frames)].created
    BY <2>1 DEF Frame, Msg
  <2> HIDE DEF f
  <2>4. /\ Len(frames') = Len(frames) + 1 /\ frames'[Len(frames) + 1] = f
        /\ \A d \in 1..Len(frames) : frames'[d] = frames[d]
    BY <1>1, <1>5, <2>1, PushedFrame DEF f
  <2> HIDE DEF Levels, IsContract
  <2>5. RunnersCarried
    <3> SUFFICES ASSUME NEW d \in 1..Len(frames'), d < Len(frames') \/ pc' \in {"run", "stop"}
                 PROVE  d \in 1..Len(frames) /\ frames'[d].to = frames[d].to /\ d + 3 <= Levels
      BY <1>5 DEF RunnersCarried
    <3>1. d < Len(frames) + 1
      BY <1>1, <2>4
    <3>2. d \in 1..Len(frames) /\ d + 3 <= Levels
      BY <1>1, <2>1, <3>1
    <3> QED BY <2>4, <3>2
  <2>6. CreatedCarried
    <3> SUFFICES ASSUME NEW d \in 1..Len(frames'), NEW a \in frames'[d].created
                 PROVE  ~ IsContract(At(2, a))
      BY DEF CreatedCarried
    <3>1. CreatedOK /\ pc # "fail"
      BY <1>5 DEF WInv
    <3>2. CASE d = Len(frames) + 1
      <4>1. a \in frames[Len(frames)].created /\ Len(frames) \in 1..Len(frames)
        BY <1>1, <2>1, <2>3, <2>4, <3>2
      <4> QED BY <3>1, <4>1 DEF CreatedOK
    <3>3. CASE d # Len(frames) + 1
      <4>1. d \in 1..Len(frames)
        BY <1>1, <2>4, <3>3
      <4> QED BY <2>4, <3>1, <4>1 DEF CreatedOK
    <3> QED BY <3>2, <3>3
  <2> QED BY <1>1, <1>2, <1>3, <2>2, <2>5, <2>6, MessageKeeps
<1> QED BY <1>4, <1>5 DEF Message

(* The interpreter is done: nothing happens to the state.                  *)
LEMMA StopWorld ==
    ASSUME WInv, TyInv', NEW ok, Stop(ok)
    PROVE  WStep
<1>1. /\ UNCHANGED stateVars /\ pc \in {"run", "stop"} /\ pc' \in {"halt", "fail"}
      /\ originals' = originals /\ todo' = todo /\ frames' = frames
      /\ Depths /\ Len(frames) \in Nat /\ Len(frames) > 0 /\ Levels = 3 + Len(frames)
  <2>1. pc \in {"run", "stop"} /\ Depths
    BY WFacts DEF Stop
  <2> QED BY <2>1 DEF Stop, Goto, Depths, InMessage
<1>2. pc \in InTx /\ pc' \in InTx
  BY <1>1 DEF InTx, InMessage
<1>3. SInv' /\ WorldStep /\ ContractsShift /\ SlotsShift /\ TxKept
  <2>1. Levels >= 3
    BY <1>1
  <2> QED BY <1>1, <2>1, QuietInTx
<1>4. TodoOK'
  BY <1>1 DEF WInv, TodoOK
<1> HIDE DEF Levels, IsContract
<1>5. RunnersCarried /\ CreatedCarried
  <2>1. RunnersCarried
    BY <1>1 DEF RunnersCarried
  <2>2. CreatedCarried
    BY <1>1 DEF CreatedCarried, WInv, CreatedOK
  <2> QED BY <2>1, <2>2
<1> QED BY <1>1, <1>2, <1>3, <1>4, <1>5, MessageKeeps

(* The frames without the last.                                            *)
LEMMA PoppedFrames ==
    ASSUME Len(frames) \in Nat, Len(frames) > 0, NEW keep \in BOOLEAN,
           \A d \in 1..Len(frames) : frames[d] \in Msg
    PROVE  /\ Len(Popped(keep)) = Len(frames) - 1
           /\ \A d \in 1..(Len(frames) - 1) :
                  /\ Popped(keep)[d].to = frames[d].to
                  /\ Popped(keep)[d].created =
                         IF keep /\ d = Len(frames) - 1 THEN Frame.created ELSE frames[d].created
<1> DEFINE n == Len(frames) - 1
           F(d) == IF keep /\ d = n
                   THEN [frames[d] EXCEPT !.destructed = Frame.destructed, !.created = Frame.created]
                   ELSE frames[d]
<1>1. n \in Nat
  OBVIOUS
<1>2. Popped(keep) = [d \in 1..n |-> F(d)]
  BY DEF Popped
<1>3. ASSUME NEW d \in 1..n
      PROVE  /\ F(d).to = frames[d].to
             /\ F(d).created = IF keep /\ d = n THEN Frame.created ELSE frames[d].created
  <2>1. frames[d] \in Msg
    OBVIOUS
  <2> QED BY <2>1 DEF Msg
<1> HIDE DEF n, F
<1>4. Len(Popped(keep)) = n /\ \A d \in 1..n : Popped(keep)[d] = F(d)
  BY <1>1, <1>2
<1> QED BY <1>3, <1>4 DEF n

(* A message that is done gives up its level, the caller's goes on.        *)
LEMMA LeaveWorld ==
    ASSUME Settled, WInv, TyInv', NEW keep \in BOOLEAN,
           \/ keep /\ Return
           \/ ~ keep /\ Throw
    PROVE  WStep
<1>1. /\ pc \in {"halt", "fail"} /\ (keep => pc = "halt")
      /\ pc' = (IF Outermost THEN "miner" ELSE "run")
      /\ originals' = originals /\ frames' = Popped(keep)
      /\ IF keep THEN StateCommit ELSE StateRevert
      /\ todo' = IF keep THEN (IF Outermost THEN Doomed ELSE {}) ELSE todo
  BY DEF Return, Throw, Goto
<1>2. /\ IInv /\ SInv /\ Depths /\ FramesTyped /\ Len(frames) \in Nat /\ Levels \in Nat
      /\ Len(frames) > 0 /\ Levels = 3 + Len(frames) /\ pc \in InTx
      /\ pc' \in InTx \cup {"miner"}
  BY <1>1, WFacts DEF Depths, InTx, InMessage
<1>3. /\ Len(frames') = Len(frames) - 1
      /\ \A d \in 1..(Len(frames) - 1) :
             /\ frames'[d].to = frames[d].to
             /\ frames'[d].created =
                    IF keep /\ d = Len(frames) - 1 THEN Frame.created ELSE frames[d].created
  <2>1. frames \in Seq(Msg)
    BY WFacts, TyFacts, InvFacts
  <2> HIDE DEF Msg
  <2>2. \A d \in 1..Len(frames) : frames[d] \in Msg
    BY <2>1, ElementOfSeq
  <2> QED BY <1>1, <1>2, <2>2, PoppedFrames
<1>4. SInv' /\ WorldStep /\ ContractsShift /\ SlotsShift /\ TxKept
  <2>1. CASE keep
    <3>1. SInv' /\ Commits
      BY <1>1, <1>2, <2>1, CommitLevels
    <3>2. Levels >= 4
      BY <1>2
    <3> QED BY <1>2, <3>1, <3>2, ShiftFacts, WMoves
  <2>2. CASE ~ keep
    <3>1. SInv' /\ Reverts
      BY <1>1, <1>2, <2>2, RevertLevels
    <3>2. Levels >= 3
      BY <1>2
    <3> QED BY <1>2, <3>1, <3>2, ShiftFacts, WMoves
  <2> QED BY <2>1, <2>2
<1> HIDE DEF Levels, IsContract
<1>5. TodoOK'
  <2>1. todo = {} /\ CreatedOK
    BY <1>1 DEF WInv, TodoOK
  <2>2. CASE keep /\ Outermost
    <3>1. todo' \subseteq Frame.created
      BY <1>1, <2>2 DEF Settled, Doomed
    <3>2. Len(frames) \in 1..Len(frames) /\ Frame.created = frames[Len(frames)].created
      BY <1>2 DEF Frame
    <3>3. \A a \in Frame.created : a \in Address /\ ~ IsContract(At(2, a))
      BY <1>1, <1>2, <2>1, <2>2, <3>2 DEF CreatedOK, FramesTyped
    <3>4. \A a \in Address : At(2, a)' = At(2, a)
      BY <1>4 DEF TxKept, Becomes
    <3>5. \A a \in todo' : ~ IsContract(At(2, a)')
      BY <3>1, <3>3, <3>4
    <3>6. pc' = "miner"
      BY <1>1, <2>2
    <3> QED BY <3>5, <3>6 DEF TodoOK
  <2>3. CASE ~ (keep /\ Outermost)
    <3>1. todo' = {}
      BY <1>1, <2>1, <2>3
    <3> QED BY <3>1 DEF TodoOK
  <2> QED BY <2>2, <2>3
<1>6. RunnersCarried
  <2> SUFFICES ASSUME NEW d \in 1..Len(frames')
               PROVE  /\ d \in 1..Len(frames) /\ frames'[d].to = frames[d].to /\ d + 3 <= Levels
                      /\ d < Len(frames)
    BY DEF RunnersCarried
  <2>1. d \in 1..(Len(frames) - 1)
    BY <1>3
  <2>2. d \in 1..Len(frames) /\ d < Len(frames) /\ d + 3 <= Levels
    BY <1>2, <2>1
  <2> QED BY <1>3, <2>1, <2>2
<1>7. CreatedCarried
  <2>1. CreatedOK
    BY DEF WInv
  <2> SUFFICES ASSUME NEW d \in 1..Len(frames'), NEW a \in frames'[d].created
               PROVE  ~ IsContract(At(2, a))
    BY DEF CreatedCarried
  <2>2. d \in 1..(Len(frames) - 1)
    BY <1>3
  <2>3. d \in 1..Len(frames) /\ d < Len(frames) /\ Len(frames) \in 1..Len(frames)
    BY <1>2, <2>2
  <2>4. CASE keep /\ d = Len(frames) - 1
    <3>1. a \in frames[Len(frames)].created /\ pc # "fail"
      BY <1>1, <1>3, <2>2, <2>4 DEF Frame
    <3> QED BY <2>1, <2>3, <3>1 DEF CreatedOK
  <2>5. CASE ~ (keep /\ d = Len(frames) - 1)
    <3>1. a \in frames[d].created
      BY <1>3, <2>2, <2>5
    <3> QED BY <2>1, <2>3, <3>1 DEF CreatedOK
  <2> QED BY <2>4, <2>5
<1> QED BY <1>1, <1>2, <1>4, <1>5, <1>6, <1>7, MessageKeeps

(* What code does to slots.  An original is taken when a slot has not been *)
(* written in the transaction, and then has the value it had before.       *)
LEMMA SlotWorld ==
    ASSUME WInv, TyInv', NEW k \in Slot, NEW v \in Value,
           SLoad(k) \/ SStore(k, v) \/ TStore(k, v)
    PROVE  WStep
<1>1. /\ pc = "run" /\ pc' = "run" /\ frames' = frames /\ todo' = todo
      /\ Depths /\ FramesTyped /\ Len(frames) \in Nat /\ Len(frames) > 0 /\ Levels \in Nat
      /\ Levels = 3 + Len(frames) /\ Self \in Address /\ IInv /\ SInv /\ Len(roots) \in Nat
  <2>1. pc = "run" /\ pc' = "run" /\ frames' = frames /\ todo' = todo
    BY DEF SLoad, SStore, TStore, Operation
  <2>2. Self \in Address
    BY <2>1, WFacts, TyFacts DEF InMessage
  <2> QED BY <2>1, <2>2, WFacts DEF Depths, InMessage
<1> PICK b \in Address : b = Self
  BY <1>1
<1>2. pc \in InTx /\ pc' \in InTx /\ TodoOK'
  BY <1>1 DEF InTx, InMessage, WInv, TodoOK
<1>3. RunnersCarried /\ CreatedCarried
  <2> HIDE DEF Levels, IsContract
  <2>1. RunnersCarried
    BY <1>1 DEF RunnersCarried
  <2>2. CreatedCarried
    BY <1>1 DEF CreatedCarried, WInv, CreatedOK
  <2> QED BY <2>1, <2>2
<1>4. CASE TStore(k, v)
  <2>1. UNCHANGED stateVars /\ originals' = originals /\ Levels >= 3
    BY <1>1, <1>4 DEF TStore
  <2>2. SInv' /\ WorldStep /\ ContractsShift /\ SlotsShift /\ TxKept
    BY <2>1, QuietInTx
  <2> QED BY <1>2, <1>3, <2>1, <2>2, MessageKeeps
<1>5. ASSUME SInv', roots' = roots, CurrentKept(Address), SavedKept(Len(roots)),
             SlotsKept(Len(roots)), StorageKept(Address \ {b})
      PROVE  /\ WorldStep /\ ContractsShift /\ TxKept /\ Levels' = Levels
  <2>1. CurrentKept(Address \ {b}) /\ Address \ {b} \in SUBSET Address
    BY <1>5 DEF CurrentKept
  <2>2. Writes(Address \ {b})
    BY <1>1, <1>5, <2>1, WriteLevels
  <2>3. IsContract(Current(b)) => IsContract(Current(b)')
    <3> HIDE DEF IsContract
    <3> QED BY <1>5 DEF CurrentKept
  <2> HIDE DEF IsContract, Levels
  <2>4. Levels >= 3
    BY <1>1
  <2>5. ContractsShift /\ TxKept
    BY <1>1, <2>2, <2>3, <2>4, ShiftFacts
  <2> QED BY <2>2, <2>5, WMoves DEF Writes
<1>6. CASE SLoad(k)
  <2>1. GetStorage(b, k) /\ originals' = originals
    BY <1>6 DEF SLoad
  <2>2. /\ SInv' /\ roots' = roots /\ CurrentKept(Address)
        /\ SavedKept(Len(roots)) /\ SlotsKept(Len(roots)) /\ StorageKept(Address)
    BY <1>1, <2>1, ReadSlot
  <2>3. WorldStep /\ ContractsShift /\ TxKept
    <3>1. StorageKept(Address \ {b})
      BY <2>2 DEF StorageKept
    <3> QED BY <1>5, <2>2, <3>1
  <2>4. SlotsShift
    BY <2>2, SlotsStay
  <2> QED BY <1>2, <1>3, <2>1, <2>2, <2>3, <2>4, MessageKeeps
<1>7. CASE SStore(k, v)
  <2>1. /\ PutStorage(b, k, v)
        /\ originals' = [originals EXCEPT ![<<b, k>>] =
                             IF @ = NotCached THEN StorageOf(b, k) ELSE @]
    BY <1>7 DEF SStore
  <2>2. IsContract(Current(b))
    <3>1. At(Levels, b) = Current(b)
      BY DEF At
    <3> HIDE DEF IsContract, Levels
    <3>2. Len(frames) \in 1..Len(frames) /\ Levels \in (Len(frames) + 3)..Levels
          /\ b = frames[Len(frames)].to
      BY <1>1 DEF Self, Frame
    <3> QED BY <1>1, <3>1, <3>2 DEF WInv, RunnersOK
  <2>3. /\ SInv' /\ roots' = roots /\ CurrentKept(Address)
        /\ SavedKept(Len(roots)) /\ SlotsKept(Len(roots)) /\ StorageOf(b, k)' = v
        /\ \A a \in Address, j \in Slot :
               <<a, j>> # <<b, k>> => StorageOf(a, j)' = StorageOf(a, j)
    BY <1>1, <2>1, <2>2, WriteSlot
  <2>4. WorldStep /\ ContractsShift /\ TxKept /\ Levels' = Levels
    <3>1. StorageKept(Address \ {b})
      BY <2>3 DEF StorageKept
    <3> QED BY <1>5, <2>3, <3>1
  <2> HIDE DEF Levels, IsContract
  <2>5. ASSUME NEW a \in Address, NEW s \in Slot
        PROVE  /\ originals'[<<a, s>>] \in {NotCached, SlotAt(2, a, s)'}
               /\ originals'[<<a, s>>] = NotCached =>
                      \A j \in 2..Levels : SlotAt(j, a, s)' = SlotAt(2, a, s)'
    <3>1. /\ originals[<<a, s>>] \in {NotCached, SlotAt(2, a, s)}
          /\ originals[<<a, s>>] = NotCached =>
                 \A j \in 2..Levels : SlotAt(j, a, s) = SlotAt(2, a, s)
      <4>1. OriginalsOK /\ Levels > 2
        BY <1>1 DEF WInv
      <4> QED BY <1>2, <4>1 DEF OriginalsOK
    <3>2. SlotAt(2, a, s)' = SlotAt(2, a, s)
      BY <2>4 DEF TxKept, Becomes
    <3>3. <<a, s>> \in AllSlots /\ originals \in [AllSlots -> Value \cup {NotCached}]
      BY WFacts DEF AllSlots, TyInv, OriginalsTyped
    <3>4. SlotAt(Levels, a, s) = StorageOf(a, s) /\ Levels \in 2..Levels
      BY <1>1 DEF SlotAt
    <3>5. CASE <<a, s>> = <<b, k>>
      <4>1. originals'[<<a, s>>] = IF originals[<<a, s>>] = NotCached THEN StorageOf(a, s)
                                                                   ELSE originals[<<a, s>>]
        BY <2>1, <3>3, <3>5
      <4>2. StorageOf(a, s) \in Value /\ NotCached \notin Value
        BY WFacts, TypedFacts, StateAssumption
      <4> QED BY <3>1, <3>2, <3>4, <4>1, <4>2
    <3>6. CASE <<a, s>> # <<b, k>>
      <4>1. originals'[<<a, s>>] = originals[<<a, s>>]
        BY <2>1, <3>3, <3>6
      <4>2. ASSUME NEW j \in 2..Levels PROVE SlotAt(j, a, s)' = SlotAt(j, a, s)
        <5>1. CASE j = Levels
          BY <2>3, <2>4, <3>6, <5>1 DEF SlotAt
        <5>2. CASE j # Levels
          <6>1. j \in 1..Len(roots)
            BY <1>1, <5>2, WFacts
          <6> QED BY <2>3, <2>4, <5>2, <6>1 DEF SlotAt, SlotsKept
        <5> QED BY <5>1, <5>2
      <4> QED BY <3>1, <3>2, <4>1, <4>2
    <3> QED BY <3>5, <3>6
  <2>6. OriginalsOK'
    <3>1. ~ (Levels' <= 2 \/ pc' = "commit") /\ Levels' = Levels
      BY <1>1, <2>4
    <3>2. /\ \A a \in Address, s \in Slot :
                 originals'[<<a, s>>] \in {NotCached, SlotAt(2, a, s)'}
          /\ \A a \in Address, s \in Slot :
                 originals'[<<a, s>>] = NotCached =>
                     \A j \in 2..Levels' : SlotAt(j, a, s)' = SlotAt(2, a, s)'
      BY <2>5, <3>1
    <3> HIDE DEF SlotAt, InTx
    <3> QED BY <3>1, <3>2, Zenon DEF OriginalsOK
  <2> QED BY <1>2, <1>3, <2>3, <2>4, <2>6, MessageKeeps
<1> QED BY <1>4, <1>6, <1>7

(* SELFDESTRUCT marks the account and pays; the account goes later.        *)
LEMMA SelfDestructWorld ==
    ASSUME WInv, TyInv', NEW to \in Address, NEW value, SelfDestruct(to, value)
    PROVE  WStep
<1>1. /\ pc = "run" /\ pc' = "stop" /\ originals' = originals /\ todo' = todo
      /\ Depths /\ FramesTyped /\ Len(frames) \in Nat /\ Len(frames) > 0 /\ Levels \in Nat
      /\ Levels = 3 + Len(frames) /\ Self \in Address /\ frames \in Seq(Msg) /\ Frame \in Msg
  <2>1. pc = "run" /\ pc' = "stop" /\ originals' = originals /\ todo' = todo
    BY DEF SelfDestruct, Operation, Goto
  <2>2. Self \in Address /\ frames \in Seq(Msg) /\ Frame \in Msg
    BY <2>1, WFacts, TyFacts, FrameFacts, InvFacts DEF InMessage
  <2> QED BY <2>1, <2>2, WFacts DEF Depths, InMessage
<1> PICK b \in Address : b = Self
  BY <1>1
<1>2. pc \in InTx /\ pc' \in InTx /\ TodoOK' /\ Levels >= 3
  BY <1>1 DEF InTx, InMessage, WInv, TodoOK
<1> DEFINE f == [frames[Len(frames)] EXCEPT !.destructed = @ \cup {b}]
<1>3. frames' = [frames EXCEPT ![Len(frames)] = f]
  BY DEF SelfDestruct
<1>4. f.to = frames[Len(frames)].to /\ f.created = frames[Len(frames)].created
  BY <1>1 DEF Frame, Msg
<1> HIDE DEF f
<1>5. /\ Len(frames') = Len(frames)
      /\ \A d \in 1..Len(frames) : /\ frames'[d].to = frames[d].to
                                   /\ frames'[d].created = frames[d].created
  <2> HIDE DEF Msg
  <2>1. Len(frames') = Len(frames) /\ frames'[Len(frames)] = f
        /\ \A d \in 1..Len(frames) : d # Len(frames) => frames'[d] = frames[d]
    BY <1>1, <1>3
  <2> QED BY <1>4, <2>1
<1>6. SInv' /\ WorldStep /\ ContractsShift /\ SlotsShift /\ TxKept
  <2>1. CASE to = Self
    BY <1>2, <2>1, QuietInTx DEF SelfDestruct
  <2>2. CASE to # Self
    <3> DEFINE v == Paid(to, value)
    <3> HIDE DEF IsContract, RootOf, Levels
    <3>1. /\ v \in Account /\ StatePut(to, v) /\ RootOf(v) = RootOf(Current(to))
          /\ IsContract(Current(to)) => IsContract(v)
      BY <2>2, PaidFacts DEF SelfDestruct
    <3> HIDE DEF v
    <3> QED BY <1>2, <3>1, PutInTx
  <2> QED BY <2>1, <2>2
<1> HIDE DEF Levels, IsContract
<1>7. RunnersCarried
  <2> SUFFICES ASSUME NEW d \in 1..Len(frames') PROVE d + 3 <= Levels
    BY <1>1, <1>5 DEF RunnersCarried
  <2> QED BY <1>1, <1>5
<1>8. CreatedCarried
  BY <1>1, <1>5 DEF CreatedCarried, WInv, CreatedOK
<1> QED BY <1>1, <1>2, <1>6, <1>7, <1>8, MessageKeeps

-----------------------------------------------------------------------------
(* The steps between messages. *)

(* What they keep: outside messages the originals are those of before, or  *)
(* there are none.                                                         *)
LEMMA OutsideKeeps ==
    ASSUME WInv, TyInv', pc' \notin InTx, SInv', WorldStep, FlushedOK', TodoOK',
           \/ originals' = NoSlots
           \/ /\ originals' = originals /\ pc' # "commit"
              /\ Levels' = Levels /\ (Levels >= 3 => TxKept)
    PROVE  WStep
<1>1. Depths /\ Depths'
  BY DepthFacts, DepthsStay DEF WInv
<1>2. Len(frames') = 0
  <2>1. pc' \notin InMessage
    BY DEF InTx
  <2>2. (pc \in InMessage <=> Len(frames) > 0)' /\ (Len(frames) \in Nat)'
    BY <1>1 DEF Depths
  <2> QED BY <2>1, <2>2 DEF InMessage
<1>3. MonotoneOK' /\ RunnersOK' /\ CreatedOK'
  <2> HIDE DEF Levels, IsContract, InTx
  <2>1. 1..Len(frames') = {}
    BY <1>2
  <2> QED BY <2>1 DEF MonotoneOK, RunnersOK, CreatedOK, InTx
<1>4. OriginalsOK'
  <2> HIDE DEF Levels, InTx
  <2>1. \A a \in Address, k \in Slot : NoSlots[<<a, k>>] = NotCached
    BY DEF NoSlots, AllSlots
  <2>2. CASE originals' = NoSlots
    <3>1. NoSlots' = NoSlots
      BY DEF NoSlots, AllSlots
    <3> QED BY <2>1, <2>2, <3>1 DEF OriginalsOK
  <2>3. CASE /\ originals' = originals /\ pc' # "commit"
             /\ Levels' = Levels /\ (Levels >= 3 => TxKept)
    <3>1. CASE Levels <= 2
      BY <2>1, <2>2, <2>3, <3>1 DEF WInv, OriginalsOK
    <3>2. CASE Levels >= 3
      <4>1. \A a \in Address, k \in Slot :
                originals[<<a, k>>] \in {NotCached, SlotAt(2, a, k)}
        <5>1. OriginalsOK /\ Levels > 2
          BY <1>1, <3>2 DEF WInv, Depths
        <5> QED BY <5>1 DEF OriginalsOK
      <4>2. \A a \in Address, k \in Slot : SlotAt(2, a, k)' = SlotAt(2, a, k)
        BY <2>3, <3>2 DEF TxKept, Becomes
      <4>3. ~ (Levels' <= 2) /\ pc' # "commit"
        BY <1>1, <2>3, <3>2 DEF Depths
      <4> QED BY <2>3, <4>1, <4>2, <4>3 DEF OriginalsOK
    <3> QED BY <1>1, <3>1, <3>2 DEF Depths
  <2> QED BY <2>2, <2>3
<1> QED BY <1>3, <1>4 DEF WStep

(* The steps of a block.                                                   *)
LEMMA BlockWorld ==
    ASSUME Settled, WInv, TyInv',
           \/ RunBlock \/ BlockCheckpoint \/ BlockCommit \/ BlockRevert
           \/ FlushSlots \/ FlushEnd
           \/ \E a \in Withdrawers, value \in {0, 1} : Reward(a, value)
    PROVE  WStep
<1>1. /\ IInv /\ SInv /\ Depths /\ Len(roots) \in Nat /\ Levels = Len(roots) + 1
      /\ Levels \in Nat
  BY WFacts
<1>2. /\ Levels <= 2 => originals = NoSlots
      /\ pc \notin {"cleanup", "miner", "destroy"} => todo = {}
  BY DEF WInv, OriginalsOK, TodoOK
<1>3. Depths'
  BY DepthsStay
<1>4. ASSUME pc' \in {"rooted", "idle", "flush", "block", "cleanup"}, SInv', WorldStep, FlushedOK',
             todo' = {} \/ pc' = "cleanup", originals' = NoSlots
      PROVE  WStep
  <2>1. TodoOK'
    BY <1>4 DEF TodoOK
  <2>2. pc' \notin InTx
    BY <1>4 DEF InTx, InMessage
  <2> QED BY <1>4, <2>1, <2>2, OutsideKeeps
<1> HIDE DEF Levels
<1>5. CASE RunBlock
  <2>1. /\ pc = "idle" /\ pc' = "rooted" /\ originals' = originals /\ todo' = todo
    BY <1>5 DEF RunBlock, Goto
  <2>2. PICK root \in {trie, Genesis}, clearCache \in BOOLEAN : StateSetRoot(root, clearCache)
    BY <1>5 DEF RunBlock
  <2>3. diffCache = <<NoDiff>> /\ slotDiff = <<NoSlotDiff>>
    BY <2>1 DEF WInv, FlushedOK
  <2>4. root \in [Address -> Stored]
    BY <1>1, EVMAssumption DEF IInv, CacheTypeOK
  <2>5. \A a \in Address : AccountOK(root[a])
    BY <1>1 DEF SInv, TrieOK, Settled
  <2>6. SInv' /\ diffCache' = <<NoDiff>> /\ slotDiff' = <<NoSlotDiff>>
    BY <1>1, <2>2, <2>3, <2>4, <2>5, RootState
  <2>7. Levels = 1 /\ Levels' = 1
    BY <1>1, <1>3, <2>1 DEF Depths
  <2>8. WorldStep
    BY <2>7, WMoves
  <2>9. FlushedOK'
    BY <2>6 DEF FlushedOK, NoDiff, NoSlotDiff, AllSlots
  <2> QED BY <1>2, <1>4, <2>1, <2>6, <2>7, <2>8, <2>9
<1>6. CASE BlockCheckpoint
  <2>1. /\ pc = "rooted" /\ pc' = "block" /\ originals' = originals /\ todo' = todo
        /\ StateCheckpoint
    BY <1>6 DEF BlockCheckpoint, Goto
  <2>2. slotDiff = <<NoSlotDiff>> /\ Levels = 1
    BY <1>1, <2>1 DEF WInv, FlushedOK, Depths
  <2>3. SInv' /\ Opens
    BY <1>1, <2>1, <2>2, OpenLevels
  <2>4. WorldStep
    BY <2>3, WMoves
  <2> QED BY <1>2, <1>4, <2>1, <2>2, <2>3, <2>4 DEF FlushedOK
<1>7. CASE BlockCommit \/ BlockRevert
  <2>1. /\ pc \in {"block", "rewarded"} /\ pc' = "flush"
        /\ originals' = originals /\ todo' = todo
        /\ StateCommit \/ StateRevert
    BY <1>7 DEF BlockCommit, BlockRevert, Goto
  <2>2. Levels = 2
    BY <1>1, <2>1 DEF Depths
  <2>3. SInv' /\ (Commits \/ Reverts)
    BY <1>1, <2>1, CommitLevels, RevertLevels
  <2>4. WorldStep
    BY <2>3, WMoves
  <2> QED BY <1>2, <1>4, <2>1, <2>2, <2>3, <2>4 DEF FlushedOK
<1>8. CASE FlushSlots
  <2>1. /\ pc = "flush" /\ pc' = "flush" /\ originals' = originals /\ todo' = todo
        /\ \E a \in Address : FlushStorage(a)
    BY <1>8 DEF FlushSlots, evmVars, controlVars
  <2>2. Levels = 1 /\ Levels' = 1
    BY <1>1, <1>3, <2>1 DEF Depths
  <2>3. SInv'
    BY <1>1, <2>1, FlushSlotsState
  <2>4. WorldStep
    BY <2>2, WMoves
  <2> QED BY <1>2, <1>4, <2>1, <2>2, <2>3, <2>4 DEF FlushedOK
<1>9. CASE FlushEnd
  <2>1. /\ pc = "flush" /\ pc' = "idle" /\ originals' = NoSlots /\ todo' = todo
        /\ FlushAccounts
    BY <1>9 DEF FlushEnd, Goto
  <2>2. Levels = 1 /\ Levels' = 1
    BY <1>1, <1>3, <2>1 DEF Depths
  <2>3. SInv' /\ diffCache' = <<NoDiff>> /\ slotDiff' = <<NoSlotDiff>>
    BY <1>1, <2>1, FlushState
  <2>4. WorldStep
    BY <2>2, WMoves
  <2>5. FlushedOK'
    BY <2>3 DEF FlushedOK, NoDiff, NoSlotDiff, AllSlots
  <2> QED BY <1>2, <1>4, <2>1, <2>3, <2>4, <2>5
<1>10. ASSUME NEW b \in Withdrawers, NEW value \in {0, 1}, Reward(b, value)
       PROVE  WStep
  <2> DEFINE v == Paid(b, value)
  <2>1. /\ pc = "block" /\ pc' = "cleanup" /\ originals' = originals
        /\ StatePut(b, v) /\ b \in Address
    BY <1>10, EVMAssumption DEF Reward, Goto
  <2>2. Levels = 2
    BY <1>1, <2>1 DEF Depths
  <2> HIDE DEF IsContract, RootOf
  <2>3. v \in Account /\ RootOf(v) = RootOf(Current(b)) /\ (IsContract(Current(b)) => IsContract(v))
    BY <2>1, PaidFacts
  <2> HIDE DEF v
  <2>4. SInv' /\ WorldStep
    BY <2>1, <2>3, PutInTx
  <2> QED BY <1>2, <1>4, <2>1, <2>2, <2>4 DEF FlushedOK
<1> QED BY <1>5, <1>6, <1>7, <1>8, <1>9, <1>10

(* The transaction's checkpoint: what runs in it finds what is saved.      *)
LEMMA BeginWorld ==
    ASSUME WInv, TyInv', TxCheckpoint
    PROVE  WStep
<1>1. /\ IInv /\ SInv /\ Depths /\ Len(roots) \in Nat /\ Levels \in Nat
      /\ pc = "tx" /\ pc' = "message" /\ originals' = originals /\ todo' = todo
      /\ StateCheckpoint
  BY WFacts DEF TxCheckpoint, Goto
<1>2. Levels = 2 /\ originals = NoSlots /\ todo = {} /\ Len(roots) # 0
  <2>1. Levels = 2
    BY <1>1 DEF Depths
  <2> QED BY <1>1, <2>1 DEF WInv, OriginalsOK, TodoOK, Levels
<1>3. SInv' /\ Opens
  BY <1>1, <1>2, OpenLevels
<1>4. WorldStep
  BY <1>3, WMoves
<1> HIDE DEF Levels, IsContract
<1>5. Levels' = 3 /\ Becomes(2, 2, Address) /\ Becomes(3, 2, Address)
  <2>1. Levels' = Levels + 1 /\ 2 \in 1..Levels
    BY <1>2, <1>3 DEF Opens
  <2>2. \A i : i = Levels + 1 => Becomes(i, Levels, Address)
    BY <1>3 DEF Opens
  <2> QED BY <1>2, <1>3, <2>1, <2>2 DEF Opens
<1>6. ASSUME NEW a \in Address, NEW CONSTANT j, j \in 2..Levels'
      PROVE  /\ At(j, a)' = At(2, a)' /\ \A k \in Slot : SlotAt(j, a, k)' = SlotAt(2, a, k)'
  <2>1. j = 2 \/ j = 3
    BY <1>5, <1>6
  <2> QED BY <1>5, <2>1 DEF Becomes
<1>7. MonotoneOK'
  BY <1>6 DEF MonotoneOK
<1>8. Len(frames') = 0
  <2>1. Depths' /\ pc' \notin InMessage
    BY <1>1, DepthsStay DEF InMessage
  <2> HIDE DEF InMessage
  <2> QED BY <2>1 DEF Depths, InMessage
<1>9. RunnersOK' /\ CreatedOK'
  <2>1. 1..Len(frames') = {}
    BY <1>8
  <2> QED BY <2>1 DEF RunnersOK, CreatedOK
<1>10. FlushedOK' /\ TodoOK'
  BY <1>1, <1>2 DEF FlushedOK, TodoOK
<1>11. OriginalsOK'
  <2>1. \A a \in Address, k \in Slot : originals'[<<a, k>>] = NotCached
    BY <1>1, <1>2 DEF NoSlots, AllSlots
  <2>2. ~ (Levels' <= 2 \/ pc' = "commit")
    BY <1>1, <1>5
  <2> QED BY <1>6, <2>1, <2>2 DEF OriginalsOK
<1> QED BY <1>3, <1>4, <1>7, <1>9, <1>10, <1>11 DEF WStep

(* Its end, with its checkpoint closed.                                    *)
LEMMA EndWorld ==
    ASSUME WInv, TyInv', TxFail \/ TxCommit
    PROVE  WStep
<1>1. /\ IInv /\ SInv /\ pc \in {"message", "commit"} /\ pc' = "block" /\ originals' = NoSlots
      /\ todo' = todo
      /\ StateRevert \/ StateCommit
  BY WFacts DEF TxFail, TxCommit, Goto
<1>2. SInv' /\ (Commits \/ Reverts)
  BY <1>1, CommitLevels, RevertLevels
<1>3. WorldStep
  BY <1>2, WMoves
<1>4. FlushedOK' /\ TodoOK'
  BY <1>1 DEF FlushedOK, TodoOK, WInv
<1>5. pc' \notin InTx
  BY <1>1 DEF InTx, InMessage
<1> QED BY <1>1, <1>2, <1>3, <1>4, <1>5, OutsideKeeps

(* An account can go without its slots when it has no storage at any level *)
(* of the block: in a transaction, when it was no contract as this began;  *)
(* and when it is empty.                                                   *)
LEMMA Droppable ==
    ASSUME WInv, NEW b \in Address,
           \/ Levels = 3 /\ ~ IsContract(At(2, b))
           \/ ~ IsContract(Current(b))
    PROVE  /\ RootOf(Current(b)) = EmptyTrie
           /\ \A i \in 1..Len(roots), k \in Slot :
                  PreSlot(i, b, k) = slots[<<b, k>>] => slots[<<b, k>>] \in {NotCached, 0}
<1>1. /\ SInv /\ Len(roots) \in Nat /\ Levels = Len(roots) + 1
      /\ \A k \in Slot : EmptyTrie[k] = 0
  BY WFacts DEF EmptyTrie
<1> HIDE DEF IsContract, Levels, RootOf
<1>2. CASE ~ IsContract(Current(b))
  <2>1. RootOf(Current(b)) = EmptyTrie
    BY <1>1, <1>2 DEF SInv, ContractsOK, AccountOK
  <2>2. \A k \in Slot : slots[<<b, k>>] \in {NotCached, 0}
    BY <1>1, <1>2 DEF SInv, SlotsOK, SlotOK
  <2> QED BY <2>1, <2>2
<1>3. CASE Levels = 3 /\ ~ IsContract(At(2, b))
  <2>1. Len(roots) = 2 /\ ~ IsContract(SavedAccount(2, b))
    <3>1. Len(roots) = 2 /\ 2 # Levels
      <4>1. Levels = 3 /\ Levels = Len(roots) + 1 /\ Len(roots) \in Nat
        BY <1>1, <1>3, Zenon
      <4>2. \A n \in Nat : n + 1 = 3 => n = 2 /\ 2 # 3
        OBVIOUS
      <4> QED BY <4>1, <4>2, Zenon
    <3>2. At(2, b) = SavedAccount(2, b)
      BY <3>1 DEF At
    <3> HIDE DEF At
    <3> QED BY <1>3, <3>1, <3>2
  <2>2. 2 \in 1..Len(roots)
    BY <2>1
  <2>3. RootOf(SavedAccount(2, b)) = EmptyTrie
    BY <1>1, <2>1, <2>2 DEF SInv, ContractsOK, AccountOK
  <2>4. RootOf(Current(b)) = EmptyTrie
    BY <1>1, <2>2, <2>3 DEF SInv, SameRoots
  <2>5. ASSUME NEW k \in Slot PROVE PreSlot(1, b, k) \in {NotCached, 0}
    <3>1. 1 \in 0..Len(roots) /\ 1 <= 1
      BY <2>1
    <3>2. PreSlot(1, b, k) \in {NotCached, RootOf(Current(b))[k]}
      BY <1>1, <3>1 DEF SInv, SlotsCoherent
    <3> QED BY <1>1, <2>4, <3>2
  <2>6. ASSUME NEW k \in Slot PROVE PreSlot(2, b, k) \in {NotCached, 0}
    BY <1>1, <2>1, <2>2 DEF SInv, SlotsOK, SlotOK
  <2>7. \A i \in 1..Len(roots) : i = 1 \/ i = 2
    BY <2>1
  <2> QED BY <2>4, <2>5, <2>6, <2>7
<1> QED BY <1>2, <1>3

(* A deletion of what can go, and a read.                                  *)
LEMMA DropWorld ==
    ASSUME WInv, TyInv', NEW b \in Address,
           \/ /\ StateDelete(b)
              /\ \/ Levels = 3 /\ ~ IsContract(At(2, b))
                 \/ ~ IsContract(Current(b))
           \/ GetAccount(b) /\ UNCHANGED storageVars
    PROVE  SInv' /\ WorldStep /\ Levels' = Levels /\ (Levels >= 3 => TxKept)
<1>1. IInv /\ SInv /\ Len(roots) \in Nat /\ Levels \in Nat
  BY WFacts
<1>2. /\ SInv' /\ roots' = roots /\ CurrentKept(Address \ {b})
      /\ SavedKept(Len(roots)) /\ SlotsKept(Len(roots)) /\ StorageKept(Address \ {b})
  <2>1. CASE GetAccount(b) /\ UNCHANGED storageVars
    BY <1>1, <2>1, ReadState DEF CurrentKept, StorageKept
  <2>2. CASE ~ (GetAccount(b) /\ UNCHANGED storageVars)
    <3> HIDE DEF IsContract, RootOf, Levels
    <3>1. /\ RootOf(Current(b)) = EmptyTrie
          /\ \A i \in 1..Len(roots), k \in Slot :
                 PreSlot(i, b, k) = slots[<<b, k>>] => slots[<<b, k>>] \in {NotCached, 0}
      BY <2>2, Droppable
    <3>2. StateDelete(b)
      BY <2>2
    <3> QED BY <1>1, <3>1, <3>2, DeleteState
  <2> QED BY <2>1, <2>2
<1>3. Writes(Address \ {b})
  <2>1. Address \ {b} \in SUBSET Address
    OBVIOUS
  <2> QED BY <1>1, <1>2, <2>1, WriteLevels
<1>4. Levels >= 3 => TxKept
  BY <1>1, <1>3, ShiftFacts
<1> QED BY <1>2, <1>3, <1>4, WMoves DEF Writes

(* The steps of a transaction but its messages.                            *)
LEMMA TxWorld ==
    ASSUME WInv, TyInv',
           \/ RunTx \/ Destroy \/ DestroyEnd \/ Cleanup \/ CleanupEnd
           \/ \E value \in {0, 1} : PayMiner(value)
    PROVE  WStep
<1>1. /\ Depths /\ Levels \in Nat /\ todo \subseteq Address /\ pc \in Labels
      /\ OriginalsOK /\ TodoOK
  BY WFacts DEF WInv
<1>2. Depths'
  BY DepthsStay
<1> HIDE DEF Levels, IsContract
<1>3. ASSUME pc' \in {"cleanup", "destroy", "rewarded", "tx"}, originals' = originals,
             SInv', WorldStep, Levels' = Levels, Levels >= 3 => TxKept,
             pc' = "destroy" => todo' \subseteq todo /\ Levels = 3 /\ pc \in {"miner", "destroy"},
             pc' \in {"rewarded", "tx"} => todo' = {}
      PROVE  WStep
  <2>1. TodoOK'
    <3>1. CASE pc' = "destroy"
      <4>1. \A a \in Address : At(2, a)' = At(2, a)
        BY <1>3, <3>1 DEF TxKept, Becomes
      <4>2. \A a \in todo' : ~ IsContract(At(2, a)) /\ a \in Address
        BY <1>1, <1>3, <3>1 DEF TodoOK
      <4>3. \A a \in todo' : ~ IsContract(At(2, a)')
        BY <4>1, <4>2
      <4> QED BY <3>1, <4>3 DEF TodoOK
    <3>2. CASE pc' # "destroy"
      BY <1>3, <3>2 DEF TodoOK
    <3> QED BY <3>1, <3>2
  <2>2. FlushedOK' /\ pc' \notin InTx /\ pc' # "commit"
    BY <1>3 DEF FlushedOK, InTx, InMessage
  <2> QED BY <1>3, <2>1, <2>2, OutsideKeeps
<1>4. CASE RunTx
  <2>1. pc = "block" /\ pc' = "cleanup" /\ originals' = originals /\ UNCHANGED stateVars
    BY <1>4 DEF RunTx, Goto, evmVars
  <2> QED BY <1>3, <2>1, QuietInTx
<1>5. CASE DestroyEnd
  <2>1. pc = "destroy" /\ pc' = "cleanup" /\ originals' = originals /\ UNCHANGED stateVars
    BY <1>5 DEF DestroyEnd, Goto, evmVars
  <2> QED BY <1>3, <2>1, QuietInTx
<1>6. CASE Destroy
  <2>1. PICK b \in todo : StateDelete(b) /\ todo' = todo \ {b}
    BY <1>6 DEF Destroy
  <2>2. pc = "destroy" /\ pc' = "destroy" /\ originals' = originals
    BY <1>6 DEF Destroy
  <2>3. b \in Address /\ Levels = 3 /\ ~ IsContract(At(2, b))
    BY <1>1, <2>2 DEF TodoOK, Depths
  <2>4. SInv' /\ WorldStep /\ Levels' = Levels /\ (Levels >= 3 => TxKept)
    BY <2>1, <2>3, DropWorld
  <2> QED BY <1>3, <2>1, <2>2, <2>3, <2>4
<1>7. CASE Cleanup
  <2>1. PICK b \in todo : \/ IsEmpty(b) /\ StateDelete(b)
                          \/ GetAccount(b) /\ UNCHANGED storageVars
    BY <1>7 DEF Cleanup
  <2>2. pc = "cleanup" /\ pc' = "cleanup" /\ originals' = originals /\ b \in Address
    BY <1>1, <1>7 DEF Cleanup, evmVars
  <2>3. IsEmpty(b) => ~ IsContract(Current(b))
    BY DEF IsEmpty, AccountOrNew, IsContract
  <2>4. SInv' /\ WorldStep /\ Levels' = Levels /\ (Levels >= 3 => TxKept)
    BY <2>1, <2>2, <2>3, DropWorld
  <2> QED BY <1>3, <2>2, <2>4
<1>8. CASE CleanupEnd
  <2>1. /\ pc = "cleanup" /\ todo' = {} /\ pc' = ret /\ UNCHANGED stateVars
        /\ originals' = (IF ret = "commit" THEN NoSlots ELSE originals)
    BY <1>8 DEF CleanupEnd, Goto
  <2>2. /\ SInv' /\ WorldStep /\ Levels' = Levels /\ (Levels >= 3 => TxKept)
    BY <2>1, QuietInTx
  <2>3. ret \in {"rewarded", "tx", "commit"}
    BY <2>1, WFacts, TyFacts
  <2>4. CASE ret = "commit"
    <3>1. TodoOK' /\ FlushedOK' /\ pc' \notin InTx
      BY <2>1, <2>4 DEF TodoOK, FlushedOK, InTx, InMessage
    <3> QED BY <2>1, <2>2, <2>4, <3>1, OutsideKeeps
  <2>5. CASE ret # "commit"
    BY <1>3, <2>1, <2>2, <2>3, <2>5
  <2> QED BY <2>4, <2>5
<1>9. ASSUME NEW value \in {0, 1}, PayMiner(value) PROVE WStep
  <2> PICK b \in Address : b = Miner
    BY EVMAssumption
  <2> DEFINE v == Paid(b, value)
  <2>1. /\ pc = "miner" /\ pc' = "destroy" /\ originals' = originals /\ todo' = todo
        /\ StatePut(b, v)
    BY <1>9 DEF PayMiner, Goto
  <2>2. Levels = 3
    BY <1>1, <2>1 DEF Depths
  <2> HIDE DEF RootOf
  <2>3. v \in Account /\ RootOf(v) = RootOf(Current(b)) /\ (IsContract(Current(b)) => IsContract(v))
    BY <2>1, PaidFacts
  <2> HIDE DEF v
  <2>4. SInv' /\ WorldStep /\ Levels' = Levels /\ (Levels >= 3 => TxKept)
    BY <2>1, <2>3, PutInTx
  <2> QED BY <1>3, <2>1, <2>2, <2>4
<1> QED BY <1>4, <1>5, <1>6, <1>7, <1>8, <1>9

-----------------------------------------------------------------------------
(* The theorems. *)

(* Every step keeps the invariant and is one of the stack of checkpoints,  *)
(* or none.                                                                *)
LEMMA WorldSteps ==
    ASSUME Settled, WInv, [Next]_vars
    PROVE  WInv' /\ WorldStep
<1>1. TyInv'
  BY TypesStep DEF WInv
<1>2. CASE UNCHANGED vars
  <2>1. UNCHANGED stateVars
    BY <1>2 DEF vars
  <2>2. SInv' /\ WorldStep
    BY <1>1, <2>1, QuietInTx
  <2>3. /\ UNCHANGED <<cache, diffCache, trie, roots, slots, slotDiff, storageTries>>
        /\ UNCHANGED <<originals, frames, pc, ret, todo>>
    BY <1>2 DEF vars, stateVars, cacheVars, storageVars, evmVars, controlVars
  <2>4. /\ Levels' = Levels
        /\ \A i, a : At(i, a)' = At(i, a)
        /\ \A i, a, k : SlotAt(i, a, k)' = SlotAt(i, a, k)
    BY <2>3 DEF Levels, At, SlotAt, Current, SavedAccount, StorageOf, StorageTrie, SavedSlot
  <2>5. FlushedOK' /\ MonotoneOK' /\ RunnersOK' /\ CreatedOK' /\ TodoOK' /\ OriginalsOK'
    <3> HIDE DEF Levels, At, SlotAt, IsContract
    <3>1. FlushedOK' /\ MonotoneOK' /\ TodoOK'
      BY <2>3, <2>4 DEF WInv, FlushedOK, MonotoneOK, TodoOK, NoDiff, NoSlotDiff, AllSlots
    <3>2. RunnersOK' /\ CreatedOK'
      BY <2>3, <2>4 DEF WInv, RunnersOK, CreatedOK
    <3>3. OriginalsOK'
      BY <2>3, <2>4 DEF WInv, OriginalsOK, NoSlots, AllSlots
    <3> QED BY <3>1, <3>2, <3>3
  <2> QED BY <1>1, <2>2, <2>5 DEF WInv
<1>3. CASE Next
  <2>1. ASSUME \/ RunBlock \/ BlockCheckpoint \/ BlockCommit \/ BlockRevert
               \/ FlushSlots \/ FlushEnd
               \/ \E a \in Withdrawers, value \in {0, 1} : Reward(a, value)
        PROVE  WStep
    BY <1>1, <2>1, BlockWorld
  <2>2. ASSUME \/ RunTx \/ Destroy \/ DestroyEnd \/ Cleanup \/ CleanupEnd
               \/ \E value \in {0, 1} : PayMiner(value)
        PROVE  WStep
    BY <1>1, <2>2, TxWorld
  <2>3. ASSUME TxCheckpoint \/ TxFail \/ TxCommit PROVE WStep
    BY <1>1, <2>3, BeginWorld, EndWorld
  <2>4. ASSUME Enter \/ ExecuteCreate \/ Return \/ Throw PROVE WStep
    BY <1>1, <2>4, EnterWorld, CreateWorld, LeaveWorld
  <2>5. ASSUME NEW value \in {0, 1}, ExecuteCall(value) PROVE WStep
    BY <1>1, <2>5, CallWorld
  <2>6. ASSUME NEW a \in Address, NEW value \in {0, 1}, SelfDestruct(a, value) PROVE WStep
    BY <1>1, <2>6, SelfDestructWorld
  <2>7. ASSUME NEW a \in Address, NEW kind \in {"call", "create"}, Message(a, kind) PROVE WStep
    BY <1>1, <2>7, MessageWorld
  <2>8. ASSUME NEW ok \in BOOLEAN, Stop(ok) PROVE WStep
    BY <1>1, <2>8, StopWorld
  <2>9. ASSUME NEW k \in Slot, NEW v \in Value, SStore(k, v) \/ TStore(k, v) PROVE WStep
    BY <1>1, <2>9, SlotWorld
  <2>10. ASSUME NEW k \in Slot, SLoad(k) PROVE WStep
    BY <1>1, <2>10, SlotWorld, StateAssumption
  <2>11. WStep
    BY <1>3, <2>1, <2>2, <2>3, <2>4, <2>5, <2>6, <2>7, <2>8, <2>9, <2>10 DEF Next
  <2> QED BY <1>1, <2>11 DEF WStep, WInv
<1> QED BY <1>2, <1>3

(* At first nothing is changed and nothing runs.                           *)
LEMMA WorldBegins ==
    ASSUME Settled, Init
    PROVE  WInv /\ Worlds!Init
<1>1. /\ StateInit /\ trie = Genesis /\ originals = NoSlots /\ frames = <<>> /\ pc = "idle"
      /\ ret = "idle" /\ todo = {}
  BY DEF Init
<1>2. IInv /\ SInv
  BY <1>1, StateBegins DEF Settled
<1>3. TyInv
  BY TypesInit
<1>4. Depths /\ Levels = 1
  BY <1>1, <1>3, DepthFacts DEF Depths
<1>5. FlushedOK
  BY <1>1 DEF FlushedOK, StateInit, CacheInit
<1> HIDE DEF Levels, IsContract
<1>6. MonotoneOK /\ RunnersOK /\ CreatedOK /\ TodoOK
  <2>1. 1..Len(frames) = {}
    BY <1>1
  <2>2. MonotoneOK /\ TodoOK
    BY <1>1 DEF MonotoneOK, TodoOK, InTx, InMessage
  <2> QED BY <2>1, <2>2 DEF RunnersOK, CreatedOK
<1>7. OriginalsOK
  BY <1>1, <1>4 DEF OriginalsOK, InTx, InMessage
<1>8. Worlds!Init
  <2>1. LevelsShow
    BY <1>2, <1>3, LevelsView DEF TyInv
  <2>2. SavedWorld = <<>>
    <3>1. \A f : f = [i \in 1..0 |-> f[i]] => f = <<>>
      OBVIOUS
    <3>2. SavedWorld = [i \in 1..0 |-> SavedWorld[i]]
      BY <1>4, <2>1 DEF LevelsShow
    <3> QED BY <3>1, <3>2
  <2> QED BY <2>1, <2>2 DEF Worlds!Init, LevelsShow
<1> QED BY <1>2, <1>3, <1>5, <1>6, <1>7, <1>8 DEF WInv

(* What the invariant says of the properties of the runs.                  *)
LEMMA WorldShows ==
    ASSUME WInv
    PROVE  RootIsWorld /\ OriginalIsTxStart /\ StorageGoneWithAccount
<1>1. IInv /\ SInv /\ Levels = Len(roots) + 1 /\ Len(roots) \in Nat
  BY WFacts
<1>2. RootIsWorld
  BY <1>1, RootWorld
<1>3. OriginalIsTxStart
  <2> SUFFICES ASSUME CheckpointCount > 1, NEW a \in Address, NEW k \in Slot
               PROVE  originals[<<a, k>>] \in {NotCached, SavedSlot(2, a, k)}
    BY DEF OriginalIsTxStart
  <2>1. Levels > 2 /\ 2 # Levels
    BY <1>1 DEF CheckpointCount
  <2>2. SlotAt(2, a, k) = SavedSlot(2, a, k)
    BY <2>1 DEF SlotAt
  <2> HIDE DEF Levels, SlotAt
  <2> QED BY <2>1, <2>2 DEF WInv, OriginalsOK
<1>4. StorageGoneWithAccount
  BY <1>1, TrieGone DEF StorageGoneWithAccount
<1> QED BY <1>2, <1>3, <1>4

(* The state, the checkpoints, what runs, what is deleted and the original *)
(* values fit together in every state of the EVM.                          *)
THEOREM WorldInductive ==
    ASSUME Settled
    PROVE  Spec => []WInv
<1>1. Init => WInv
  BY WorldBegins
<1>2. WInv /\ [Next]_vars => WInv'
  BY WorldSteps
<1> QED BY <1>1, <1>2, PTL DEF Spec

(* The root that a block is given commits to the accounts and the storage  *)
(* that getAccount and getStorage return: the cached slots that deletions  *)
(* and creations dropped without a diff entry, and the storage tries left  *)
(* open, do not show.                                                      *)
THEOREM RootOfWorld ==
    ASSUME Settled
    PROVE  Spec => []RootIsWorld
<1>1. WInv => RootIsWorld
  BY WorldShows
<1> QED BY <1>1, WorldInductive, PTL

(* The original value SSTORE is charged by is the one the slot had when    *)
(* the transaction began, whatever wrote it, failed, created or deleted    *)
(* the contract since.                                                     *)
THEOREM OriginalsKept ==
    ASSUME Settled
    PROVE  Spec => []OriginalIsTxStart
<1>1. WInv => OriginalIsTxStart
  BY WorldShows
<1> QED BY <1>1, WorldInductive, PTL

(* With EIP-6780 a contract that is deleted takes its storage with it: an  *)
(* account that is no contract has none.  Without it this fails.           *)
THEOREM StorageGone ==
    ASSUME Settled
    PROVE  Spec => []StorageGoneWithAccount
<1>1. WInv => StorageGoneWithAccount
  BY WorldShows
<1> QED BY <1>1, WorldInductive, PTL

(* The accounts with their storage, under all that blocks, transactions    *)
(* and contracts do, implement the stack of checkpoints: a revert restores *)
(* exactly what getAccount and getStorage returned when its checkpoint was *)
(* made, and no write reaches what is saved.                               *)
THEOREM WorldRollback ==
    ASSUME Settled
    PROVE  Spec => WorldCheckpoints
<1>1. Init => Worlds!Init
  BY WorldBegins
<1>2. WInv /\ [Next]_vars => [Worlds!Next]_(Worlds!vars)
  BY WorldSteps DEF WorldStep
<1> QED BY <1>1, <1>2, WorldInductive, PTL DEF Spec, WorldCheckpoints, Worlds!Spec

=============================================================================
