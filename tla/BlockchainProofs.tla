--------------------------- MODULE BlockchainProofs ---------------------------
(***************************************************************************)
(* Proofs about Blockchain for every block tree, every set of iterators    *)
(* and both fork choices; those of the index as long as consensus never    *)
(* rejects a block after it was stored, and then without that assumption.  *)
(*                                                                         *)
(* Then about VMExecution on top of it, for every tree, every set of       *)
(* blocks that fail and every number of calls: its lock, its shutdown and  *)
(* the vm head.                                                            *)
(***************************************************************************)
EXTENDS VMHeadHistory, WellFoundedInduction, TLAPS

(* The facts about the block tree the proofs use, one block at a time.     *)
LEMMA PathFacts ==
    ASSUME NEW b \in Blocks
    PROVE  /\ Number[b] \in Nat
           /\ Number[b] = 0 <=> b = Genesis
           /\ Path[b] \in [0 .. Number[b] -> Blocks]
           /\ Path[b][Number[b]] = b
           /\ Path[b][0] = Genesis
           /\ \A n \in 0 .. Number[b] :
                /\ Path[b][n] \in Blocks
                /\ Number[Path[b][n]] = n
                /\ Path[Path[b][n]] \in [0 .. n -> Blocks]
                /\ \A m \in 0 .. n : Path[Path[b][n]][m] = Path[b][m]
<1>1. /\ Number[b] \in Nat
      /\ Number[b] = 0 <=> b = Genesis
      /\ Path[b] \in [0 .. Number[b] -> Blocks]
      /\ Path[b][Number[b]] = b
      /\ \A n \in 0 .. Number[b] :
            /\ Number[Path[b][n]] = n
            /\ \A m \in 0 .. n : Path[Path[b][n]][m] = Path[b][m]
  BY BlockTreeAssumption
<1>2. \A n \in 0 .. Number[b] : Path[b][n] \in Blocks
  BY <1>1
<1>3. \A n \in 0 .. Number[b] : Path[Path[b][n]] \in [0 .. n -> Blocks]
  BY <1>1, <1>2, BlockTreeAssumption
<1>4. Path[b][0] = Genesis
  <2>1. 0 \in 0 .. Number[b] /\ Path[b][0] \in Blocks /\ Number[Path[b][0]] = 0
    BY <1>1, <1>2
  <2> QED BY <2>1, BlockTreeAssumption
<1> QED BY <1>1, <1>2, <1>3, <1>4

(* Two ancestries that share the block at number m agree below it.         *)
LEMMA SharedBelow ==
    ASSUME NEW a \in Blocks, NEW b \in Blocks,
           NEW m \in 0 .. Number[a], m <= Number[b], Path[a][m] = Path[b][m],
           NEW n \in 0 .. m
    PROVE  Path[a][n] = Path[b][n]
<1>1. m \in 0 .. Number[b] /\ m \in Nat
  BY PathFacts
<1>2. Path[Path[a][m]][n] = Path[a][n]
  BY PathFacts
<1>3. Path[Path[b][m]][n] = Path[b][n]
  BY <1>1, PathFacts
<1> QED BY <1>2, <1>3

(* A block is on the ancestry of b exactly when it is b's ancestor.        *)
LEMMA IndexedInPath ==
    ASSUME NEW b \in Blocks, NEW n \in 0 .. Number[b]
    PROVE  Indexed(Path[b][n], Path[b])
BY PathFacts DEF Indexed

(* The inductive invariant: the types, the index, the heads and the saved   *)
(* pointers a restart would load. The head properties need the index to be  *)
(* an ancestry, the index needs the head header to be the one that is       *)
(* saved, or a restart would break it.                                      *)
IInv == TypeOK /\ CanonicalIndex /\ HeadsCanonical /\ CrashLosesNothing

HeadsStored == \A name \in Names : disk.heads[name] \in Stored \cup {NoBlock}

(* What is left of it when a caller of setIteratorHead sets a head to a     *)
(* block that has been stored but need not be canonical any more.           *)
StoreInv == TypeOK /\ CanonicalIndex /\ CrashLosesNothing /\ HeadsStored

(* A canonical block is a stored one.                                       *)
LEMMA StoreInvHolds == IInv => StoreInv
<1> SUFFICES ASSUME IInv, NEW name \in Names, disk.heads[name] # NoBlock
             PROVE  disk.heads[name] \in Stored
  BY DEF IInv, StoreInv, HeadsStored
<1>1. OnChain(disk.heads[name])
  BY DEF IInv, HeadsCanonical
<1> QED BY <1>1 DEF OnChain, Indexed, IInv, TypeOK

(* A new block that becomes canonical has an ancestor on the chain above    *)
(* which everything is stored.                                              *)
LEMMA CommonAncestor ==
    ASSUME TypeOK, CanonicalIndex, NEW b \in Blocks, HasCommonAncestor(b)
    PROVE  \E k \in 0 .. Number[b] :
                /\ k \in DOMAIN index
                /\ index[k] = Path[b][k]
                /\ \A n \in k .. Number[b] - 1 : Path[b][n] \in Stored
<1>1. headHeader \in Blocks /\ index = Path[headHeader]
  BY DEF TypeOK, CanonicalIndex
<1>2. /\ Number[headHeader] \in Nat
      /\ DOMAIN index = 0 .. Number[headHeader]
      /\ index[Number[headHeader]] = headHeader
  BY <1>1, PathFacts
<1>3. PICK k \in 0 .. Number[headHeader] :
        /\ k <= Number[b]
        /\ (IF k = Number[headHeader] THEN headHeader ELSE index[k]) = Path[b][k]
        /\ \A n \in k .. Number[b] - 1 : Path[b][n] \in Stored
  BY DEF HasCommonAncestor
<1>4. index[k] = Path[b][k] /\ k \in DOMAIN index /\ k \in 0 .. Number[b]
  BY <1>2, <1>3, PathFacts
<1> QED BY <1>3, <1>4

(* createDeleteCanonicalChainOps and createRebuildCanonicalOps together     *)
(* turn the index into the ancestry of the new block.                       *)
LEMMA ReorgIndex ==
    ASSUME TypeOK, CanonicalIndex, NEW b \in Blocks, HasCommonAncestor(b)
    PROVE  /\ IndexWith(b) = Path[b]
           /\ \A n \in 0 .. Number[b] :
                n \notin RebuiltBy(b) => n \in DOMAIN index /\ index[n] = Path[b][n]
           /\ \A n \in 0 .. Number[b] : Path[b][n] \in Stored \cup {b}
<1> DEFINE h == Number[headHeader]
           N == Number[b]
<1>1. headHeader \in Blocks /\ index = Path[headHeader]
  BY DEF TypeOK, CanonicalIndex
<1>2. /\ h \in Nat /\ N \in Nat
      /\ DOMAIN index = 0 .. h
      /\ DOMAIN Path[b] = 0 .. N
      /\ index[0] = Genesis /\ Path[b][0] = Genesis
      /\ Path[b][N] = b
  BY <1>1, PathFacts
<1>3. PICK k \in 0 .. N :
            /\ k \in DOMAIN index
            /\ index[k] = Path[b][k]
            /\ \A n \in k .. N - 1 : Path[b][n] \in Stored
  BY CommonAncestor
<1>4. \A m \in 0 .. N : m \in DOMAIN index /\ index[m] = Path[b][m]
        => \A n \in 0 .. m : index[n] = Path[b][n]
  BY <1>1, <1>2, SharedBelow
<1>5. \A n \in 0 .. N : n \notin RebuiltBy(b)
        => n \in DOMAIN index /\ index[n] = Path[b][n]
  <2> SUFFICES ASSUME NEW n \in 0 .. N, n \notin RebuiltBy(b)
               PROVE  n \in DOMAIN index /\ index[n] = Path[b][n]
    OBVIOUS
  <2>1. CASE n = 0
    BY <2>1, <1>2
  <2>2. CASE n # 0
    <3>1. \/ \E m \in n .. N : m \in DOMAIN index /\ index[m] = Path[b][m]
          \/ \E m \in n .. N - 1 : Path[b][m] \notin Stored
      BY <2>2, <1>2 DEF RebuiltBy
    <3>2. \E m \in n .. N : m \in DOMAIN index /\ index[m] = Path[b][m]
      BY <3>1, <1>2, <1>3
    <3> QED BY <3>2, <1>2, <1>4
  <2> QED BY <2>1, <2>2
<1>6. DeletedFrom(N + 1) = {n \in 0 .. h : n > N}
  BY <1>2 DEF DeletedFrom
<1>7. (DOMAIN index \ DeletedFrom(N + 1)) \cup RebuiltBy(b) = 0 .. N
  <2>1. RebuiltBy(b) \subseteq 0 .. N
    BY <1>2 DEF RebuiltBy
  <2> QED BY <2>1, <1>2, <1>5, <1>6
<1>8. IndexWith(b) = Path[b]
  <2>1. IndexWith(b) = [n \in 0 .. N |->
            IF n \in RebuiltBy(b) THEN Path[b][n] ELSE index[n]]
    BY <1>7 DEF IndexWith
  <2>2. \A n \in 0 .. N :
            (IF n \in RebuiltBy(b) THEN Path[b][n] ELSE index[n]) = Path[b][n]
    BY <1>5
  <2>3. Path[b] = [n \in 0 .. N |-> Path[b][n]]
    BY PathFacts
  <2> QED BY <2>1, <2>2, <2>3
<1>9. \A n \in 0 .. N : Path[b][n] \in Stored \cup {b}
  <2> SUFFICES ASSUME NEW n \in 0 .. N
               PROVE  Path[b][n] \in Stored \cup {b}
    OBVIOUS
  <2>1. CASE n = N
    BY <2>1, <1>2
  <2>2. CASE n # N /\ n >= k
    BY <2>2, <1>2, <1>3
  <2>3. CASE n < k
    <3>1. index[n] = Path[b][n] /\ n \in DOMAIN index
      BY <2>3, <1>2, <1>3, <1>4
    <3> QED BY <3>1 DEF TypeOK
  <2> QED BY <2>1, <2>2, <2>3, <1>2
<1> QED BY <1>5, <1>8, <1>9

(* The rebuild of a block that has an ancestor on the chain stops at an     *)
(* ancestor that is still canonical, and writes every number above it.      *)
LEMMA RebuildMeets ==
    ASSUME TypeOK, CanonicalIndex, NEW b \in Blocks, HasCommonAncestor(b)
    PROVE  /\ RebuildEnd(b) \in 0 .. Number[b]
           /\ RebuildEnd(b) \notin RebuiltBy(b)
           /\ RebuildEnd(b) + 1 .. Number[b] \subseteq RebuiltBy(b)
           /\ RebuildComplete(b)
<1> DEFINE N == Number[b]
           walked == RebuiltBy(b)
           Stop(k) == k \notin walked /\ k + 1 .. N \subseteq walked
           meet == CHOOSE k \in 0 .. N : Stop(k)
           left == {j \in Nat : j <= N /\ N - j \notin walked}
<1>1. N \in Nat /\ walked \subseteq 1 .. N
  BY PathFacts DEF RebuiltBy
<1>2. \E k \in 0 .. N : Stop(k)
  <2>1. left \subseteq Nat /\ left # {}
    <3>1. N \in left
      BY <1>1
    <3> QED BY <3>1
  <2>2. PICK j \in left : \A i \in left : ~(<<i, j>> \in OpToRel(<, Nat))
    <3> HIDE DEF left
    <3> QED BY <2>1, NatLessThanWellFounded, WFMin
  <2>3. \A i \in left : j <= i
    <3>1. OpToRel(<, Nat) = {r \in Nat \X Nat : r[1] < r[2]}
      BY DEF OpToRel
    <3>2. \A i \in left : i \in Nat /\ j \in Nat /\ ~(i < j)
      BY <2>1, <2>2, <3>1
    <3> QED BY <3>2
  <2>4. N - j \in 0 .. N /\ N - j \notin walked
    BY <1>1
  <2>5. \A k \in N - j + 1 .. N : k \in walked
    <3> SUFFICES ASSUME NEW k \in N - j + 1 .. N, k \notin walked
                 PROVE  FALSE
      OBVIOUS
    <3>1. N - k \in left /\ N - k < j
      BY <1>1, <2>1
    <3> QED BY <3>1, <2>1, <2>3
  <2> QED BY <2>4, <2>5
<1>3. meet \in 0 .. N /\ meet \notin walked /\ meet + 1 .. N \subseteq walked
  BY <1>2
<1>4. Path[b][meet] \in Stored \cup {b}
  BY <1>3, ReorgIndex
<1>5. RebuildEnd(b) = meet
  BY <1>4 DEF RebuildEnd
<1>6. meet \in DOMAIN index /\ index[meet] = Path[b][meet]
  BY <1>3, ReorgIndex
<1>7. RebuildComplete(b)
  BY <1>5, <1>6 DEF RebuildComplete
<1> QED BY <1>3, <1>5, <1>7

(* Where a reorg to b leaves a pointer to a canonical block: on the new     *)
(* chain; at the same block if that is still canonical, lower otherwise.    *)
LEMMA ReorgHead ==
    ASSUME TypeOK, CanonicalIndex, NEW b \in Blocks, HasCommonAncestor(b),
           NEW p \in Blocks, OnChain(p)
    PROVE  /\ HeadAfter(p, b) \in Blocks
           /\ Indexed(HeadAfter(p, b), Path[b])
           /\ Indexed(p, Path[b]) => HeadAfter(p, b) = p
           /\ ~Indexed(p, Path[b]) => Number[HeadAfter(p, b)] < Number[p]
<1> DEFINE N == Number[b]
           np == Number[p]
           meet == RebuildEnd(b)
<1>1. /\ N \in Nat /\ np \in Nat
      /\ np \in DOMAIN index /\ index[np] = p
      /\ Path[b][N] = b /\ DOMAIN Path[b] = 0 .. N
      /\ \A n \in 0 .. N : Path[b][n] \in Blocks /\ Number[Path[b][n]] = n
  BY PathFacts DEF OnChain, Indexed
<1>2. /\ Number[headHeader] \in Nat
      /\ DOMAIN index = 0 .. Number[headHeader]
      /\ \A n \in DOMAIN index : Number[index[n]] = n
  <2>1. headHeader \in Blocks /\ index = Path[headHeader]
    BY DEF TypeOK, CanonicalIndex
  <2> QED BY <2>1, PathFacts
<1>3. DeletedFrom(N + 1) = {n \in DOMAIN index : n > N}
  BY <1>1, <1>2 DEF DeletedFrom
<1>4. /\ meet \in 0 .. N /\ meet \notin RebuiltBy(b)
      /\ meet + 1 .. N \subseteq RebuiltBy(b)
      /\ RebuildComplete(b)
  BY RebuildMeets
<1>5. \A n \in RebuiltBy(b) :
        n \in 1 .. N /\ ~(n \in DOMAIN index /\ index[n] = Path[b][n])
  BY <1>1 DEF RebuiltBy
<1>6. RebuiltBy(b) = meet + 1 .. N
  <2>1. meet \in DOMAIN index /\ index[meet] = Path[b][meet]
    BY <1>4, ReorgIndex
  <2>2. ASSUME NEW n \in RebuiltBy(b)
        PROVE  n \in meet + 1 .. N
    <3>1. n \in 1 .. N
      BY <1>5
    <3>2. \A m \in n .. N : ~(m \in DOMAIN index /\ index[m] = Path[b][m])
      BY DEF RebuiltBy
    <3>3. ~(n <= meet)
      BY <1>1, <1>4, <2>1, <3>1, <3>2
    <3> QED BY <1>1, <1>4, <3>1, <3>3
  <2> QED BY <1>4, <2>2
<1>7. CASE np > N
  <2>1. AfterDelete(p, b) = b
    BY <1>7, <1>1, <1>3 DEF AfterDelete, Redirect
  <2>2. ~ \E n \in Stale(b) : index[n] = b
    BY <1>1, <1>2, <1>5 DEF Stale
  <2>3. HeadAfter(p, b) = b
    BY <1>4, <2>1, <2>2 DEF HeadAfter, Redirect
  <2> QED BY <1>1, <1>7, <2>3 DEF Indexed
<1>8. CASE np <= N
  <2>1. AfterDelete(p, b) = p
    BY <1>8, <1>1, <1>2, <1>3 DEF AfterDelete, Redirect
  <2>2. CASE np \in RebuiltBy(b)
    <3>1. HeadAfter(p, b) = Path[b][meet]
      BY <2>1, <2>2, <1>1, <1>4 DEF HeadAfter, Redirect, Stale
    <3>2. meet < np
      BY <2>2, <1>1, <1>4, <1>6
    <3>3. ~Indexed(p, Path[b])
      BY <2>2, <1>1, <1>5 DEF Indexed
    <3> QED BY <3>1, <3>2, <3>3, <1>1, <1>4 DEF Indexed
  <2>3. CASE np \notin RebuiltBy(b)
    <3>1. p = Path[b][np]
      BY <2>3, <1>1, <1>8, ReorgIndex
    <3>2. HeadAfter(p, b) = p
      BY <2>1, <2>3, <1>1, <1>2, <1>4 DEF HeadAfter, Redirect, Stale
    <3> QED BY <3>1, <3>2, <1>1, <1>8 DEF Indexed
  <2> QED BY <2>2, <2>3
<1> QED BY <1>1, <1>7, <1>8

(* An iterator head that was never set stays unset.                         *)
LEMMA UnsetHead ==
    ASSUME TypeOK, NEW b \in Blocks
    PROVE  HeadAfter(NoBlock, b) = NoBlock
<1>1. \A n \in DOMAIN index : index[n] # NoBlock
  BY BlockchainAssumption DEF TypeOK
<1>2. DeletedFrom(Number[b] + 1) \subseteq DOMAIN index /\ Stale(b) \subseteq DOMAIN index
  BY DEF DeletedFrom, Stale
<1>3. AfterDelete(NoBlock, b) = NoBlock
  BY <1>1, <1>2 DEF AfterDelete, Redirect
<1> QED BY <1>1, <1>2, <1>3 DEF HeadAfter, Redirect

(* What a put stores: b, its total difficulty, and its body if it has one.  *)
LEMMA StoreType ==
    ASSUME TypeOK, NEW b \in Blocks, NEW isBlock \in BOOLEAN,
           Store(b, isBlock)
    PROVE  /\ Stored' = Stored \cup {b}
           /\ Stored' \subseteq Blocks
           /\ td' \in [Stored' -> Nat]
           /\ bodies' \subseteq Stored'
<1>1. TotalDifficulty(b) \in Nat
  BY BlockchainAssumption DEF TypeOK, TotalDifficulty
<1>2. td' = [x \in Stored \cup {b} |-> IF x = b THEN TotalDifficulty(b) ELSE td[x]]
  BY DEF Store
<1>3. Stored' = Stored \cup {b}
  BY <1>2 DEF Stored
<1>4. \A x \in Stored : td[x] \in Nat
  BY DEF TypeOK
<1>5. td' \in [Stored' -> Nat]
  BY <1>1, <1>2, <1>3, <1>4
<1> QED BY <1>3, <1>5 DEF TypeOK, Store

(* A put that makes b canonical, canonical iterator heads or not.           *)
LEMMA PutCanonicalStore ==
    ASSUME StoreInv, NEW b \in Blocks, NEW isBlock \in BOOLEAN,
           PutCanonical(b, isBlock)
    PROVE  StoreInv'
<1> USE DEF StoreInv
<1>1. b # Genesis /\ HasCommonAncestor(b) /\ Store(b, isBlock)
  BY DEF PutCanonical, Accepted
<1>2. /\ Stored' = Stored \cup {b}
      /\ Stored' \subseteq Blocks
      /\ td' \in [Stored' -> Nat]
      /\ bodies' \subseteq Stored'
  BY <1>1, StoreType
<1>3. index' = Path[b] /\ headHeader' = b
  BY <1>1, ReorgIndex DEF PutCanonical
<1>4. /\ DOMAIN index' \subseteq Nat
      /\ index' \in [DOMAIN index' -> Stored']
  <2>1. \A n \in 0 .. Number[b] : Path[b][n] \in Stored'
    BY <1>1, <1>2, ReorgIndex
  <2>2. Path[b] \in [0 .. Number[b] -> Blocks] /\ Number[b] \in Nat
    BY PathFacts
  <2> QED BY <1>3, <2>1, <2>2
<1>5. ASSUME NEW name \in Names
      PROVE  heads'[name] \in Stored' \cup {NoBlock}
  <2>1. heads'[name] = HeadAfter(heads[name], b)
    BY DEF PutCanonical, HeadsAfter
  <2>2. heads'[name] \in {heads[name], b, Path[b][RebuildEnd(b)]}
    BY <2>1 DEF HeadAfter, AfterDelete, Redirect
  <2>3. Path[b][RebuildEnd(b)] \in Stored'
    BY <1>1, <1>2, RebuildMeets, ReorgIndex
  <2>4. heads[name] \in Stored \cup {NoBlock}
    BY DEF TypeOK
  <2> QED BY <2>2, <2>3, <2>4, <1>2
<1>6. heads' \in [Names -> Stored' \cup {NoBlock}]
  BY <1>5 DEF PutCanonical, HeadsAfter
<1>7. headBlock' \in Stored'
  <2>1. Path[b][RebuildEnd(b)] \in Stored'
    BY <1>1, <1>2, RebuildMeets, ReorgIndex
  <2>2. headBlock' \in {headBlock, b, Path[b][RebuildEnd(b)]}
    BY DEF PutCanonical, HeadBlockAfter, AfterDelete, Redirect
  <2> QED BY <2>1, <2>2, <1>2 DEF TypeOK
<1>8. /\ disk' = [heads |-> heads', headHeader |-> headHeader',
                  headBlock |-> headBlock']
      /\ deletedBlocks' = {} /\ it' = it
      /\ emitted' \subseteq Blocks
  <2>1. DeletedBy(Number[b] + 1) \subseteq Blocks
    BY DEF DeletedBy, DeletedFrom, TypeOK
  <2> QED BY <2>1 DEF PutCanonical, SaveHeads, Emit
<1>9. disk' \in Saved
  BY <1>2, <1>3, <1>6, <1>7, <1>8 DEF Saved
<1>10. TypeOK'
  BY <1>2, <1>3, <1>4, <1>6, <1>7, <1>8, <1>9 DEF TypeOK, Calling, Idle
<1>11. CanonicalIndex'
  BY <1>3 DEF CanonicalIndex
<1>12. HeadsStored'
  BY <1>5, <1>8 DEF HeadsStored
<1>13. CrashLosesNothing'
  BY <1>8 DEF CrashLosesNothing
<1> QED BY <1>10, <1>11, <1>12, <1>13

(* A put that leaves the canonical chain alone.                             *)
LEMMA PutSideStore ==
    ASSUME StoreInv, NEW b \in Blocks, NEW isBlock \in BOOLEAN, PutSide(b, isBlock)
    PROVE  StoreInv'
<1> USE DEF StoreInv
<1>1. b # Genesis /\ Store(b, isBlock)
  BY DEF PutSide, Accepted
<1>2. /\ Stored' = Stored \cup {b}
      /\ Stored' \subseteq Blocks
      /\ td' \in [Stored' -> Nat]
      /\ bodies' \subseteq Stored'
  BY <1>1, StoreType
<1>3. /\ index' = index /\ heads' = heads /\ headHeader' = headHeader /\ it' = it
      /\ headBlock' \in {b, headBlock}
      /\ disk' = [heads |-> heads, headHeader |-> headHeader,
                  headBlock |-> headBlock']
      /\ emitted' = deletedBlocks /\ deletedBlocks' = {}
  BY DEF PutSide, HeadBlockBeside, SaveHeads, Emit
<1>4. index \in [DOMAIN index -> Stored'] /\ heads \in [Names -> Stored' \cup {NoBlock}]
  BY <1>2 DEF TypeOK
<1>5. headBlock' \in Stored' /\ headHeader' \in Stored'
  BY <1>2, <1>3 DEF TypeOK
<1>6. disk' \in Saved
  BY <1>2, <1>3, <1>4, <1>5 DEF Saved
<1>7. TypeOK'
  BY <1>2, <1>3, <1>4, <1>5, <1>6 DEF TypeOK, Calling, Idle
<1>8. CanonicalIndex' /\ CrashLosesNothing'
  BY <1>3 DEF CanonicalIndex, CrashLosesNothing
<1>9. HeadsStored'
  BY <1>3, <1>4 DEF HeadsStored
<1> QED BY <1>7, <1>8, <1>9

(* The two methods that reorganise the chain, seen from one pointer p: the  *)
(* new index is the ancestry of a block of the tree, and p is moved onto    *)
(* it, downwards unless p is still canonical.                               *)
LEMMA PutRewinds ==
    ASSUME IInv, NEW b \in Blocks, NEW isBlock \in BOOLEAN,
           PutCanonical(b, isBlock)
    PROVE  /\ index' = Path[b]
           /\ \A name \in Names :
                /\ heads[name] = NoBlock => heads'[name] = NoBlock
                /\ heads[name] # NoBlock =>
                    /\ heads'[name] \in Blocks
                    /\ Indexed(heads'[name], index')
                    /\ Indexed(heads[name], index') => heads'[name] = heads[name]
                    /\ ~Indexed(heads[name], index') =>
                            Number[heads'[name]] < Number[heads[name]]
<1>1. TypeOK /\ CanonicalIndex /\ HeadsCanonical /\ HasCommonAncestor(b)
  BY DEF IInv, PutCanonical
<1>2. index' = Path[b]
  BY <1>1, ReorgIndex DEF PutCanonical
<1>3. ASSUME NEW name \in Names
      PROVE  heads'[name] = HeadAfter(heads[name], b)
  BY DEF PutCanonical, HeadsAfter
<1>4. ASSUME NEW name \in Names, heads[name] # NoBlock
      PROVE  heads[name] \in Blocks /\ OnChain(heads[name])
  BY <1>1, <1>4 DEF TypeOK, HeadsCanonical
<1> QED BY <1>1, <1>2, <1>3, <1>4, UnsetHead, ReorgHead

(* A put that makes b canonical keeps the invariant.                        *)
LEMMA PutCanonicalInv ==
    ASSUME IInv, NEW b \in Blocks, NEW isBlock \in BOOLEAN,
           PutCanonical(b, isBlock)
    PROVE  IInv'
<1>1. StoreInv'
  BY StoreInvHolds, PutCanonicalStore
<1>2. disk'.heads = heads'
  BY DEF PutCanonical, SaveHeads
<1>3. \A name \in Names : heads'[name] # NoBlock => Indexed(heads'[name], index')
  BY PutRewinds
<1> QED BY <1>1, <1>2, <1>3 DEF IInv, StoreInv, HeadsCanonical, OnChain, Indexed

(* So does one that leaves the chain as it is.                              *)
LEMMA PutSideInv ==
    ASSUME IInv, NEW b \in Blocks, NEW isBlock \in BOOLEAN, PutSide(b, isBlock)
    PROVE  IInv'
<1>1. StoreInv'
  BY StoreInvHolds, PutSideStore
<1>2. index' = index /\ heads' = heads /\ disk'.heads = heads
  BY DEF PutSide, SaveHeads
<1> QED BY <1>1, <1>2 DEF IInv, StoreInv, HeadsCanonical, OnChain, Indexed

(* Where a reset to number n leaves a pointer to a canonical block.         *)
LEMMA ResetHead ==
    ASSUME TypeOK, CanonicalIndex, NEW n \in DOMAIN index,
           NEW p \in Blocks, OnChain(p)
    PROVE  LET q == Redirect(p, DeletedFrom(n + 1), index[n])
           IN  /\ q \in Blocks
               /\ Indexed(q, Path[index[n]])
               /\ Indexed(p, Path[index[n]]) => q = p
               /\ ~Indexed(p, Path[index[n]]) => Number[q] < Number[p]
<1> DEFINE q == Redirect(p, DeletedFrom(n + 1), index[n])
<1>1. headHeader \in Blocks /\ index = Path[headHeader]
  BY DEF TypeOK, CanonicalIndex
<1>2. /\ Number[headHeader] \in Nat /\ n \in Nat
      /\ DOMAIN index = 0 .. Number[headHeader]
      /\ \A m \in DOMAIN index : index[m] \in Blocks /\ Number[index[m]] = m
      /\ DOMAIN Path[index[n]] = 0 .. n
      /\ \A m \in 0 .. n : Path[index[n]][m] = index[m]
      /\ Path[index[n]][n] = index[n]
  <2>1. Number[headHeader] \in Nat /\ DOMAIN index = 0 .. Number[headHeader]
    BY <1>1, PathFacts
  <2>2. n \in 0 .. Number[headHeader] /\ n \in Nat
    BY <2>1
  <2>3. \A m \in DOMAIN index : index[m] \in Blocks /\ Number[index[m]] = m
    BY <1>1, <2>1, PathFacts
  <2>4. /\ Path[index[n]] \in [0 .. n -> Blocks]
        /\ \A m \in 0 .. n : Path[index[n]][m] = index[m]
    BY <1>1, <2>2, PathFacts
  <2>5. n \in 0 .. n
    BY <2>2
  <2> QED BY <2>1, <2>2, <2>3, <2>4, <2>5
<1>3. Number[p] \in DOMAIN index /\ index[Number[p]] = p
  BY DEF OnChain, Indexed
<1>4. DeletedFrom(n + 1) = {m \in DOMAIN index : m > n}
  BY <1>2 DEF DeletedFrom
<1>5. CASE Number[p] > n
  <2>1. q = index[n]
    BY <1>3, <1>4, <1>5 DEF Redirect
  <2> QED BY <1>2, <1>5, <2>1 DEF Indexed
<1>6. CASE Number[p] <= n
  <2>1. q = p
    BY <1>2, <1>3, <1>4, <1>6 DEF Redirect
  <2> QED BY <1>2, <1>3, <1>6, <2>1 DEF Indexed
<1> QED BY <1>2, <1>3, <1>5, <1>6

(* resetCanonicalHead leaves the ancestry of the block it resets to.        *)
LEMMA ResetIndex ==
    ASSUME TypeOK, CanonicalIndex, NEW n \in Nat, ResetCanonicalHead(n)
    PROVE  /\ n \in DOMAIN index /\ index[n] \in Blocks /\ index[n] \in Stored
           /\ index' = Path[index[n]]
           /\ headHeader' = index[n]
<1>1. headHeader \in Blocks /\ index = Path[headHeader] /\ n \in DOMAIN index
  BY DEF TypeOK, CanonicalIndex, ResetCanonicalHead
<1>2. /\ Number[headHeader] \in Nat
      /\ DOMAIN index = 0 .. Number[headHeader]
      /\ index[Number[headHeader]] = headHeader
      /\ \A m \in DOMAIN index : index[m] \in Blocks /\ Number[index[m]] = m
      /\ Path[index[n]] \in [0 .. n -> Blocks]
      /\ \A m \in 0 .. n : Path[index[n]][m] = index[m]
  <2>1. /\ Number[headHeader] \in Nat
        /\ DOMAIN index = 0 .. Number[headHeader]
        /\ index[Number[headHeader]] = headHeader
    BY <1>1, PathFacts
  <2>2. \A m \in DOMAIN index : index[m] \in Blocks /\ Number[index[m]] = m
    BY <1>1, <2>1, PathFacts
  <2>3. /\ Path[index[n]] \in [0 .. n -> Blocks]
        /\ \A m \in 0 .. n : Path[index[n]][m] = index[m]
    BY <1>1, <2>1, PathFacts
  <2> QED BY <2>1, <2>2, <2>3
<1>3. DeletedFrom(n + 1) = {m \in DOMAIN index : m > n}
  BY <1>2 DEF DeletedFrom
<1>4. index' = [m \in 0 .. n |-> index[m]]
  BY <1>1, <1>2, <1>3 DEF ResetCanonicalHead
<1>5. index' = Path[index[n]]
  BY <1>2, <1>4
<1>6. headHeader' = index[n]
  BY <1>1, <1>2, <1>3 DEF ResetCanonicalHead, Redirect
<1> QED BY <1>1, <1>2, <1>5, <1>6 DEF TypeOK

(* resetCanonicalHead, canonical iterator heads or not.                     *)
LEMMA ResetStore ==
    ASSUME StoreInv, NEW n \in Nat, ResetCanonicalHead(n)
    PROVE  StoreInv'
<1> USE DEF StoreInv
<1> DEFINE deleted == DeletedFrom(n + 1)
<1>1. /\ n \in DOMAIN index /\ index[n] \in Stored
      /\ index' = Path[index[n]]
      /\ headHeader' = index[n]
  BY ResetIndex
<1>2. /\ td' = td /\ bodies' = bodies /\ it' = it /\ Stored' = Stored
      /\ index' = [m \in DOMAIN index \ deleted |-> index[m]]
      /\ heads' = [name \in Names |-> Redirect(heads[name], deleted, index[n])]
      /\ headBlock' = Redirect(headBlock, deleted, index[n])
      /\ disk' = [heads |-> heads', headHeader |-> headHeader',
                  headBlock |-> headBlock']
      /\ emitted' = DeletedBy(n + 1) /\ deletedBlocks' = {}
  BY DEF ResetCanonicalHead, SaveHeads, Emit, Stored
<1>3. index' \in [DOMAIN index' -> Stored] /\ DOMAIN index' \subseteq Nat
  BY <1>2 DEF TypeOK
<1>4. ASSUME NEW name \in Names
      PROVE  heads'[name] \in Stored \cup {NoBlock}
  BY <1>1, <1>2 DEF Redirect, TypeOK
<1>5. heads' \in [Names -> Stored \cup {NoBlock}]
  BY <1>2, <1>4
<1>6. headBlock' \in Stored /\ headHeader' \in Stored
  BY <1>1, <1>2 DEF Redirect, TypeOK
<1>7. emitted' \subseteq Blocks
  BY <1>2 DEF DeletedBy, DeletedFrom, TypeOK
<1>8. disk' \in Saved
  BY <1>2, <1>5, <1>6 DEF Saved, TypeOK
<1>9. TypeOK'
  BY <1>2, <1>3, <1>5, <1>6, <1>7, <1>8 DEF TypeOK, Calling, Idle
<1>10. CanonicalIndex' /\ CrashLosesNothing' /\ HeadsStored'
  BY <1>1, <1>2, <1>4 DEF CanonicalIndex, CrashLosesNothing, HeadsStored
<1> QED BY <1>9, <1>10

(* resetCanonicalHead moves the iterator heads that were above the new     *)
(* head, and only down.                                                    *)
LEMMA ResetRewinds ==
    ASSUME IInv, NEW n \in Nat, ResetCanonicalHead(n)
    PROVE  /\ index[n] \in Blocks
           /\ index' = Path[index[n]]
           /\ \A name \in Names :
                /\ heads[name] = NoBlock => heads'[name] = NoBlock
                /\ heads[name] # NoBlock =>
                    /\ heads'[name] \in Blocks
                    /\ Indexed(heads'[name], index')
                    /\ Indexed(heads[name], index') => heads'[name] = heads[name]
                    /\ ~Indexed(heads[name], index') =>
                            Number[heads'[name]] < Number[heads[name]]
<1>1. TypeOK /\ CanonicalIndex /\ HeadsCanonical
  BY DEF IInv
<1>2. n \in DOMAIN index /\ index[n] \in Blocks /\ index' = Path[index[n]]
  BY <1>1, ResetIndex
<1>3. ASSUME NEW name \in Names
      PROVE  heads'[name] = Redirect(heads[name], DeletedFrom(n + 1), index[n])
  BY DEF ResetCanonicalHead
<1>4. ASSUME NEW name \in Names, heads[name] = NoBlock
      PROVE  heads'[name] = NoBlock
  <2>1. \A m \in DeletedFrom(n + 1) : index[m] # NoBlock
    BY <1>1, BlockchainAssumption DEF TypeOK, DeletedFrom
  <2> QED BY <1>3, <1>4, <2>1 DEF Redirect
<1>5. ASSUME NEW name \in Names, heads[name] # NoBlock
      PROVE  heads[name] \in Blocks /\ OnChain(heads[name])
  BY <1>1, <1>5 DEF TypeOK, HeadsCanonical
<1> QED BY <1>1, <1>2, <1>3, <1>4, <1>5, ResetHead

(* resetCanonicalHead keeps the invariant. *)
LEMMA ResetInv ==
    ASSUME IInv, NEW n \in Nat, ResetCanonicalHead(n)
    PROVE  IInv'
<1>1. StoreInv'
  BY StoreInvHolds, ResetStore
<1>2. disk'.heads = heads'
  BY DEF ResetCanonicalHead, SaveHeads
<1>3. \A name \in Names : heads'[name] # NoBlock => Indexed(heads'[name], index')
  BY ResetRewinds
<1> QED BY <1>1, <1>2, <1>3 DEF IInv, StoreInv, HeadsCanonical, OnChain, Indexed

(* A step that only moves iterator heads to stored blocks, if the heads of  *)
(* idle iterators are the ones on disk.                                     *)
LEMMA HeadsMove ==
    ASSUME StoreInv,
           UNCHANGED <<td, bodies, index, headHeader, headBlock, deletedBlocks>>,
           emitted' = {},
           heads' \in [Names -> Stored \cup {NoBlock}],
           it' \in [Names -> Calling \cup {Idle}],
           \/ SaveHeads
           \/ /\ disk' = disk
              /\ \A name \in Names : it'[name] = Idle => disk.heads[name] = heads'[name]
    PROVE  StoreInv'
<1> USE DEF StoreInv
<1>1. Stored' = Stored
  BY DEF Stored
<1>2. CASE SaveHeads
  <2>1. disk' = [heads |-> heads', headHeader |-> headHeader, headBlock |-> headBlock]
    BY <1>2 DEF SaveHeads
  <2>2. disk' \in Saved
    BY <2>1 DEF Saved, TypeOK
  <2>3. TypeOK'
    BY <1>1, <2>2 DEF TypeOK, Calling, Idle
  <2>4. HeadsStored'
    BY <1>1, <2>1 DEF HeadsStored
  <2>5. CanonicalIndex' /\ CrashLosesNothing'
    BY <2>1 DEF CanonicalIndex, CrashLosesNothing
  <2> QED BY <2>3, <2>4, <2>5
<1>3. CASE /\ disk' = disk
           /\ \A name \in Names : it'[name] = Idle => disk.heads[name] = heads'[name]
  <2>1. TypeOK'
    BY <1>1, <1>3 DEF TypeOK, Calling, Idle
  <2>2. HeadsStored'
    BY <1>1, <1>3 DEF HeadsStored
  <2>3. CanonicalIndex' /\ CrashLosesNothing'
    BY <1>3 DEF CanonicalIndex, CrashLosesNothing
  <2> QED BY <2>1, <2>2, <2>3
<1> QED BY <1>2, <1>3

(* One turn of the iterator's loop, with heads in which at most the head of *)
(* this iterator has moved.                                                 *)
LEMMA LoopTopStore ==
    ASSUME StoreInv, NEW name \in Names, NEW num \in Nat,
           NEW last \in Blocks \cup {NoBlock}, NEW ran \in Nat,
           NEW hds \in [Names -> Stored \cup {NoBlock}],
           \A x \in Names \ {name} : hds[x] = heads[x],
           LoopTop(name, num, last, ran, hds)
    PROVE  StoreInv'
<1> DEFINE hd == IF hds[name] = NoBlock THEN Genesis ELSE hds[name]
           reorg == last # NoBlock /\ Parent(index[num]) # last
           n == IF reorg THEN Number[hd] + 1 ELSE num
           goes == ran < MaxBlocks /\ Readable(num) /\ Readable(n)
           call == [pc |-> "callback", num |-> n, blk |-> index[n],
                    last |-> last, reorg |-> reorg, ran |-> ran]
<1>1. /\ heads' = hds /\ emitted' = {}
      /\ UNCHANGED <<td, bodies, index, headHeader, headBlock, deletedBlocks>>
      /\ goes => it' = [it EXCEPT ![name] = call] /\ disk' = disk
      /\ ~goes => it' = [it EXCEPT ![name] = Idle] /\ SaveHeads
  BY DEF LoopTop
<1>2. hd \in Blocks /\ n \in Nat
  <2>1. Genesis \in Blocks /\ Stored \subseteq Blocks
    BY BlockTreeAssumption DEF StoreInv, TypeOK
  <2>2. hd \in Blocks
    BY <2>1
  <2>3. Number[hd] \in Nat
    BY <2>2, PathFacts
  <2> QED BY <2>2, <2>3
<1>3. it \in [Names -> Calling \cup {Idle}]
  BY DEF StoreInv, TypeOK
<1>4. CASE goes
  <2>1. call \in Calling
    <3>1. index[n] \in Blocks
      BY <1>4 DEF Readable, StoreInv, TypeOK
    <3> QED BY <3>1, <1>2 DEF Calling
  <2>2. it' \in [Names -> Calling \cup {Idle}]
    BY <1>1, <1>3, <1>4, <2>1
  <2>3. ASSUME NEW x \in Names, it'[x] = Idle
        PROVE  disk.heads[x] = heads'[x]
    <3>1. call # Idle
      <4>1. call.pc = "callback" /\ Idle.pc = "idle"
        BY DEF Idle
      <4> QED BY <4>1
    <3>2. x # name
      BY <1>1, <1>3, <1>4, <2>3, <3>1
    <3>3. it[x] = Idle
      BY <1>1, <1>3, <1>4, <2>3, <3>2
    <3> QED BY <1>1, <3>2, <3>3 DEF StoreInv, CrashLosesNothing
  <2> QED BY <1>1, <1>4, <2>2, <2>3, HeadsMove
<1>5. CASE ~goes
  <2>1. it' \in [Names -> Calling \cup {Idle}]
    BY <1>1, <1>3, <1>5
  <2> QED BY <1>1, <1>5, <2>1, HeadsMove
<1> QED BY <1>4, <1>5

(* The block an iterator was in the callback of when it moves on.           *)
LEMMA FinishedOnChain ==
    ASSUME StoreInv, NEW name \in Names, IteratorAdvance(name)
    PROVE  /\ it[name] \in Calling
           /\ OnChain(it[name].blk)
           /\ it[name].blk \in Stored
<1>1. it[name] \in Calling
  BY DEF StoreInv, TypeOK, IteratorAdvance, Idle
<1> DEFINE num == it[name].num
           blk == it[name].blk
<1>2. num \in DOMAIN index /\ index[num] = blk
  BY DEF IteratorAdvance, ReorgWhileOnBlock, Readable
<1>3. Number[blk] = num
  <2>1. headHeader \in Blocks /\ index = Path[headHeader]
    BY DEF StoreInv, TypeOK, CanonicalIndex
  <2> QED BY <2>1, <1>2, PathFacts
<1> QED BY <1>1, <1>2, <1>3 DEF OnChain, Indexed, StoreInv, TypeOK

(* Each part of a running iterator, canonical iterator heads or not.        *)
LEMMA IterateStore ==
    ASSUME StoreInv, NEW name \in Names, Iterate(name)
    PROVE  StoreInv'
<1>1. /\ heads \in [Names -> Stored \cup {NoBlock}]
      /\ it \in [Names -> Calling \cup {Idle}]
      /\ Stored \subseteq Blocks
  BY DEF StoreInv, TypeOK
<1>2. it[name].pc = "callback" => it[name] \in Calling
  BY <1>1 DEF Idle
<1>3. CASE IteratorStart(name)
  <2>1. HeadOf(name) \in Blocks
    BY <1>1, BlockTreeAssumption DEF HeadOf
  <2>2. Number[HeadOf(name)] + 1 \in Nat
    BY <2>1, PathFacts
  <2> QED BY <1>1, <1>3, <2>2, LoopTopStore DEF IteratorStart
<1>4. CASE IteratorAdvance(name)
  <2> DEFINE num == it[name].num
             blk == it[name].blk
             ran == it[name].ran
             hds == [heads EXCEPT ![name] = blk]
  <2>1. num \in Nat /\ blk \in Blocks /\ ran \in Nat /\ blk \in Stored
    BY <1>4, FinishedOnChain DEF Calling
  <2>2. /\ hds \in [Names -> Stored \cup {NoBlock}]
        /\ \A x \in Names \ {name} : hds[x] = heads[x]
    BY <1>1, <2>1
  <2>3. LoopTop(name, num + 1, blk, ran + 1, hds)
    BY <1>4 DEF IteratorAdvance
  <2>4. num + 1 \in Nat /\ ran + 1 \in Nat
    BY <2>1
  <2> HIDE DEF num, blk, ran, hds
  <2> QED BY <2>1, <2>2, <2>3, <2>4, LoopTopStore
<1>5. CASE IteratorReorged(name)
  <2>1. /\ it[name].num \in Nat /\ it[name].last \in Blocks \cup {NoBlock}
        /\ it[name].ran + 1 \in Nat
    BY <1>2, <1>5 DEF IteratorReorged, Calling
  <2>2. LoopTop(name, it[name].num, it[name].last, it[name].ran + 1, heads)
    BY <1>5 DEF IteratorReorged
  <2> QED BY <1>1, <2>1, <2>2, LoopTopStore
<1>6. CASE IteratorThrow(name)
  BY <1>1, <1>6, HeadsMove DEF IteratorThrow
<1> QED BY <1>3, <1>4, <1>5, <1>6 DEF Iterate

(* It moves no head but its own, and that one to a block it finished.       *)
LEMMA IterateHeads ==
    ASSUME StoreInv, NEW name \in Names, Iterate(name)
    PROVE  /\ UNCHANGED <<td, bodies, index, headHeader, headBlock, deletedBlocks>>
           /\ \/ heads' = heads
              \/ /\ IteratorAdvance(name)
                 /\ heads' = [heads EXCEPT ![name] = it[name].blk]
           /\ \/ disk' = disk
              \/ SaveHeads
BY DEF Iterate, IteratorStart, IteratorAdvance, IteratorReorged, IteratorThrow, LoopTop

(* Each part of a running iterator keeps the invariant. *)
LEMMA IterateInv ==
    ASSUME IInv, NEW name \in Names, Iterate(name)
    PROVE  IInv'
<1>1. StoreInv /\ StoreInv' /\ HeadsCanonical
  BY StoreInvHolds, IterateStore DEF IInv
<1>2. /\ index' = index
      /\ \/ heads' = heads
         \/ /\ IteratorAdvance(name)
            /\ heads' = [heads EXCEPT ![name] = it[name].blk]
      /\ disk' = disk \/ disk'.heads = heads'
  BY <1>1, IterateHeads DEF SaveHeads
<1>3. \A x \in Names : heads'[x] # NoBlock => OnChain(heads'[x])
  <2>1. CASE heads' = heads
    BY <1>1, <2>1 DEF HeadsCanonical
  <2>2. CASE IteratorAdvance(name) /\ heads' = [heads EXCEPT ![name] = it[name].blk]
    <3>1. OnChain(it[name].blk)
      BY <1>1, <2>2, FinishedOnChain
    <3>2. heads \in [Names -> Stored \cup {NoBlock}]
      BY <1>1 DEF StoreInv, TypeOK
    <3> QED BY <1>1, <2>2, <3>1, <3>2 DEF HeadsCanonical
  <2> QED BY <1>2, <2>1, <2>2
<1>4. HeadsCanonical'
  BY <1>1, <1>2, <1>3 DEF HeadsCanonical, OnChain, Indexed
<1> QED BY <1>1, <1>4 DEF IInv, StoreInv

(* So does a restart, which reads the pointers back from disk. *)
LEMMA RestartStore ==
    ASSUME StoreInv, Restart
    PROVE  StoreInv'
<1> USE DEF StoreInv
<1>1. /\ td' = td /\ bodies' = bodies /\ index' = index /\ disk' = disk
      /\ heads' = disk.heads
      /\ headHeader' = headHeader /\ headBlock' = headBlock
      /\ deletedBlocks' = {} /\ emitted' = {}
      /\ it' = [name \in Names |-> Idle]
      /\ Stored' = Stored
  BY DEF Restart, CrashLosesNothing, Stored
<1>2. disk.heads \in [Names -> Blocks \cup {NoBlock}]
  BY DEF TypeOK, Saved
<1>3. heads' \in [Names -> Stored \cup {NoBlock}]
  BY <1>1, <1>2 DEF HeadsStored
<1>4. TypeOK'
  BY <1>1, <1>3 DEF TypeOK
<1>5. CanonicalIndex' /\ CrashLosesNothing' /\ HeadsStored'
  BY <1>1 DEF CanonicalIndex, CrashLosesNothing, HeadsStored
<1> QED BY <1>4, <1>5

LEMMA RestartInv ==
    ASSUME IInv, Restart
    PROVE  IInv'
<1>1. StoreInv'
  BY StoreInvHolds, RestartStore
<1>2. index' = index /\ heads' = disk.heads /\ disk' = disk
  BY DEF Restart
<1> QED BY <1>1, <1>2 DEF IInv, StoreInv, HeadsCanonical, OnChain, Indexed

------------------------------------------------------------------------------

(* createBlockchainManager on an empty database establishes the invariant.  *)
LEMMA InitInv == Init => IInv
<1> SUFFICES ASSUME Init PROVE IInv
  OBVIOUS
<1>1. Genesis \in Blocks /\ Number[Genesis] = 0 /\ Difficulty[Genesis] \in Nat
  BY BlockTreeAssumption, BlockchainAssumption
<1>2. Stored = {Genesis} /\ td \in [{Genesis} -> Nat] /\ bodies = {Genesis}
  BY <1>1 DEF Init, Stored
<1>3. index = [n \in {0} |-> Genesis] /\ index \in [{0} -> {Genesis}]
      /\ DOMAIN index = {0} /\ headHeader = Genesis /\ headBlock = Genesis
  BY DEF Init
<1>4. heads = [name \in Names |-> NoBlock]
      /\ disk = [heads |-> heads, headHeader |-> Genesis, headBlock |-> Genesis]
      /\ deletedBlocks = {} /\ emitted = {}
      /\ it = [name \in Names |-> Idle]
  BY DEF Init
<1>5. disk \in Saved
  BY <1>1, <1>4 DEF Saved
<1>6. TypeOK
  BY <1>1, <1>2, <1>3, <1>4, <1>5 DEF TypeOK
<1>7. index = Path[Genesis]
  <2>1. Path[Genesis] \in [{0} -> Blocks] /\ Path[Genesis][0] = Genesis
    <3>1. Path[Genesis] \in [0 .. 0 -> Blocks] /\ Path[Genesis][0] = Genesis
      BY <1>1, PathFacts
    <3> QED BY <3>1
  <2> QED BY <2>1, <1>3
<1>8. CanonicalIndex /\ HeadsCanonical /\ CrashLosesNothing
  BY <1>3, <1>4, <1>7 DEF CanonicalIndex, HeadsCanonical, CrashLosesNothing
<1> QED BY <1>6, <1>8 DEF IInv

(* The configured genesis put again changes no pointer.                     *)
LEMMA PutGenesisStore ==
    ASSUME StoreInv, PutGenesis
    PROVE  StoreInv'
BY DEF StoreInv, PutGenesis, Emit, TypeOK, Stored, Calling, Idle, Saved,
       CanonicalIndex, CrashLosesNothing, HeadsStored

LEMMA PutGenesisInv ==
    ASSUME IInv, PutGenesis
    PROVE  IInv'
<1>1. StoreInv'
  BY StoreInvHolds, PutGenesisStore
<1> QED BY <1>1 DEF IInv, StoreInv, PutGenesis, HeadsCanonical, OnChain, Indexed

(* setIteratorHead to a stored block, and to a canonical one.               *)
LEMMA SetIteratorHeadStore ==
    ASSUME StoreInv, NEW name \in Names, NEW b \in Stored, SetIteratorHead(name, b)
    PROVE  StoreInv'
<1>1. /\ heads \in [Names -> Stored \cup {NoBlock}]
      /\ it \in [Names -> Calling \cup {Idle}]
  BY DEF StoreInv, TypeOK
<1>2. heads' \in [Names -> Stored \cup {NoBlock}]
  BY <1>1 DEF SetIteratorHead
<1> QED BY <1>1, <1>2, HeadsMove DEF SetIteratorHead

LEMMA SetIteratorHeadInv ==
    ASSUME IInv, NEW name \in Names, NEW b \in Stored, OnChain(b),
           SetIteratorHead(name, b)
    PROVE  IInv'
<1>1. StoreInv'
  BY StoreInvHolds, SetIteratorHeadStore
<1>2. \A x \in Names : heads'[x] # NoBlock => OnChain(heads'[x])
  BY DEF SetIteratorHead, IInv, TypeOK, HeadsCanonical
<1>3. index' = index /\ disk'.heads = heads'
  BY DEF SetIteratorHead, SaveHeads
<1> QED BY <1>1, <1>2, <1>3 DEF IInv, StoreInv, HeadsCanonical, OnChain, Indexed

(* Every step keeps the invariant.                                          *)
LEMMA NextInv ==
    ASSUME ~ConsensusMayThrow, IInv, [Next]_vars
    PROVE  IInv'
<1>1. ASSUME NEW b \in Blocks, PutBlock(b) \/ PutHeader(b)
      PROVE  IInv'
  <2>1. PICK isBlock \in BOOLEAN : PutBlockOrHeader(b, isBlock)
    BY <1>1 DEF PutBlock, PutHeader
  <2> QED BY <2>1, PutCanonicalInv, PutSideInv
          DEF PutBlockOrHeader, PutRejectedByConsensus
<1>2. CASE PutGenesis
  BY <1>2, PutGenesisInv
<1>3. ASSUME NEW n \in ResetTargets, ResetCanonicalHead(n)
      PROVE  IInv'
  BY <1>3, ResetInv, BlockchainAssumption
<1>4. ASSUME NEW name \in Names, NEW b \in Stored, OnChain(b),
             SetIteratorHead(name, b)
      PROVE  IInv'
  BY <1>4, SetIteratorHeadInv
<1>5. ASSUME NEW name \in Names, Iterate(name)
      PROVE  IInv'
  BY <1>5, IterateInv
<1>6. CASE Restart
  BY <1>6, RestartInv
<1>7. CASE UNCHANGED vars
  BY <1>7 DEF vars, IInv, TypeOK, Stored, Calling, Idle, Saved,
              CanonicalIndex, HeadsCanonical, CrashLosesNothing, OnChain, Indexed
<1> QED BY <1>1, <1>2, <1>3, <1>4, <1>5, <1>6, <1>7 DEF Next

(* The inductive invariant holds in every behaviour of the store.           *)
THEOREM Invariance ==
    ASSUME ~ConsensusMayThrow
    PROVE  Spec => []IInv
<1>1. Init => IInv
  BY InitInv
<1>2. IInv /\ [Next]_vars => IInv'
  BY NextInv
<1> QED BY <1>1, <1>2, PTL DEF Spec

(* Type correctness of the store's database and memory.                     *)
THEOREM TypeCorrect ==
    ASSUME ~ConsensusMayThrow
    PROVE  Spec => []TypeOK
<1>1. IInv => TypeOK
  BY DEF IInv
<1> QED BY <1>1, Invariance, PTL

(* NumberToHash is always the complete ancestry of the head header.         *)
THEOREM IndexCanonical ==
    ASSUME ~ConsensusMayThrow
    PROVE  Spec => []CanonicalIndex
<1>1. IInv => CanonicalIndex
  BY DEF IInv
<1> QED BY <1>1, Invariance, PTL

(* No reorg, reset, iteration or restart leaves an iterator head off the    *)
(* canonical chain.                                                         *)
THEOREM IteratorHeadsCanonical ==
    ASSUME ~ConsensusMayThrow
    PROVE  Spec => []HeadsCanonical
<1>1. IInv => HeadsCanonical
  BY DEF IInv
<1> QED BY <1>1, Invariance, PTL

(* The pointers on disk are always those a restart must find.               *)
THEOREM CrashSafe ==
    ASSUME ~ConsensusMayThrow
    PROVE  Spec => []CrashLosesNothing
<1>1. IInv => CrashLosesNothing
  BY DEF IInv
<1> QED BY <1>1, Invariance, PTL

------------------------------------------------------------------------------

(* Every other step leaves the number index alone.                          *)
LEMMA OthersKeepIndex ==
    ASSUME ~ConsensusMayThrow, [Next]_vars
    PROVE  \/ \E b \in Blocks, isBlock \in BOOLEAN : PutCanonical(b, isBlock)
           \/ \E n \in Nat : ResetCanonicalHead(n)
           \/ index' = index
BY BlockchainAssumption
   DEF Next, vars, PutBlock, PutHeader, PutBlockOrHeader, PutSide,
       PutRejectedByConsensus, PutGenesis, SetIteratorHead, Restart, Iterate,
       IteratorStart, IteratorAdvance, IteratorReorged, IteratorThrow, LoopTop

(* putBlock, putHeader and resetCanonicalHead move an iterator head only    *)
(* when its block left the canonical chain, and then down.                  *)
THEOREM RewindsOnly ==
    ASSUME ~ConsensusMayThrow
    PROVE  Spec => ReorgOnlyRewinds
<1> DEFINE Rewinds ==
        \A name \in Names :
            (it' = it /\ index' # index /\ heads[name] # NoBlock) =>
                \/ heads'[name] = heads[name]
                \/ /\ ~Indexed(heads[name], index')
                   /\ Number[heads'[name]] < Number[heads[name]]
<1>1. IInv /\ [Next]_vars => Rewinds
  <2> SUFFICES ASSUME IInv, [Next]_vars, index' # index
               PROVE  Rewinds
    OBVIOUS
  <2>1. CASE \E b \in Blocks, isBlock \in BOOLEAN : PutCanonical(b, isBlock)
    BY <2>1, PutRewinds
  <2>2. CASE \E n \in Nat : ResetCanonicalHead(n)
    BY <2>2, ResetRewinds
  <2> QED BY <2>1, <2>2, OthersKeepIndex
<1>2. IInv /\ [Next]_vars => [Rewinds]_vars
  BY <1>1
<1> QED BY <1>2, Invariance, PTL DEF Spec, ReorgOnlyRewinds

(* What the head of one iterator is as a cursor of the abstract chain.      *)
LEMMA CursorOnChain ==
    ASSUME IInv, NEW name \in Names
    PROVE  HeadOf(name) \in Blocks /\ Indexed(HeadOf(name), index)
<1>1. headHeader \in Blocks /\ index = Path[headHeader] /\ Genesis \in Blocks
  BY BlockTreeAssumption DEF IInv, TypeOK, CanonicalIndex
<1>2. Indexed(Genesis, index)
  <2>1. 0 \in 0 .. Number[headHeader] /\ Path[headHeader][0] = Genesis
    BY <1>1, PathFacts
  <2> QED BY <1>1, <2>1, IndexedInPath
<1>3. CASE heads[name] = NoBlock
  BY <1>1, <1>2, <1>3 DEF HeadOf
<1>4. CASE heads[name] # NoBlock
  BY <1>4 DEF HeadOf, OnChain, IInv, TypeOK, HeadsCanonical
<1> QED BY <1>3, <1>4

(* The same in the next state.                                              *)
LEMMA CursorsOnChainNext ==
    (\A name \in Names :
        IInv => HeadOf(name) \in Blocks /\ Indexed(HeadOf(name), index))'
<1>1. \A name \in Names :
        IInv => HeadOf(name) \in Blocks /\ Indexed(HeadOf(name), index)
  BY CursorOnChain
<1> QED BY <1>1, PTL

(* The store implements the abstract canonical chain: each method is one    *)
(* reorganisation of the chain, one move of the cursors along it, or        *)
(* neither.                                                                 *)
THEOREM Refinement ==
    ASSUME ~ConsensusMayThrow
    PROVE  Spec => ImplementsCanonicalChain
<1> DEFINE Cursor == [name \in Names |-> HeadOf(name)]
<1>1. Init => CC!Init
  <2> SUFFICES ASSUME Init PROVE CC!Init
    OBVIOUS
  <2>1. index = Path[Genesis]
    BY InitInv DEF IInv, CanonicalIndex, Init
  <2>2. Cursor = [name \in Names |-> Genesis]
    BY DEF Init, HeadOf
  <2> QED BY <2>1, <2>2 DEF CC!Init
<1>2. IInv /\ [Next]_vars => [CC!Next]_<<index, Cursor>>
  <2> SUFFICES ASSUME IInv, [Next]_vars PROVE CC!Next
    OBVIOUS
  <2>1. IInv'
    BY NextInv
  <2>2. Cursor' \in [Names -> Blocks]
        /\ \A name \in Names : Indexed(Cursor'[name], index')
    <3>1. ASSUME NEW name \in Names
          PROVE  HeadOf(name)' \in Blocks /\ Indexed(HeadOf(name)', index')
      BY <2>1, CursorsOnChainNext DEF Indexed
    <3>2. Cursor' = [name \in Names |-> HeadOf(name)']
      OBVIOUS
    <3> QED BY <3>1, <3>2
  <2>3. ASSUME NEW tip \in Blocks, index' = Path[tip],
               \A name \in Names :
                 /\ heads[name] = NoBlock => heads'[name] = NoBlock
                 /\ heads[name] # NoBlock =>
                     /\ heads'[name] \in Blocks
                     /\ Indexed(heads'[name], index')
                     /\ Indexed(heads[name], index') => heads'[name] = heads[name]
                     /\ ~Indexed(heads[name], index') =>
                            Number[heads'[name]] < Number[heads[name]]
        PROVE  CC!Reorganise(tip)
    <3>1. Indexed(Genesis, index')
      <4>1. 0 \in 0 .. Number[tip] /\ Path[tip][0] = Genesis
        BY PathFacts
      <4> QED BY <2>3, <4>1, IndexedInPath
    <3>2. ASSUME NEW name \in Names
          PROVE  IF Indexed(Cursor[name], index')
                 THEN Cursor'[name] = Cursor[name]
                 ELSE /\ Indexed(Cursor'[name], index')
                      /\ Number[Cursor'[name]] < Number[Cursor[name]]
      <4>1. CASE heads[name] = NoBlock
        BY <2>3, <3>1, <4>1 DEF HeadOf
      <4>2. CASE heads[name] # NoBlock
        <5>1. heads'[name] # NoBlock
          BY <2>3, <4>2, BlockchainAssumption
        <5>2. Cursor[name] = heads[name] /\ Cursor'[name] = heads'[name]
          BY <4>2, <5>1 DEF HeadOf
        <5> QED BY <2>3, <4>2, <5>2
      <4> QED BY <4>1, <4>2
    <3> QED BY <2>2, <2>3, <3>2 DEF CC!Reorganise, CC!OnIt, Indexed
  <2>4. CASE \E b \in Blocks, isBlock \in BOOLEAN : PutCanonical(b, isBlock)
    <3>1. PICK b \in Blocks, isBlock \in BOOLEAN : PutCanonical(b, isBlock)
      BY <2>4
    <3>2. CC!Reorganise(b)
      BY <3>1, <2>3, PutRewinds
    <3> QED BY <3>2 DEF CC!Next
  <2>5. CASE \E n \in Nat : ResetCanonicalHead(n)
    <3>1. PICK n \in Nat : ResetCanonicalHead(n)
      BY <2>5
    <3>2. CC!Reorganise(index[n])
      BY <3>1, <2>3, ResetRewinds
    <3> QED BY <3>1, <3>2, ResetRewinds DEF CC!Next
  <2>6. CASE index' = index
    <3>1. CC!MoveCursors
      BY <2>2, <2>6 DEF CC!MoveCursors, CC!OnIt, Indexed
    <3> QED BY <3>1 DEF CC!Next
  <2> QED BY <2>4, <2>5, <2>6, OthersKeepIndex
<1> QED BY <1>1, <1>2, Invariance, PTL DEF Spec, ImplementsCanonicalChain, CC!Spec

------------------------------------------------------------------------------
(* Which block is the head, under proof of stake and under proof of work;  *)
(* the order in which the iterator hands over blocks; and what is left of  *)
(* the index when consensus may reject a block that was stored already.    *)

(* A put block is stored, whatever else it does.                            *)
LEMMA PutStores ==
    ASSUME NEW b \in Blocks, NEW isBlock \in BOOLEAN, Store(b, isBlock)
    PROVE  /\ Stored' = Stored \cup {b}
           /\ \A x \in Stored' : td'[x] = IF x = b THEN TotalDifficulty(b) ELSE td[x]
           /\ bodies \subseteq bodies'
           /\ bodies' \subseteq bodies \cup {b}
           /\ isBlock => bodies' = bodies \cup {b}
BY DEF Store, Stored

(* The steps that are neither a put, nor a reset, nor a restart, leave the  *)
(* blocks, the index and the two head pointers alone.                       *)
LEMMA QuietSteps ==
    ASSUME [Next]_vars
    PROVE  \/ \E b \in Blocks, isBlock \in BOOLEAN :
                (isBlock \/ b \in Headers) /\ PutBlockOrHeader(b, isBlock)
           \/ \E n \in ResetTargets : ResetCanonicalHead(n)
           \/ Restart
           \/ /\ UNCHANGED <<td, bodies, index, headHeader, headBlock>>
              /\ disk' = disk \/ SaveHeads
<1>1. ASSUME NEW name \in Names, Iterate(name)
      PROVE  /\ UNCHANGED <<td, bodies, index, headHeader, headBlock>>
             /\ disk' = disk \/ SaveHeads
  BY <1>1 DEF Iterate, IteratorStart, IteratorAdvance, IteratorReorged,
              IteratorThrow, LoopTop
<1> QED BY <1>1 DEF Next, vars, PutBlock, PutHeader, PutGenesis, SetIteratorHead

------------------------------------------------------------------------------
(* The head block under proof of stake.                                     *)

(* Every stored block has its body, and the two head pointers are one: only *)
(* then is the block a reset falls back to a full block.                    *)
FullInv == bodies = Stored /\ headBlock = headHeader

(* The reorg to b does not redirect b itself.                               *)
LEMMA TipStays ==
    ASSUME TypeOK, CanonicalIndex, NEW b \in Blocks
    PROVE  HeadBlockAfter(b, TRUE) = b
<1>1. headHeader \in Blocks /\ index = Path[headHeader]
  BY DEF TypeOK, CanonicalIndex
<1>2. \A n \in DOMAIN index : Number[index[n]] = n
  <2>1. /\ Path[headHeader] \in [0 .. Number[headHeader] -> Blocks]
        /\ \A n \in 0 .. Number[headHeader] : Number[Path[headHeader][n]] = n
    BY <1>1, PathFacts
  <2>2. DOMAIN index = 0 .. Number[headHeader]
    BY <1>1, <2>1
  <2> QED BY <1>1, <2>1, <2>2
<1>3. AfterDelete(b, b) = b
  BY DEF AfterDelete, Redirect
<1>4. ~ \E n \in Stale(b) : index[n] = b
  <2> SUFFICES ASSUME NEW n \in Stale(b), index[n] = b
               PROVE  FALSE
    OBVIOUS
  <2>1. n \in RebuiltBy(b) /\ n \in DOMAIN index /\ n = Number[b]
    BY <1>2 DEF Stale
  <2>2. Path[b][n] = b /\ n \in n .. Number[b]
    BY <2>1, PathFacts
  <2> QED BY <2>1, <2>2 DEF RebuiltBy
<1> QED BY <1>3, <1>4 DEF HeadBlockAfter, Redirect

(* In the genesis state head header and head block are both genesis. *)
LEMMA FullInvInit == Init => FullInv
BY DEF Init, FullInv, Stored

(* Every step of the store keeps the two heads together when only full     *)
(* blocks are put.                                                         *)
LEMMA FullInvNext ==
    ASSUME ~ConsensusMayThrow, ProofOfStake, Headers = {},
           IInv, FullInv, [Next]_vars
    PROVE  FullInv'
<1> USE DEF FullInv
<1>1. TypeOK /\ CanonicalIndex /\ CrashLosesNothing
  BY DEF IInv
<1>2. ASSUME NEW b \in Blocks, PutBlockOrHeader(b, TRUE)
      PROVE  FullInv'
  <2>1. PutCanonical(b, TRUE)
    BY <1>2 DEF PutBlockOrHeader, PutSide, PutRejectedByConsensus, BecomesCanonical
  <2>2. Stored' = Stored \cup {b} /\ bodies' = bodies \cup {b}
    BY <2>1, PutStores DEF PutCanonical
  <2>3. headHeader' = b /\ headBlock' = b
    BY <2>1, <1>1, TipStays DEF PutCanonical
  <2> QED BY <2>2, <2>3
<1>3. ASSUME NEW n \in ResetTargets, ResetCanonicalHead(n)
      PROVE  FullInv'
  BY <1>3 DEF ResetCanonicalHead, Stored
<1>4. CASE Restart
  BY <1>1, <1>4 DEF Restart, Stored, CrashLosesNothing
<1>5. CASE UNCHANGED <<td, bodies, index, headHeader, headBlock>>
  BY <1>5 DEF Stored
<1> QED BY <1>2, <1>3, <1>4, <1>5, QuietSteps

(* Where only full blocks are put, as the engine API does, the head block   *)
(* is the head header's block and has its body, through every reorg, reset  *)
(* and restart.                                                             *)
THEOREM HeadIsFullBlock ==
    ASSUME ~ConsensusMayThrow, ProofOfStake, Headers = {}
    PROVE  Spec => []HeadBlockIsHead
<1>1. IInv /\ FullInv => HeadBlockIsHead
  BY DEF IInv, FullInv, TypeOK, HeadBlockIsHead
<1>2. IInv /\ FullInv /\ [Next]_vars => FullInv'
  BY FullInvNext
<1> QED BY <1>1, <1>2, FullInvInit, Invariance, PTL DEF Spec

------------------------------------------------------------------------------
(* The heaviest chain under proof of work.                                  *)

(* A total difficulty is never above what a second put of the block would   *)
(* record: it was taken with the parent's of then, or without the parent,   *)
(* and the parent's only grows.  So a put of the head again cannot lower    *)
(* the total difficulty everything is compared with.                        *)
NeverOverstated == \A c \in Stored \ {Genesis} : td[c] <= TotalDifficulty(c)

WorkInv == HeaviestHead /\ NeverOverstated

(* The total difficulty of a block that is put again does not fall.         *)
LEMMA StoreGrows ==
    ASSUME TypeOK, NeverOverstated, NEW b \in Blocks, NEW isBlock \in BOOLEAN,
           b # Genesis, Store(b, isBlock)
    PROVE  /\ \A x \in Stored : td[x] <= td'[x]
           /\ NeverOverstated'
<1>1. /\ Stored' = Stored \cup {b}
      /\ \A x \in Stored' : td'[x] = IF x = b THEN TotalDifficulty(b) ELSE td[x]
  BY PutStores
<1>2. /\ Stored \subseteq Blocks
      /\ \A x \in Stored : td[x] \in Nat
      /\ \A x \in Blocks : Difficulty[x] \in Nat
  BY BlockchainAssumption DEF TypeOK
<1>3. \A x \in Stored : td[x] <= td'[x] /\ td'[x] \in Nat
  <2>1. TotalDifficulty(b) \in Nat
    BY <1>2 DEF TotalDifficulty
  <2> QED BY <1>1, <1>2, <2>1 DEF NeverOverstated
<1>4. ASSUME NEW c \in Stored' \ {Genesis}
      PROVE  td'[c] <= TotalDifficulty(c)'
  <2> DEFINE recorded == IF Parent(c) \in Stored THEN td[Parent(c)] ELSE 0
             found == IF Parent(c) \in Stored' THEN td'[Parent(c)] ELSE 0
  <2>1. c \in Blocks /\ Difficulty[c] \in Nat
    BY <1>1, <1>2
  <2>2. Parent(c) # c
    <3>1. Number[c] \in Nat \ {0}
      BY <1>4, <2>1, PathFacts
    <3>2. Number[Parent(c)] = Number[c] - 1
      BY <2>1, <3>1, PathFacts DEF Parent
    <3> QED BY <3>1, <3>2
  <2>3. recorded \in Nat /\ found \in Nat /\ recorded <= found
    <3>1. TotalDifficulty(b) \in Nat
      BY <1>2 DEF TotalDifficulty
    <3> QED BY <1>1, <1>2, <1>3, <3>1
  <2>4. td'[c] <= Difficulty[c] + recorded
    <3>1. CASE c = b
      <4>1. td'[c] = Difficulty[c] + recorded
        BY <1>1, <3>1 DEF TotalDifficulty
      <4> QED BY <4>1, <2>1, <2>3
    <3>2. CASE c # b
      BY <1>1, <1>4, <3>2 DEF NeverOverstated, TotalDifficulty
    <3> QED BY <3>1, <3>2
  <2>5. TotalDifficulty(c)' = Difficulty[c] + found
    BY DEF TotalDifficulty, Parent
  <2>6. td'[c] \in Nat
    BY <1>1, <1>2, <1>3 DEF TotalDifficulty
  <2> QED BY <2>1, <2>3, <2>4, <2>5, <2>6
<1> QED BY <1>3, <1>4 DEF NeverOverstated

(* In the genesis state the only total difficulty is that of the head. *)
LEMMA WorkInvInit == Init => WorkInv
<1> SUFFICES ASSUME Init PROVE WorkInv
  OBVIOUS
<1>1. Stored = {Genesis} /\ headHeader = Genesis /\ td[Genesis] = Difficulty[Genesis]
  BY DEF Init, Stored
<1>2. Difficulty[Genesis] \in Nat
  BY BlockTreeAssumption, BlockchainAssumption
<1> QED BY <1>1, <1>2 DEF WorkInv, HeaviestHead, NeverOverstated

(* A put moves the head only to a greater total difficulty, and no reset   *)
(* removes the head.                                                       *)
LEMMA WorkInvNext ==
    ASSUME ~ConsensusMayThrow, ~ProofOfStake, ResetTargets = {},
           IInv, WorkInv, [Next]_vars
    PROVE  WorkInv'
<1>1. TypeOK /\ CrashLosesNothing /\ HeaviestHead /\ NeverOverstated
  BY DEF IInv, WorkInv
<1>2. /\ headHeader \in Stored /\ Stored \subseteq Blocks
      /\ \A x \in Stored : td[x] \in Nat
  BY <1>1 DEF TypeOK
<1>3. ASSUME NEW b \in Blocks, NEW isBlock \in BOOLEAN, PutBlockOrHeader(b, isBlock)
      PROVE  WorkInv'
  <2>1. b # Genesis /\ Store(b, isBlock)
    BY <1>3 DEF PutBlockOrHeader, PutCanonical, PutSide, PutRejectedByConsensus, Accepted
  <2>2. /\ Stored' = Stored \cup {b}
        /\ \A x \in Stored' : td'[x] = IF x = b THEN TotalDifficulty(b) ELSE td[x]
    BY <2>1, PutStores
  <2>3. TotalDifficulty(b) \in Nat
    BY <1>2, BlockchainAssumption DEF TotalDifficulty
  <2>4. CASE PutCanonical(b, isBlock)
    <3>1. headHeader' = b /\ TotalDifficulty(b) > td[headHeader]
      BY <2>4 DEF PutCanonical, BecomesCanonical
    <3>2. \A x \in Stored' : td'[x] <= td'[headHeader']
      <4>1. td'[b] = TotalDifficulty(b)
        BY <2>2
      <4>2. ASSUME NEW x \in Stored, x # b
            PROVE  td'[x] <= TotalDifficulty(b)
        BY <4>2, <1>1, <1>2, <2>2, <2>3, <3>1 DEF HeaviestHead
      <4> QED BY <2>2, <2>3, <3>1, <4>1, <4>2
    <3> QED BY <3>2, <2>1, <1>1, StoreGrows DEF WorkInv, HeaviestHead
  <2>5. CASE PutSide(b, isBlock)
    <3>1. headHeader' = headHeader /\ TotalDifficulty(b) <= td[headHeader]
      BY <2>5, <1>2, <2>3 DEF PutSide, BecomesCanonical
    <3>2. td'[headHeader] = td[headHeader]
      <4>1. CASE headHeader = b
        <5>1. td[b] <= TotalDifficulty(b)
          BY <4>1, <1>1, <1>2, <2>1 DEF NeverOverstated
        <5> QED BY <4>1, <5>1, <3>1, <2>2, <2>3, <1>2
      <4>2. CASE headHeader # b
        BY <4>2, <2>2, <1>2
      <4> QED BY <4>1, <4>2
    <3>3. \A x \in Stored' : td'[x] <= td'[headHeader']
      BY <3>1, <3>2, <2>2, <1>1 DEF HeaviestHead
    <3> QED BY <3>3, <2>1, <1>1, StoreGrows DEF WorkInv, HeaviestHead
  <2> QED BY <1>3, <2>4, <2>5 DEF PutBlockOrHeader, PutRejectedByConsensus
<1>4. CASE Restart
  <2>1. td' = td /\ headHeader' = headHeader
    BY <1>1, <1>4 DEF Restart, CrashLosesNothing
  <2> QED BY <2>1, <1>1 DEF WorkInv, HeaviestHead, NeverOverstated, TotalDifficulty, Stored
<1>5. CASE UNCHANGED <<td, bodies, index, headHeader, headBlock>>
  BY <1>5, <1>1 DEF WorkInv, HeaviestHead, NeverOverstated, TotalDifficulty, Stored
<1> QED BY <1>3, <1>4, <1>5, QuietSteps

(* The fork choice of proof of work: as long as nobody resets the head, no  *)
(* stored block, whether put as a block or as a bare header and in whatever *)
(* order, has more total difficulty than the head.                          *)
THEOREM HeadIsHeaviest ==
    ASSUME ~ConsensusMayThrow, ~ProofOfStake, ResetTargets = {}
    PROVE  Spec => []HeaviestHead
<1>1. WorkInv => HeaviestHead
  BY DEF WorkInv
<1>2. IInv /\ WorkInv /\ [Next]_vars => WorkInv'
  BY WorkInvNext
<1> QED BY <1>1, <1>2, WorkInvInit, Invariance, PTL DEF Spec

------------------------------------------------------------------------------
(* The order in which the iterator hands over blocks.                       *)

(* The canonical block after a canonical block is its child.                *)
LEMMA NextIsChild ==
    ASSUME IInv, NEW p \in Blocks, Indexed(p, index), Readable(Number[p] + 1)
    PROVE  Parent(index[Number[p] + 1]) = p
<1>1. headHeader \in Blocks /\ index = Path[headHeader]
  BY DEF IInv, TypeOK, CanonicalIndex
<1>2. Number[p] \in Nat /\ Number[p] + 1 \in DOMAIN index /\ index[Number[p]] = p
  BY PathFacts DEF Readable, Indexed
<1>3. /\ DOMAIN index = 0 .. Number[headHeader]
      /\ Number[headHeader] \in Nat
      /\ \A n \in 0 .. Number[headHeader] :
            /\ Number[index[n]] = n
            /\ \A m \in 0 .. n : Path[index[n]][m] = index[m]
  BY <1>1, PathFacts
<1>4. Number[index[Number[p] + 1]] = Number[p] + 1 /\ Number[p] \in 0 .. Number[p] + 1
  BY <1>2, <1>3
<1>5. Path[index[Number[p] + 1]][Number[p]] = index[Number[p]]
  BY <1>2, <1>3, <1>4
<1>6. Number[p] + 1 - 1 = Number[p]
  BY <1>2
<1> QED BY <1>2, <1>4, <1>5, <1>6 DEF Parent

(* What a turn of the iterator's loop hands over: with the reorg flag the   *)
(* child of the iterator head, else the block at the number it was at.      *)
LEMMA LoopTopHands ==
    ASSUME IInv, NEW name \in Names, NEW num, NEW last, NEW ran,
           NEW hds \in [Names -> Stored \cup {NoBlock}],
           \A x \in Names : hds[x] # NoBlock => OnChain(hds[x]),
           LoopTop(name, num, last, ran, hds),
           it'[name] # Idle
    PROVE  LET next == it'[name]
               hd == IF hds[name] = NoBlock THEN Genesis ELSE hds[name]
           IN  /\ it' = [it EXCEPT ![name] = next]
               /\ next.last = last /\ next.ran = ran
               /\ next.blk = index[next.num] /\ Readable(next.num)
               /\ HeadOf(name)' = hd
               /\ next.reorg => last # NoBlock /\ Parent(next.blk) = hd
               /\ ~next.reorg => next.num = num
               /\ ~next.reorg /\ last # NoBlock => Parent(next.blk) = last
<1> DEFINE hd == IF hds[name] = NoBlock THEN Genesis ELSE hds[name]
           reorg == last # NoBlock /\ Parent(index[num]) # last
           n == IF reorg THEN Number[hd] + 1 ELSE num
           call == [pc |-> "callback", num |-> n, blk |-> index[n],
                    last |-> last, reorg |-> reorg, ran |-> ran]
<1>1. it \in [Names -> Calling \cup {Idle}]
  BY DEF IInv, TypeOK
<1>2. /\ it' = [it EXCEPT ![name] = call] /\ heads' = hds
      /\ Readable(num) /\ Readable(n)
  <2>1. ~(ran < MaxBlocks /\ Readable(num) /\ Readable(n)) => it'[name] = Idle
    BY <1>1 DEF LoopTop
  <2> QED BY <2>1 DEF LoopTop
<1>3. it'[name] = call
  BY <1>1, <1>2
<1>4. HeadOf(name)' = hd
  BY <1>2 DEF HeadOf
<1>5. hd \in Blocks /\ Indexed(hd, index)
  <2>1. CASE hds[name] = NoBlock
    <3>1. headHeader \in Blocks /\ index = Path[headHeader] /\ Genesis \in Blocks
      BY BlockTreeAssumption DEF IInv, TypeOK, CanonicalIndex
    <3>2. 0 \in 0 .. Number[headHeader] /\ Path[headHeader][0] = Genesis
      BY <3>1, PathFacts
    <3> QED BY <2>1, <3>1, <3>2, IndexedInPath
  <2>2. CASE hds[name] # NoBlock
    BY <2>2 DEF OnChain, IInv, TypeOK
  <2> QED BY <2>1, <2>2
<1>6. reorg => Parent(index[n]) = hd
  BY <1>2, <1>5, NextIsChild
<1>7. /\ it' = [it EXCEPT ![name] = call]
      /\ call.last = last /\ call.ran = ran /\ call.num = n
      /\ call.blk = index[n] /\ call.reorg = reorg
  BY <1>2
<1> HIDE DEF call
<1> QED BY <1>2, <1>3, <1>4, <1>6, <1>7

(* One step of the iterator of one name.                                    *)
LEMMA IterateInSequence ==
    ASSUME IInv, NEW name \in Names, Iterate(name), it'[name] # Idle
    PROVE  LET next == it'[name] IN
           /\ it' = [it EXCEPT ![name] = next]
           /\ IF next.last = NoBlock
              THEN next.ran = 0 => Parent(next.blk) = HeadOf(name)'
              ELSE Parent(next.blk) =
                        (IF next.reorg THEN HeadOf(name)' ELSE next.last)
<1> DEFINE next == it'[name]
<1>1. /\ heads \in [Names -> Stored \cup {NoBlock}]
      /\ \A x \in Names : heads[x] # NoBlock => OnChain(heads[x])
      /\ it \in [Names -> Calling \cup {Idle}]
      /\ Stored \subseteq Blocks
  BY DEF IInv, TypeOK, HeadsCanonical
<1>2. it[name].pc = "callback" =>
        /\ it[name] \in Calling
        /\ it[name].ran \in Nat /\ it[name].num \in Nat /\ it[name].blk \in Blocks
  BY <1>1 DEF Idle, Calling
<1>3. CASE IteratorStart(name)
  <2> DEFINE num == Number[HeadOf(name)] + 1
  <2>1. LoopTop(name, num, NoBlock, 0, heads)
    BY <1>3 DEF IteratorStart
  <2>2. /\ it' = [it EXCEPT ![name] = next] /\ next.last = NoBlock
        /\ next.blk = index[next.num] /\ Readable(next.num)
        /\ HeadOf(name)' = HeadOf(name)
        /\ next.num = num
    <3> HIDE DEF num
    <3> QED BY <1>1, <2>1, LoopTopHands DEF HeadOf
  <2>3. HeadOf(name) \in Blocks /\ Indexed(HeadOf(name), index)
    BY CursorOnChain
  <2>4. Parent(index[num]) = HeadOf(name)
    BY <2>2, <2>3, NextIsChild
  <2> HIDE DEF num, next
  <2> QED BY <2>2, <2>4 DEF next
<1>4. CASE IteratorAdvance(name)
  <2> DEFINE num == it[name].num
             blk == it[name].blk
             ran == it[name].ran
             hds == [heads EXCEPT ![name] = blk]
  <2>1. num \in Nat /\ blk \in Blocks /\ ran + 1 # 0
    BY <1>2, <1>4 DEF IteratorAdvance
  <2>2. num \in DOMAIN index /\ index[num] = blk
    BY <1>4 DEF IteratorAdvance, ReorgWhileOnBlock, Readable
  <2>3. OnChain(blk) /\ blk \in Stored /\ blk # NoBlock
    <3>1. headHeader \in Blocks /\ index = Path[headHeader]
      BY DEF IInv, TypeOK, CanonicalIndex
    <3>2. Number[blk] = num
      BY <3>1, <2>2, PathFacts
    <3> QED BY <2>1, <2>2, <3>2, BlockchainAssumption DEF OnChain, Indexed, IInv, TypeOK
  <2>4. /\ hds \in [Names -> Stored \cup {NoBlock}]
        /\ \A x \in Names : hds[x] # NoBlock => OnChain(hds[x])
        /\ hds[name] = blk
    BY <1>1, <2>3
  <2>5. LoopTop(name, num + 1, blk, ran + 1, hds)
    BY <1>4 DEF IteratorAdvance
  <2> HIDE DEF num, blk, ran, hds
  <2> QED BY <2>3, <2>4, <2>5, LoopTopHands
<1>5. CASE IteratorReorged(name)
  <2> DEFINE num == it[name].num
             last == it[name].last
             ran == it[name].ran
  <2>1. ran + 1 # 0
    BY <1>2, <1>5 DEF IteratorReorged
  <2>2. LoopTop(name, num, last, ran + 1, heads)
    BY <1>5 DEF IteratorReorged
  <2> HIDE DEF num, last, ran
  <2> QED BY <1>1, <2>1, <2>2, LoopTopHands
<1>6. CASE IteratorThrow(name)
  BY <1>1, <1>6 DEF IteratorThrow
<1> QED BY <1>3, <1>4, <1>5, <1>6 DEF Iterate

(* Whatever reorgs, resets and other iterators came while a callback ran,   *)
(* executors get the blocks of the canonical chain in an unbroken line, and *)
(* are told when the line starts again from the iterator head.              *)
THEOREM IteratorOrder ==
    ASSUME ~ConsensusMayThrow
    PROVE  Spec => IteratorInSequence
<1> DEFINE Sequence ==
        \A name \in Names :
            (it'[name] # it[name] /\ it'[name] # Idle) =>
                LET next == it'[name] IN
                    IF next.last = NoBlock
                    THEN next.ran = 0 => Parent(next.blk) = HeadOf(name)'
                    ELSE Parent(next.blk) =
                            (IF next.reorg THEN HeadOf(name)' ELSE next.last)
<1>1. IInv /\ [Next]_vars => Sequence
  <2> SUFFICES ASSUME IInv, [Next]_vars,
                      NEW name \in Names, it'[name] # it[name], it'[name] # Idle
               PROVE  LET next == it'[name] IN
                        IF next.last = NoBlock
                        THEN next.ran = 0 => Parent(next.blk) = HeadOf(name)'
                        ELSE Parent(next.blk) =
                                (IF next.reorg THEN HeadOf(name)' ELSE next.last)
    OBVIOUS
  <2>1. it \in [Names -> Calling \cup {Idle}]
    BY DEF IInv, TypeOK
  <2>2. \E x \in Names : Iterate(x)
    <3>1. it' # it
      OBVIOUS
    <3>2. ~Restart
      BY DEF Restart
    <3> QED BY <3>1, <3>2
            DEF Next, vars, PutBlock, PutHeader, PutBlockOrHeader, PutCanonical, PutSide,
                PutRejectedByConsensus, PutGenesis, ResetCanonicalHead, SetIteratorHead
  <2>3. PICK x \in Names : Iterate(x)
    BY <2>2
  <2>4. x = name
    <3> SUFFICES ASSUME x # name PROVE FALSE
      OBVIOUS
    <3>1. \E c : it' = [it EXCEPT ![x] = c]
      BY <2>3 DEF Iterate, IteratorStart, IteratorAdvance, IteratorReorged,
                  IteratorThrow, LoopTop
    <3> QED BY <2>1, <3>1
  <2> QED BY <2>3, <2>4, IterateInSequence
<1>2. IInv /\ [Next]_vars => [Sequence]_vars
  BY <1>1
<1> QED BY <1>2, Invariance, PTL DEF Spec, IteratorInSequence

------------------------------------------------------------------------------
(* The index when consensus may reject a block after it was stored.         *)

AncestryStored(p) == \A n \in 0 .. Number[p] : Path[p][n] \in Stored

(* The head header in memory need not be canonical any more, so that a      *)
(* common ancestor found from it says little of the index.  But it was      *)
(* canonical once, as was the one on disk, and what was canonical once has  *)
(* all of its ancestors stored; hence a rebuild of the index never ends at  *)
(* a missing header.                                                        *)
AncestryInv ==
    /\ Stored \subseteq Blocks
    /\ headHeader \in Stored /\ AncestryStored(headHeader)
    /\ disk.headHeader \in Stored /\ AncestryStored(disk.headHeader)
    /\ \E t \in Stored : index = Path[t] /\ AncestryStored(t)
    /\ disk.headHeader # headHeader => index = Path[disk.headHeader]

(* A block with a common ancestor has all of its ancestors stored.          *)
LEMMA AncestorsStored ==
    ASSUME AncestryInv, NEW b \in Blocks, HasCommonAncestor(b)
    PROVE  \A n \in 0 .. Number[b] : Path[b][n] \in Stored \cup {b}
<1> DEFINE top == Number[headHeader]
<1>1. PICK t \in Stored : index = Path[t] /\ AncestryStored(t)
  BY DEF AncestryInv
<1>2. headHeader \in Blocks /\ AncestryStored(headHeader) /\ t \in Blocks
  BY DEF AncestryInv
<1>3. /\ top \in Nat /\ Number[b] \in Nat /\ Number[t] \in Nat
      /\ DOMAIN index = 0 .. Number[t]
      /\ Path[b][Number[b]] = b
      /\ Path[headHeader][top] = headHeader
  BY <1>1, <1>2, PathFacts
<1>4. PICK k \in 0 .. top :
        /\ k <= Number[b]
        /\ (IF k = top THEN headHeader ELSE index[k]) = Path[b][k]
        /\ \A n \in k .. top : n <= Number[b] => n \in DOMAIN index \cup {top}
        /\ \A n \in k .. Number[b] - 1 : Path[b][n] \in Stored
  BY DEF HasCommonAncestor
<1>5. ASSUME NEW n \in 0 .. k
      PROVE  Path[b][n] \in Stored
  <2>1. CASE k = top
    <3>1. Path[headHeader][k] = Path[b][k] /\ k \in 0 .. top
      BY <1>3, <1>4, <2>1
    <3>2. Path[headHeader][n] = Path[b][n]
      BY <1>2, <1>4, <3>1, SharedBelow
    <3> QED BY <3>2, <1>2, <1>3, <2>1 DEF AncestryStored
  <2>2. CASE k # top
    <3>1. k \in 0 .. Number[t] /\ Path[t][k] = Path[b][k]
      BY <1>1, <1>3, <1>4, <2>2
    <3>2. Path[t][n] = Path[b][n]
      BY <1>2, <1>4, <3>1, SharedBelow
    <3> QED BY <3>1, <3>2, <1>1, <1>3 DEF AncestryStored
  <2> QED BY <2>1, <2>2
<1>6. ASSUME NEW n \in 0 .. Number[b]
      PROVE  n \in 0 .. k \/ n \in k .. Number[b] - 1 \/ n = Number[b]
  BY <1>3, <1>4
<1> QED BY <1>3, <1>4, <1>5, <1>6

(* The rebuild turns the ancestry of any block t into the one of b.         *)
LEMMA RebuildWhole ==
    ASSUME NEW t \in Blocks, index = Path[t], NEW b \in Blocks,
           \A n \in 0 .. Number[b] : Path[b][n] \in Stored \cup {b}
    PROVE  IndexWith(b) = Path[b]
<1> DEFINE N == Number[b]
<1>1. /\ N \in Nat /\ Number[t] \in Nat
      /\ DOMAIN index = 0 .. Number[t]
      /\ index[0] = Genesis /\ Path[b][0] = Genesis
      /\ Path[b] \in [0 .. N -> Blocks]
      /\ \A n \in 0 .. N : Number[Path[b][n]] = n
  BY PathFacts
<1>2. ASSUME NEW n \in 0 .. N, n \notin RebuiltBy(b)
      PROVE  n \in DOMAIN index /\ index[n] = Path[b][n]
  <2>1. CASE n = 0
    BY <2>1, <1>1
  <2>2. CASE n # 0
    <3>1. \A m \in n .. N - 1 : Path[b][m] \in Stored
      BY <1>1
    <3>2. PICK m \in n .. N : m \in DOMAIN index /\ index[m] = Path[b][m]
      BY <2>2, <3>1, <1>1, <1>2 DEF RebuiltBy
    <3>3. m \in 0 .. Number[t] /\ m <= N /\ n \in 0 .. m /\ Path[t][m] = Path[b][m]
      BY <1>1, <3>2
    <3>4. Path[t][n] = Path[b][n]
      BY <3>3, SharedBelow
    <3> QED BY <1>1, <3>3, <3>4
  <2> QED BY <2>1, <2>2
<1>3. DeletedFrom(N + 1) = {n \in 0 .. Number[t] : n > N}
  BY <1>1 DEF DeletedFrom
<1>4. (DOMAIN index \ DeletedFrom(N + 1)) \cup RebuiltBy(b) = 0 .. N
  <2>1. RebuiltBy(b) \subseteq 0 .. N
    BY <1>1 DEF RebuiltBy
  <2> QED BY <2>1, <1>1, <1>2, <1>3
<1>5. IndexWith(b) = [n \in 0 .. N |-> IF n \in RebuiltBy(b) THEN Path[b][n] ELSE index[n]]
  BY <1>4 DEF IndexWith
<1>6. \A n \in 0 .. N :
        (IF n \in RebuiltBy(b) THEN Path[b][n] ELSE index[n]) = Path[b][n]
  BY <1>2
<1>7. Path[b] = [n \in 0 .. N |-> Path[b][n]]
  BY <1>1
<1> QED BY <1>5, <1>6, <1>7

(* The genesis state has an index of one number. *)
LEMMA AncestryInvInit == Init => AncestryInv
<1> SUFFICES ASSUME Init PROVE AncestryInv
  OBVIOUS
<1>1. Stored = {Genesis} /\ Genesis \in Blocks /\ Number[Genesis] = 0
  BY BlockTreeAssumption DEF Init, Stored
<1>2. index = Path[Genesis]
  BY InitInv DEF IInv, CanonicalIndex, Init
<1>3. \A n \in 0 .. Number[Genesis] : Path[Genesis][n] = Genesis
  <2>1. 0 .. Number[Genesis] = {0}
    BY <1>1
  <2> QED BY <2>1, <1>1, PathFacts
<1> QED BY <1>1, <1>2, <1>3 DEF Init, AncestryInv, AncestryStored

(* A put that becomes canonical, whether or not consensus then rejects it:  *)
(* index and disk are those of b, all of whose ancestors are stored now.    *)
LEMMA PutAncestry ==
    ASSUME AncestryInv, NEW b \in Blocks, NEW isBlock \in BOOLEAN,
           Store(b, isBlock), HasCommonAncestor(b), index' = IndexWith(b),
           disk'.headHeader = b,
           headHeader' \in {b, headHeader}
    PROVE  AncestryInv' /\ index' = Path[b]
<1>1. PICK t \in Stored : index = Path[t]
  BY DEF AncestryInv
<1>2. Stored' = Stored \cup {b} /\ Stored \subseteq Blocks
  BY PutStores DEF AncestryInv
<1>3. \A n \in 0 .. Number[b] : Path[b][n] \in Stored'
  BY <1>2, AncestorsStored
<1>4. index' = Path[b]
  BY <1>1, <1>2, AncestorsStored, RebuildWhole
<1>5. \A p : AncestryStored(p) => AncestryStored(p)'
  BY <1>2 DEF AncestryStored
<1>6. AncestryStored(b)'
  BY <1>3 DEF AncestryStored
<1>7. headHeader' \in Stored' /\ AncestryStored(headHeader)'
  BY <1>2, <1>3 DEF AncestryInv, AncestryStored
<1>8. disk'.headHeader \in Stored' /\ AncestryStored(disk.headHeader)'
  BY <1>2, <1>3 DEF AncestryStored
<1> QED BY <1>2, <1>4, <1>6, <1>7, <1>8 DEF AncestryInv

(* A reset leaves the ancestry of a block that was canonical, and moves the *)
(* head header there or not at all.                                         *)
LEMMA ResetAncestry ==
    ASSUME AncestryInv, NEW n \in Nat, ResetCanonicalHead(n)
    PROVE  /\ AncestryInv'
           /\ headHeader' # headHeader => index' = Path[headHeader']
<1>1. PICK t \in Stored : index = Path[t] /\ AncestryStored(t)
  BY DEF AncestryInv
<1>2. t \in Blocks /\ n \in DOMAIN index
  BY <1>1 DEF AncestryInv, ResetCanonicalHead
<1> DEFINE top == index[n]
<1>3. /\ Number[t] \in Nat
      /\ DOMAIN index = 0 .. Number[t]
      /\ top \in Blocks /\ top \in Stored
      /\ Number[top] = n
      /\ Path[top] \in [0 .. n -> Blocks]
      /\ \A m \in 0 .. n : Path[top][m] = index[m] /\ index[m] \in Stored
  <2>1. /\ Number[t] \in Nat
        /\ DOMAIN index = 0 .. Number[t]
        /\ n \in 0 .. Number[t]
    BY <1>1, <1>2, PathFacts
  <2>2. \A m \in 0 .. Number[t] : index[m] \in Blocks /\ index[m] \in Stored
    BY <1>1, <1>2, PathFacts DEF AncestryStored
  <2>3. Number[top] = n /\ \A m \in 0 .. n : Path[top][m] = index[m]
    BY <1>1, <1>2, <2>1, PathFacts
  <2>4. Path[top] \in [0 .. n -> Blocks]
    BY <2>1, <2>2, <2>3, PathFacts
  <2>5. \A m \in 0 .. n : index[m] \in Stored
    BY <2>1, <2>2
  <2> QED BY <2>1, <2>2, <2>3, <2>4, <2>5
<1>4. DeletedFrom(n + 1) = {m \in DOMAIN index : m > n}
  BY <1>3 DEF DeletedFrom
<1>5. index' = [m \in 0 .. n |-> index[m]]
  BY <1>2, <1>3, <1>4 DEF ResetCanonicalHead
<1>6. index' = Path[top]
  BY <1>3, <1>5
<1>7. /\ Stored' = Stored
      /\ headHeader' \in {headHeader, top}
      /\ disk'.headHeader = headHeader'
  BY DEF ResetCanonicalHead, Stored, Redirect, SaveHeads
<1> HIDE DEF top
<1>8. top \in Stored' /\ \A m \in 0 .. Number[top] : Path[top][m] \in Stored'
  BY <1>3, <1>7
<1>9. AncestryStored(headHeader)' /\ headHeader' \in Stored'
  BY <1>7, <1>8 DEF AncestryStored, AncestryInv
<1>10. AncestryStored(disk.headHeader)' /\ disk'.headHeader \in Stored'
  BY <1>7, <1>9 DEF AncestryStored
<1>11. \E b \in Stored' : index' = Path[b] /\ \A m \in 0 .. Number[b] : Path[b][m] \in Stored'
  BY <1>6, <1>8
<1>12. headHeader' # headHeader => index' = Path[headHeader']
  BY <1>6, <1>7
<1>13. Stored' \subseteq Blocks
  BY <1>7 DEF AncestryInv
<1> QED BY <1>7, <1>9, <1>10, <1>11, <1>12, <1>13 DEF AncestryInv, AncestryStored

(* Every step keeps the invariant, and one that moves the head header       *)
(* brings the index to it.                                                  *)
LEMMA AncestryNext ==
    ASSUME AncestryInv, [Next]_vars
    PROVE  /\ AncestryInv'
           /\ headHeader' # headHeader => index' = Path[headHeader']
<1>1. ASSUME NEW b \in Blocks, NEW isBlock \in BOOLEAN, PutBlockOrHeader(b, isBlock)
      PROVE  /\ AncestryInv'
             /\ headHeader' # headHeader => index' = Path[headHeader']
  <2>1. CASE PutCanonical(b, isBlock)
    <3>1. disk'.headHeader = b /\ headHeader' = b
      BY <2>1 DEF PutCanonical, SaveHeads
    <3> QED BY <2>1, <3>1, PutAncestry DEF PutCanonical
  <2>2. CASE PutRejectedByConsensus(b, isBlock) /\ BecomesCanonical(b)
    <3>1. disk'.headHeader = b /\ headHeader' = headHeader
      BY <2>2 DEF PutRejectedByConsensus
    <3> QED BY <2>2, <3>1, PutAncestry DEF PutRejectedByConsensus
  <2>3. CASE \/ PutSide(b, isBlock)
             \/ PutRejectedByConsensus(b, isBlock) /\ ~BecomesCanonical(b)
    <3>1. Stored' = Stored \cup {b}
      BY <2>3, PutStores DEF PutSide, PutRejectedByConsensus
    <3>2. index' = index /\ headHeader' = headHeader /\ disk'.headHeader = headHeader
      BY <2>3 DEF PutSide, PutRejectedByConsensus, SaveHeads
    <3> QED BY <3>1, <3>2 DEF AncestryInv, AncestryStored
  <2> QED BY <1>1, <2>1, <2>2, <2>3 DEF PutBlockOrHeader
<1>2. ASSUME NEW n \in ResetTargets, ResetCanonicalHead(n)
      PROVE  /\ AncestryInv'
             /\ headHeader' # headHeader => index' = Path[headHeader']
  BY <1>2, ResetAncestry, BlockchainAssumption
<1>3. CASE Restart
  <2>1. /\ td' = td /\ index' = index /\ disk' = disk
        /\ headHeader' = disk.headHeader /\ Stored' = Stored
    BY <1>3 DEF Restart, Stored
  <2> QED BY <2>1 DEF AncestryInv, AncestryStored
<1>4. CASE UNCHANGED <<td, bodies, index, headHeader, headBlock>> /\ (disk' = disk \/ SaveHeads)
  <2>1. /\ Stored' = Stored /\ index' = index /\ headHeader' = headHeader
        /\ disk'.headHeader \in {disk.headHeader, headHeader}
        /\ disk' = disk \/ disk'.headHeader = headHeader
    BY <1>4 DEF Stored, SaveHeads
  <2> QED BY <2>1 DEF AncestryInv, AncestryStored
<1> QED BY <1>1, <1>2, <1>3, <1>4, QuietSteps

(* Whatever consensus rejects, the index is a chain of stored blocks with  *)
(* genesis at its bottom (computeNewHeadOps, rebuildCanonical,             *)
(* deleteCanonicalChainReferences).                                        *)
THEOREM AncestryInvariance == Spec => []AncestryInv
<1>1. AncestryInv /\ [Next]_vars => AncestryInv'
  BY AncestryNext
<1> QED BY <1>1, AncestryInvInit, PTL DEF Spec

(* Whatever consensus rejects after it was stored, the number index stays   *)
(* the complete ancestry of one stored block.                               *)
THEOREM IndexWhole == Spec => []IndexIsAncestry
<1>1. AncestryInv => IndexIsAncestry
  BY DEF AncestryInv, IndexIsAncestry
<1> QED BY <1>1, AncestryInvariance, PTL

(* The next put, reset or restart that moves the head header brings the     *)
(* index back to it.                                                        *)
THEOREM IndexRepaired == Spec => HeadMoveRepairsIndex
<1> DEFINE Repaired == headHeader' # headHeader => index' = Path[headHeader']
<1>1. AncestryInv /\ [Next]_vars => [Repaired]_vars
  BY AncestryNext
<1> QED BY <1>1, AncestryInvariance, PTL DEF Spec, HeadMoveRepairsIndex

------------------------------------------------------------------------------
(* The execution on top of the store.                                       *)

(* What the execution does to the store: what the store's own callers do,   *)
(* except for a block that runWithoutSetHead writes past the store.         *)
LEMMA StoreSteps ==
    ASSUME [VMNext]_allVars
    PROVE  \/ \E b \in Blocks : PutBlock(b)
           \/ set.at = "putting" /\ NextToPut # Genesis /\ PutBlock(NextToPut)
           \/ PutGenesis
           \/ \E n \in ResetTargets : ResetCanonicalHead(n)
           \/ Iterate("vm")
           \/ set.at = "commit" /\ SetIteratorHead("vm", set.block)
           \/ Restart
           \/ /\ exec.at = "executed" /\ Store(exec.block, TRUE)
              /\ UNCHANGED <<index, heads, headHeader, headBlock, disk,
                             deletedBlocks, emitted, it>>
           \/ UNCHANGED vars
<1>1. CASE UNCHANGED allVars
  BY <1>1 DEF allVars
<1>2. CASE \E b \in Blocks : SyncPut(b) \/ ExecCall(b) \/ SetCall(b)
  BY <1>2 DEF SyncPut, ExecCall, SetCall
<1>3. CASE \E n \in ResetTargets : SyncReset(n)
  BY <1>3 DEF SyncReset
<1>4. CASE \E batched \in BOOLEAN : RunCall(batched)
  BY <1>4 DEF RunCall
<1>5. CASE StopCall \/ SyncUpdate \/ StopStep
  BY <1>5 DEF StopCall, SyncUpdate, StopStep, StopFlip, StopAwait, StopClose
<1>6. CASE VMRestart
  BY <1>6 DEF VMRestart
<1>7. CASE RunStep
  BY <1>7 DEF RunStep, RunBegin, RunIterate, RunReturn, RunIteratorStart,
              RunExecute, RunNextBlock, RunFail, Iterate
<1>8. CASE ExecStep
  <2>1. CASE ExecReturn
    BY <2>1 DEF ExecReturn, vars
  <2> QED BY <1>8, <2>1 DEF ExecStep, ExecBegin, ExecRun, ExecFail
<1>9. CASE SetStep
  BY <1>9 DEF SetStep, SetBegin, SetPut, SetUpdate, SetCheck, SetCommit, SetThrow
<1> QED BY <1>1, <1>2, <1>3, <1>4, <1>5, <1>6, <1>7, <1>8, <1>9 DEF VMNext

(* The lock: who is in it is at its head. *)
InRun == run.at \notin {"idle", "queued"}

InExec == exec.at \in {"busy", "executed"}

InSet == set.at \notin {"idle", "queued"}

LockInv ==
    /\ InRun => Holds("run")
    /\ InExec => Holds("exec")
    /\ InSet => Holds("set")

(* run is in the iterator's callback exactly when the iterator is.          *)
CallbackInv ==
    run.at \in {"callback", "executed"} <=> it["vm"].pc = "callback"

(* setHead puts ancestors of its block, and commits a block it has put.     *)
SetInv ==
    /\ set.at # "idle" => set.next \in 0 .. Number[set.block]
    /\ set.at = "commit" => set.block \in Stored

VMInv == StoreInv /\ VMTypeOK /\ LockInv /\ CallbackInv /\ SetInv

(* A call that is pending has the fields of its record.                     *)
LEMMA PendingFields ==
    ASSUME VMTypeOK
    PROVE  /\ exec.at # "idle" => exec \in Execution /\ exec.block \in Blocks
           /\ set.at # "idle" =>
                set \in [at : {"queued", "putting", "update", "check", "commit"},
                         block : Blocks, next : Nat]
BY DEF VMTypeOK, NoCall, Execution

(* A block written past the store is stored and nothing else.               *)
LEMMA StorePast ==
    ASSUME StoreInv, NEW b \in Blocks, Store(b, TRUE),
           UNCHANGED <<index, heads, headHeader, headBlock, disk,
                       deletedBlocks, emitted, it>>
    PROVE  StoreInv'
<1> USE DEF StoreInv
<1>1. /\ Stored' = Stored \cup {b}
      /\ Stored' \subseteq Blocks
      /\ td' \in [Stored' -> Nat]
      /\ bodies' \subseteq Stored'
  BY StoreType
<1>2. TypeOK'
  BY <1>1 DEF TypeOK, Calling, Idle, Saved
<1> QED BY <1>1, <1>2 DEF CanonicalIndex, CrashLosesNothing, HeadsStored

(* No step of the execution breaks the store.                               *)
LEMMA StoreKept ==
    ASSUME ~ConsensusMayThrow, VMInv, [VMNext]_allVars
    PROVE  StoreInv'
<1> USE DEF VMInv
<1>0. "vm" \in Names
  BY VMExecutionAssumption
<1>1. ASSUME NEW b \in Blocks, PutBlock(b)
      PROVE  StoreInv'
  BY <1>1, PutCanonicalStore, PutSideStore
     DEF PutBlock, PutBlockOrHeader, PutRejectedByConsensus
<1>2. CASE set.at = "putting" /\ NextToPut # Genesis /\ PutBlock(NextToPut)
  <2>1. NextToPut \in Blocks
    BY <1>2, PendingFields, PathFacts DEF SetInv, NextToPut
  <2> QED BY <1>1, <1>2, <2>1
<1>3. CASE PutGenesis
  BY <1>3, PutGenesisStore
<1>4. CASE \E n \in ResetTargets : ResetCanonicalHead(n)
  BY <1>4, ResetStore, BlockchainAssumption
<1>5. CASE Iterate("vm")
  BY <1>0, <1>5, IterateStore
<1>6. CASE set.at = "commit" /\ SetIteratorHead("vm", set.block)
  BY <1>0, <1>6, SetIteratorHeadStore DEF SetInv
<1>7. CASE Restart
  BY <1>7, RestartStore
<1>8. CASE /\ exec.at = "executed" /\ Store(exec.block, TRUE)
           /\ UNCHANGED <<index, heads, headHeader, headBlock, disk,
                          deletedBlocks, emitted, it>>
  BY <1>8, PendingFields, StorePast
<1>9. CASE UNCHANGED vars
  BY <1>9 DEF vars, StoreInv, TypeOK, Stored, Calling, Idle, Saved,
              CanonicalIndex, HeadsStored, CrashLosesNothing
<1> QED BY <1>1, <1>2, <1>3, <1>4, <1>5, <1>6, <1>7, <1>8, <1>9, StoreSteps

Calls == {"run", "exec", "set", "stop"}

(* A call that joins the queue leaves the holder of the lock where it is.   *)
LEMMA EnqueueQueue ==
    ASSUME VMTypeOK, NEW call \in Calls, Enqueue(call)
    PROVE  /\ queue' \in Seq(Calls)
           /\ queue # <<>> => queue' # <<>> /\ Head(queue') = Head(queue)
BY DEF VMTypeOK, Enqueue, Calls

LEMMA ReleaseQueue ==
    ASSUME VMTypeOK, queue # <<>>, Release
    PROVE  queue' \in Seq(Calls)
BY DEF VMTypeOK, Release, Calls

(* What the calls read from the store has its type.                         *)
LEMMA StoreReads ==
    ASSUME StoreInv
    PROVE  /\ VmHead \in Blocks
           /\ headBlock \in Blocks
           /\ Number[headBlock] \in Nat
           /\ it["vm"].pc = "callback" => it["vm"] \in Calling
<1>1. "vm" \in Names /\ Genesis \in Blocks
  BY VMExecutionAssumption, BlockTreeAssumption
<1>2. headBlock \in Blocks
  BY DEF StoreInv, TypeOK
<1> QED BY <1>1, <1>2, PathFacts DEF StoreInv, TypeOK, VmHead, HeadOf, Idle

LEMMA StoreReadsNext ==
    (StoreInv => /\ VmHead \in Blocks
                 /\ headBlock \in Blocks
                 /\ Number[headBlock] \in Nat)'
<1>1. StoreInv => /\ VmHead \in Blocks
                  /\ headBlock \in Blocks
                  /\ Number[headBlock] \in Nat
  BY StoreReads
<1> QED BY <1>1, PTL

(* A put or a reset leaves the iterators alone and forgets no block.        *)
LEMMA StoreMethod ==
    ASSUME \/ \E b \in Blocks : PutBlock(b)
           \/ \E n \in ResetTargets : ResetCanonicalHead(n)
    PROVE  it' = it /\ Stored \subseteq Stored'
<1>1. ASSUME NEW b \in Blocks, PutBlock(b)
      PROVE  it' = it /\ Stored \subseteq Stored'
  <2>1. it' = it /\ Store(b, TRUE)
    BY <1>1 DEF PutBlock, PutBlockOrHeader, PutCanonical, PutSide,
                PutRejectedByConsensus
  <2> QED BY <2>1, PutStores
<1> QED BY <1>1 DEF ResetCanonicalHead, Stored

Control == VMTypeOK /\ LockInv /\ CallbackInv /\ SetInv

(* The sync service, and the calls that come in. *)
LEMMA CallsControl ==
    ASSUME VMInv,
           \/ \E b \in Blocks : SyncPut(b) \/ ExecCall(b) \/ SetCall(b)
           \/ \E n \in ResetTargets : SyncReset(n)
           \/ SyncUpdate
           \/ \E batched \in BOOLEAN : RunCall(batched)
           \/ StopCall
    PROVE  Control'
<1> USE DEF VMInv
<1>0. MaxEvents \in Nat /\ (Event => events' \in 0 .. MaxEvents)
  BY VMExecutionAssumption DEF Event, VMTypeOK
<1>1. CASE (\E b \in Blocks : SyncPut(b)) \/ \E n \in ResetTargets : SyncReset(n)
  <2>1. /\ Event /\ updating' = TRUE
        /\ it' = it /\ Stored \subseteq Stored'
        /\ UNCHANGED <<started, queue, run, exec, set, stop, status, states, height>>
    BY <1>1, StoreMethod DEF SyncPut, SyncReset
  <2> QED BY <2>1, <1>0 DEF Control, VMTypeOK, LockInv, CallbackInv, SetInv,
                            Holds, InRun, InExec, InSet
<1>2. CASE \E b \in Blocks : ExecCall(b)
  <2>1. PICK b \in Blocks : ExecCall(b)
    BY <1>2
  <2>2. exec' = [at |-> "queued", block |-> b, ahead |-> FALSE] /\ exec.at = "idle"
    BY <2>1 DEF ExecCall
  <2>3. queue' \in Seq(Calls) /\ \A c \in Calls : Holds(c) => Holds(c)'
    BY <2>1, EnqueueQueue DEF ExecCall, Holds, Calls
  <2>4. VMTypeOK'
    BY <1>0, <2>1, <2>2, <2>3 DEF ExecCall, Execution, VMTypeOK, Calls
  <2> QED BY <2>1, <2>2, <2>3, <2>4
          DEF ExecCall, Control, LockInv, CallbackInv, SetInv, vars, Stored,
              InRun, InExec, InSet, Calls
<1>3. CASE \E b \in Blocks : SetCall(b)
  <2>1. PICK b \in Blocks : SetCall(b)
    BY <1>3
  <2>2. /\ set' = [at |-> "queued", block |-> b, next |-> FirstToPut(b)]
        /\ set.at = "idle"
    BY <2>1 DEF SetCall
  <2>3. FirstToPut(b) \in 0 .. Number[b] /\ FirstToPut(b) \in Nat
    <3>1. Number[b] \in Nat /\ VmHead \in Blocks /\ Number[VmHead] \in Nat
      BY StoreReads, PathFacts
    <3> QED BY <3>1 DEF FirstToPut, IsAncestor
  <2>4. queue' \in Seq(Calls) /\ \A c \in Calls : Holds(c) => Holds(c)'
    BY <2>1, EnqueueQueue DEF SetCall, Holds, Calls
  <2>5. VMTypeOK'
    BY <1>0, <2>1, <2>2, <2>3, <2>4 DEF SetCall, VMTypeOK, Calls
  <2> QED BY <2>1, <2>2, <2>3, <2>4, <2>5
          DEF SetCall, Control, LockInv, CallbackInv, SetInv, vars, Stored,
              InRun, InExec, InSet, Calls
<1>4. CASE SyncUpdate
  <2>1. /\ updating' = FALSE /\ height' \in Nat
        /\ UNCHANGED <<vars, started, queue, run, exec, set, stop, status,
                       states, events>>
    BY <1>4, StoreReads DEF SyncUpdate
  <2>2. VMTypeOK'
    BY <2>1 DEF VMTypeOK
  <2>3. LockInv' /\ CallbackInv' /\ SetInv'
    BY <2>1 DEF LockInv, CallbackInv, SetInv, vars, Stored, Holds, InRun,
                InExec, InSet
  <2> QED BY <2>2, <2>3 DEF Control
<1>5. CASE \E batched \in BOOLEAN : RunCall(batched)
  <2>1. PICK batched \in BOOLEAN : RunCall(batched)
    BY <1>5
  <2>2. run' \in Run /\ run'.at = "queued" /\ run.at = "idle"
    BY <2>1, BlockTreeAssumption DEF RunCall, NoRun, Run
  <2>3. queue' \in Seq(Calls) /\ \A c \in Calls : Holds(c) => Holds(c)'
    BY <2>1, EnqueueQueue DEF RunCall, Holds, Calls
  <2>4. VMTypeOK'
    BY <1>0, <2>1, <2>2, <2>3 DEF RunCall, VMTypeOK, Calls
  <2> QED BY <2>1, <2>2, <2>3, <2>4
          DEF RunCall, Control, LockInv, CallbackInv, SetInv, vars, Stored,
              InRun, InExec, InSet, Calls
<1>6. CASE StopCall
  <2>1. queue' \in Seq(Calls) /\ \A c \in Calls : Holds(c) => Holds(c)'
    BY <1>6, EnqueueQueue DEF StopCall, Holds, Calls
  <2>2. VMTypeOK'
    BY <1>0, <1>6, <2>1 DEF StopCall, VMTypeOK, Calls
  <2> QED BY <1>6, <2>1, <2>2
          DEF StopCall, Control, LockInv, CallbackInv, SetInv, vars, Stored,
              InRun, InExec, InSet, Calls
<1> QED BY <1>1, <1>2, <1>3, <1>4, <1>5, <1>6

(* run.                                                                     *)
LEMMA RunControl ==
    ASSUME VMInv, StoreInv', RunStep
    PROVE  Control'
<1> USE DEF VMInv
<1>0. /\ "vm" \in Names /\ Genesis \in Blocks /\ MaxBlocks \in Nat
      /\ VmHead \in Blocks /\ VmHead' \in Blocks
      /\ Number[headBlock] \in Nat
      /\ it \in [Names -> Calling \cup {Idle}]
      /\ it["vm"].pc = "callback" => it["vm"] \in Calling
  BY VMExecutionAssumption, BlockTreeAssumption, BlockchainAssumption,
     StoreReads, StoreReadsNext DEF StoreInv, TypeOK
<1>1. /\ run \in Run /\ queue \in Seq(Calls)
      /\ VMTypeOK
  BY DEF VMTypeOK, Calls
<1> DEFINE Rest == /\ UNCHANGED <<started, exec, set, stop, updating, events>>
                   /\ Stored' = Stored
           Types == /\ run' \in Run /\ queue' \in Seq(Calls)
                    /\ status' \in [block : Blocks, valid : BOOLEAN]
                    /\ states' \subseteq Blocks /\ height' \in Nat
<1>2. ASSUME Rest, Types, run.at # "idle", queue' = queue,
             run.at = "queued" => Holds("run"),
             CallbackInv'
      PROVE  Control'
  <2>1. VMTypeOK'
    BY <1>1, <1>2 DEF VMTypeOK, Calls
  <2>2. Holds("run")'
    BY <1>2 DEF LockInv, InRun, Holds
  <2> QED BY <1>2, <2>1, <2>2 DEF Control, LockInv, SetInv, Holds, InRun, InExec, InSet
<1>3. CASE RunBegin
  <2>1. run' \in Run /\ run'.at = "loop"
    BY <1>0, <1>1, <1>3 DEF RunBegin, Run
  <2>2. status' \in [block : Blocks, valid : BOOLEAN]
    BY <1>0, <1>1, <1>3 DEF RunBegin, StatusAfterReset, VMTypeOK
  <2>3. Rest /\ Types /\ queue' = queue /\ it' = it
    BY <1>1, <1>3, <2>1, <2>2 DEF RunBegin, vars, outside, Stored, VMTypeOK
  <2> QED BY <1>2, <1>3, <2>1, <2>3 DEF RunBegin, CallbackInv
<1>4. CASE RunIterate
  <2>1. run' \in Run /\ run'.at = "iterate"
    BY <1>1, <1>4 DEF RunIterate, Run
  <2>2. Rest /\ Types /\ queue' = queue /\ it' = it
    BY <1>1, <1>4, <2>1 DEF RunIterate, vars, outside, Stored, VMTypeOK
  <2> QED BY <1>2, <1>4, <2>1, <2>2 DEF RunIterate, CallbackInv
<1>5. CASE RunReturn
  <2>1. run' = NoRun /\ NoRun \in Run /\ NoRun.at = "idle"
    BY <1>0, <1>5 DEF RunReturn, NoRun, Run
  <2>2. queue # <<>> /\ Head(queue) = "run"
    BY <1>5 DEF RunReturn, LockInv, InRun, Holds
  <2>3. queue' \in Seq(Calls)
    BY <1>1, <1>5, <2>2, ReleaseQueue DEF RunReturn
  <2>4. ~InExec /\ ~InSet
    BY <2>2 DEF LockInv, Holds
  <2>5. VMTypeOK'
    BY <1>1, <1>5, <2>1, <2>3 DEF RunReturn, vars, outside, VMTypeOK, Calls
  <2> QED BY <1>5, <2>1, <2>4, <2>5
          DEF RunReturn, vars, outside, Stored, Control, LockInv, CallbackInv,
              SetInv, InRun, InExec, InSet
<1>6. ASSUME NEW ran \in Nat, AfterIterator(ran), Iterate("vm"),
             run.at \in {"iterate", "executed"},
             UNCHANGED <<started, queue, exec, set, stop, status, states, outside>>
      PROVE  Control'
  <2>1. /\ UNCHANGED <<td, bodies, index, headHeader, headBlock, deletedBlocks>>
        /\ it' \in [Names -> Calling \cup {Idle}]
    BY <1>0, <1>6, IterateHeads DEF StoreInv, TypeOK
  <2>2. it'["vm"] = Idle \/ it'["vm"] \in Calling
    BY <1>0, <2>1
  <2>3. CASE it'["vm"] = Idle
    <3>1. run' \in Run /\ run'.at = "after"
      <4>1. run' = [run EXCEPT !.at = "after", !.start = VmHead', !.count = ran]
        BY <1>6, <2>3 DEF AfterIterator
      <4> QED BY <1>0, <1>1, <1>6, <4>1 DEF Run
    <3>2. height' \in Nat
      BY <1>0, <1>1, <1>6, <2>3 DEF AfterIterator, VMTypeOK
    <3>3. Rest /\ Types
      BY <1>1, <1>6, <2>1, <3>1, <3>2 DEF outside, Stored, VMTypeOK
    <3>4. CallbackInv'
      BY <2>3, <3>1 DEF CallbackInv, Idle
    <3> QED BY <1>2, <1>6, <3>3, <3>4
  <2>4. CASE it'["vm"] \in Calling
    <3>1. it'["vm"] # Idle /\ it'["vm"].pc = "callback"
      BY <2>4 DEF Calling, Idle
    <3>2. run' \in Run /\ run'.at = "callback" /\ height' = height
      BY <1>1, <1>6, <3>1 DEF AfterIterator, Run
    <3>3. Rest /\ Types
      BY <1>1, <1>6, <2>1, <3>2 DEF outside, Stored, VMTypeOK
    <3>4. CallbackInv'
      BY <3>1, <3>2 DEF CallbackInv
    <3> QED BY <1>2, <1>6, <3>3, <3>4
  <2> QED BY <2>2, <2>3, <2>4
<1>7. CASE RunIteratorStart
  <2>1. AfterIterator(0) /\ Iterate("vm")
    BY <1>7 DEF RunIteratorStart, Iterate
  <2> QED BY <1>6, <1>7, <2>1 DEF RunIteratorStart
<1>8. CASE RunNextBlock
  <2>1. it["vm"] \in Calling
    BY <1>0, <1>8 DEF RunNextBlock, CallbackInv
  <2>2. it["vm"].ran + 1 \in Nat
    BY <2>1 DEF Calling
  <2>3. AfterIterator(it["vm"].ran + 1) /\ Iterate("vm")
    BY <1>8 DEF RunNextBlock, Iterate
  <2> QED BY <1>6, <1>8, <2>2, <2>3 DEF RunNextBlock
<1>9. CASE RunExecute
  <2>1. it["vm"].blk \in Blocks /\ run.at = "callback"
    BY <1>0, <1>9 DEF RunExecute, CallbackInv, Calling
  <2>2. run' \in Run /\ run'.at = "executed"
    BY <1>1, <1>9, <2>1 DEF RunExecute, Run
  <2>3. states' \subseteq Blocks
    BY <1>1, <1>9, <2>1 DEF RunExecute, VMTypeOK
  <2>4. Rest /\ Types /\ queue' = queue /\ it' = it
    BY <1>1, <1>9, <2>2, <2>3 DEF RunExecute, vars, outside, Stored, VMTypeOK
  <2> QED BY <1>2, <2>1, <2>2, <2>4 DEF CallbackInv
<1>10. CASE RunFail
  <2>1. it["vm"].blk \in Blocks /\ run.at = "callback"
    BY <1>0, <1>10 DEF RunFail, CallbackInv, Calling
  <2>2. IteratorThrow("vm")
    BY <1>10 DEF RunFail
  <2>3. it'["vm"] = Idle /\ Stored' = Stored /\ Idle.pc = "idle"
    BY <1>0, <2>2 DEF IteratorThrow, Stored, Idle
  <2>4. CountUpTo(it["vm"].blk) \in Nat
    <3>1. Number[it["vm"].blk] \in Nat /\ Number[run.start] \in Nat
      BY <1>1, <2>1, PathFacts DEF Run
    <3> QED BY <3>1 DEF CountUpTo
  <2>5. run' \in Run /\ run'.at = "after"
    BY <1>0, <1>1, <1>10, <2>4 DEF RunFail, Run
  <2>6. states' \subseteq Blocks
    BY <1>1, <1>10, <2>1 DEF RunFail, StatesAfterFailure, VMTypeOK
  <2>7. status' \in [block : Blocks, valid : BOOLEAN]
    BY <1>1, <1>10, <2>1 DEF RunFail, VMTypeOK
  <2>8. height' \in Nat
    BY <1>0, <1>1, <1>10 DEF RunFail, VMTypeOK
  <2>9. Rest /\ Types /\ queue' = queue
    BY <1>1, <1>10, <2>3, <2>5, <2>6, <2>7, <2>8 DEF RunFail, outside
  <2> QED BY <1>2, <2>1, <2>3, <2>5, <2>9 DEF CallbackInv
<1> QED BY <1>3, <1>4, <1>5, <1>7, <1>8, <1>9, <1>10 DEF RunStep

(* The holder of the lock leaves, its call done; whoever else waits does so *)
(* outside the lock.                                                        *)
LEMMA Leaving ==
    ASSUME VMInv, NEW call \in Calls, Holds(call), Release
    PROVE  /\ queue' \in Seq(Calls)
           /\ call # "run" => ~InRun
           /\ call # "exec" => ~InExec
           /\ call # "set" => ~InSet
BY ReleaseQueue DEF VMInv, LockInv, Holds

(* runWithoutSetHead.                                                       *)
LEMMA ExecControl ==
    ASSUME VMInv, ExecStep
    PROVE  Control'
<1> USE DEF VMInv
<1>0. /\ VmHead \in Blocks /\ queue \in Seq(Calls)
      /\ exec \in Execution /\ exec.block \in Blocks
      /\ exec.at # "idle"
  BY StoreReads, PendingFields
     DEF ExecStep, ExecBegin, ExecRun, ExecFail, ExecReturn, VMTypeOK, Calls
<1>1. CASE ExecBegin
  <2>1. /\ exec' \in Execution
        /\ exec'.at = "busy"
    BY <1>0, <1>1 DEF ExecBegin, Execution
  <2>2. status' \in [block : Blocks, valid : BOOLEAN]
    BY <1>0, <1>1 DEF ExecBegin, StatusAfterReset, VMTypeOK
  <2>3. VMTypeOK'
    BY <1>1, <2>1, <2>2 DEF ExecBegin, outside, VMTypeOK
  <2> QED BY <1>1, <2>1, <2>3
          DEF ExecBegin, vars, outside, Stored, Control, LockInv, CallbackInv,
              SetInv, InRun, InExec, InSet, Holds
<1>2. CASE ExecRun
  <2>1. /\ exec' \in Execution
        /\ exec'.at = "executed" /\ exec.at = "busy"
    <3>1. TooFarAhead(exec.block) \in BOOLEAN
      <4>1. height \in Nat /\ Number[exec.block] \in Nat
        BY <1>0, BlockTreeAssumption DEF VMTypeOK
      <4> QED BY <4>1, SMT DEF TooFarAhead
    <3> QED BY <1>0, <1>2, <3>1 DEF ExecRun, Execution
  <2>2. VMTypeOK'
    BY <1>0, <1>2, <2>1 DEF ExecRun, outside, VMTypeOK
  <2> QED BY <1>2, <2>1, <2>2
          DEF ExecRun, vars, outside, Stored, Control, LockInv, CallbackInv,
              SetInv, InRun, InExec, InSet, Holds
<1>3. CASE ExecFail \/ ExecReturn
  <2>1. /\ Holds("exec") /\ Release /\ exec' = NoCall
        /\ UNCHANGED <<it, started, run, set, stop, status, height, outside>>
    BY <1>3 DEF ExecFail, ExecReturn, LockInv, InExec, vars
  <2>2. queue' \in Seq(Calls) /\ ~InRun /\ ~InSet
    BY <2>1, Leaving DEF Calls
  <2>3. states' \subseteq Blocks
    BY <1>0, <1>3 DEF ExecFail, ExecReturn, StatesAfterFailure, VMTypeOK
  <2>4. Stored \subseteq Stored'
    BY <1>0, <1>3, PutStores DEF ExecFail, ExecReturn, vars, Stored
  <2>5. VMTypeOK'
    BY <2>1, <2>2, <2>3 DEF outside, VMTypeOK, Calls
  <2> QED BY <2>1, <2>2, <2>4, <2>5
          DEF Control, LockInv, CallbackInv, SetInv, InRun, InExec, InSet, NoCall
<1> QED BY <1>1, <1>2, <1>3 DEF ExecStep

(* setHead.                                                                 *)
LEMMA SetControl ==
    ASSUME VMInv, StoreInv', SetStep
    PROVE  Control'
<1> USE DEF VMInv
<1> DEFINE Set == [at : {"queued", "putting", "update", "check", "commit"},
                   block : Blocks, next : Nat]
<1>0. /\ VmHead \in Blocks /\ queue \in Seq(Calls)
      /\ Number[headBlock] \in Nat /\ Number[headBlock'] \in Nat
      /\ set \in Set /\ set.at # "idle"
      /\ set.next \in 0 .. Number[set.block] /\ Number[set.block] \in Nat
  <2>1. set.at # "idle"
    BY DEF SetStep, SetBegin, SetPut, SetUpdate, SetCheck, SetCommit, SetThrow
  <2>2. set \in Set
    BY <2>1, PendingFields
  <2> QED BY <2>1, <2>2, StoreReads, StoreReadsNext, PathFacts
          DEF SetInv, VMTypeOK, Calls
<1>1. ASSUME set' \in Set, set'.at \notin {"queued"}, Holds("set"),
             set'.block = set.block, set'.next \in 0 .. Number[set.block],
             set'.at = "commit" => set.block \in Stored',
             it' = it, height' \in Nat,
             status' \in [block : Blocks, valid : BOOLEAN],
             UNCHANGED <<started, queue, run, exec, stop, states, outside>>
      PROVE  Control'
  <2>1. VMTypeOK'
    BY <1>1 DEF outside, VMTypeOK
  <2> QED BY <1>1, <2>1
          DEF Control, LockInv, CallbackInv, SetInv, InRun, InExec, InSet, Holds
<1>2. CASE SetBegin
  <2>1. set' \in Set /\ set'.at = "putting" /\ set'.block = set.block /\ set'.next = set.next
    BY <1>0, <1>2 DEF SetBegin
  <2> QED BY <1>0, <1>1, <1>2, <2>1 DEF SetBegin, vars, VMTypeOK
<1>3. CASE SetPut
  <2>1. set' \in Set /\ set'.at = "update" /\ set'.block = set.block /\ set'.next = set.next
    BY <1>0, <1>3 DEF SetPut
  <2>2. it' = it
    <3>1. NextToPut \in Blocks
      BY <1>0, PathFacts DEF NextToPut
    <3> QED BY <1>3, <3>1, StoreMethod DEF SetPut, PutGenesis
  <2> QED BY <1>0, <1>1, <1>3, <2>1, <2>2 DEF SetPut, LockInv, InSet, VMTypeOK
<1>4. CASE SetUpdate
  <2>1. /\ set' \in Set /\ set'.at \in {"check", "putting"} /\ set'.block = set.block
        /\ set'.next \in 0 .. Number[set.block]
    <3>1. CASE set.next = Number[set.block]
      <4>1. set' = [set EXCEPT !.at = "check"]
        BY <1>4, <3>1 DEF SetUpdate
      <4> QED BY <1>0, <4>1
    <3>2. CASE set.next # Number[set.block]
      <4>1. set' = [set EXCEPT !.at = "putting", !.next = set.next + 1]
        BY <1>4, <3>2 DEF SetUpdate
      <4>2. set.next + 1 \in Nat /\ set.next + 1 \in 0 .. Number[set.block]
        BY <1>0, <3>2
      <4> QED BY <1>0, <4>1, <4>2
    <3> QED BY <3>1, <3>2
  <2> QED BY <1>0, <1>1, <1>4, <2>1 DEF SetUpdate, vars, LockInv, InSet, VMTypeOK
<1>5. CASE SetCheck
  <2>1. set' \in Set /\ set'.at = "commit" /\ set'.block = set.block /\ set'.next = set.next
    BY <1>0, <1>5 DEF SetCheck
  <2>2. set.block \in Stored'
    BY <1>5 DEF SetCheck, OnChain, Indexed, StoreInv, TypeOK, vars, Stored
  <2>3. status' \in [block : Blocks, valid : BOOLEAN]
    BY <1>0, <1>5 DEF SetCheck, StatusAfterReset, VMTypeOK
  <2> QED BY <1>0, <1>1, <1>5, <2>1, <2>2, <2>3
          DEF SetCheck, vars, LockInv, InSet, VMTypeOK
<1>6. CASE SetCommit \/ SetThrow
  <2>1. /\ Holds("set") /\ Release /\ set' = NoCall /\ it' = it
        /\ UNCHANGED <<started, run, exec, stop, states, outside>>
    BY <1>6 DEF SetCommit, SetThrow, SetIteratorHead, LockInv, InSet, vars
  <2>2. queue' \in Seq(Calls) /\ ~InRun /\ ~InExec
    BY <2>1, Leaving DEF Calls
  <2>3. status' \in [block : Blocks, valid : BOOLEAN] /\ height' \in Nat
    <3>1. CASE SetCommit
      <4>1. status' = [block |-> set.block, valid |-> TRUE] /\ height' = Number[headBlock]
        BY <3>1 DEF SetCommit
      <4>2. set.block \in Blocks
        BY <1>0
      <4> QED BY <1>0, <4>1, <4>2
    <3>2. CASE SetThrow
      BY <3>2 DEF SetThrow, VMTypeOK
    <3> QED BY <1>6, <3>1, <3>2
  <2>4. VMTypeOK'
    BY <2>1, <2>2, <2>3 DEF outside, VMTypeOK, Calls
  <2> QED BY <2>1, <2>2, <2>4
          DEF Control, LockInv, CallbackInv, SetInv, InRun, InExec, InSet, NoCall
<1> QED BY <1>2, <1>3, <1>4, <1>5, <1>6 DEF SetStep

(* stop, and the restart.                                                   *)
LEMMA StopControl ==
    ASSUME VMInv, StoreInv', StopStep \/ VMRestart
    PROVE  Control'
<1> USE DEF VMInv
<1>0. MaxEvents \in Nat /\ (Event => events' \in 0 .. MaxEvents)
  BY VMExecutionAssumption DEF Event, VMTypeOK
<1>1. CASE StopFlip \/ StopClose
  <2>1. /\ Holds("stop") /\ Release
        /\ UNCHANGED <<vars, run, exec, set, status, states, height, outside>>
    BY <1>1 DEF StopFlip, StopClose
  <2>2. queue' \in Seq(Calls) /\ ~InRun /\ ~InExec /\ ~InSet
    BY <2>1, Leaving DEF Calls
  <2>3. VMTypeOK'
    BY <1>1, <2>1, <2>2 DEF StopFlip, StopClose, outside, VMTypeOK, Calls
  <2> QED BY <2>1, <2>2, <2>3
          DEF vars, Stored, Control, LockInv, CallbackInv, SetInv, InRun, InExec, InSet
<1>2. CASE StopAwait
  <2>1. queue' \in Seq(Calls) /\ \A c \in Calls : Holds(c) => Holds(c)'
    BY <1>2, EnqueueQueue DEF StopAwait, Holds, Calls
  <2>2. VMTypeOK'
    BY <1>2, <2>1 DEF StopAwait, outside, VMTypeOK, Calls
  <2> QED BY <1>2, <2>1, <2>2
          DEF StopAwait, Control, LockInv, CallbackInv, SetInv, vars, Stored,
              InRun, InExec, InSet, Calls
<1>3. CASE VMRestart
  <2>1. /\ run' = NoRun /\ NoRun \in Run /\ NoRun.at = "idle"
        /\ set' = NoCall /\ exec' = NoCall /\ NoCall.at = "idle"
    BY <1>3, BlockTreeAssumption DEF VMRestart, NoRun, NoCall, Run
  <2>2. /\ status' \in [block : Blocks, valid : BOOLEAN]
        /\ height' \in Nat
    BY <1>3, StoreReadsNext DEF VMRestart
  <2>3. queue' \in Seq({"run", "exec", "set", "stop"})
    BY <1>3 DEF VMRestart
  <2>4. it'["vm"].pc = "idle"
    BY <1>3, VMExecutionAssumption DEF VMRestart, Restart, Idle
  <2>5. VMTypeOK'
    BY <1>0, <1>3, <2>1, <2>2, <2>3 DEF VMRestart, VMTypeOK
  <2> QED BY <2>1, <2>4, <2>5
          DEF Control, LockInv, CallbackInv, SetInv, InRun, InExec, InSet
<1> QED BY <1>1, <1>2, <1>3 DEF StopStep

LEMMA VMInitInv == VMInit => VMInv
<1> SUFFICES ASSUME VMInit PROVE VMInv
  OBVIOUS
<1>1. StoreInv
  BY InitInv, StoreInvHolds DEF VMInit
<1>2. Genesis \in Blocks /\ "vm" \in Names /\ MaxEvents \in Nat
  BY BlockTreeAssumption, VMExecutionAssumption
<1>3. /\ run = NoRun /\ NoRun \in Run /\ NoRun.at = "idle"
      /\ set = NoCall /\ exec = NoCall /\ NoCall.at = "idle"
  BY <1>2 DEF VMInit, NoRun, NoCall, Run
<1>4. VMTypeOK
  <2>1. queue \in Seq({"run", "exec", "set", "stop"})
    BY DEF VMInit
  <2>2. run \in Run /\ exec = NoCall /\ set = NoCall
    BY <1>3
  <2>3. status \in [block : Blocks, valid : BOOLEAN]
    BY <1>2 DEF VMInit
  <2>4. events \in 0 .. MaxEvents /\ height \in Nat
    BY <1>2 DEF VMInit
  <2> QED BY <1>2, <2>1, <2>2, <2>3, <2>4 DEF VMInit, VMTypeOK
<1>5. it["vm"].pc = "idle"
  BY <1>2 DEF VMInit, Init, Idle
<1> QED BY <1>1, <1>3, <1>4, <1>5
        DEF VMInv, LockInv, CallbackInv, SetInv, InRun, InExec, InSet

(* Every step of the execution keeps its invariant and the store's.         *)
LEMMA VMNextInv ==
    ASSUME ~ConsensusMayThrow, VMInv, [VMNext]_allVars
    PROVE  VMInv'
<1>1. StoreInv'
  BY StoreKept
<1>2. CASE UNCHANGED allVars
  <2>1. Stored' = Stored
    BY <1>2 DEF allVars, vars, Stored
  <2> QED BY <1>1, <1>2, <2>1
          DEF allVars, vars, execVars, VMInv, VMTypeOK, LockInv, CallbackInv,
              SetInv, InRun, InExec, InSet, Holds
<1>3. CASE VMNext
  <2>1. Control'
    BY <1>1, <1>3, CallsControl, RunControl, ExecControl, SetControl, StopControl
       DEF VMNext
  <2> QED BY <1>1, <2>1 DEF VMInv, Control
<1> QED BY <1>2, <1>3

(* The invariant of the execution and of the store below it.                *)
THEOREM VMInvariance ==
    ASSUME ~ConsensusMayThrow
    PROVE  VMSpec => []VMInv
<1>1. VMInv /\ [VMNext]_allVars => VMInv'
  BY VMNextInv
<1> QED BY <1>1, VMInitInv, PTL DEF VMSpec

(* The store keeps its promises under the execution, which also writes      *)
(* blocks past it and moves its heads: the index is the ancestry of the     *)
(* head, and dying after any step loses no pointer.                         *)
THEOREM StoreUnderExecution ==
    ASSUME ~ConsensusMayThrow
    PROVE  VMSpec => [](CanonicalIndex /\ CrashLosesNothing)
<1>1. VMInv => CanonicalIndex /\ CrashLosesNothing
  BY DEF VMInv, StoreInv
<1> QED BY <1>1, VMInvariance, PTL

(* The types of the execution's state, whatever comes in.                   *)
THEOREM VMTypeCorrect ==
    ASSUME ~ConsensusMayThrow
    PROVE  VMSpec => []VMTypeOK
<1>1. VMInv => VMTypeOK
  BY DEF VMInv
<1> QED BY <1>1, VMInvariance, PTL

------------------------------------------------------------------------------
(* Shutting down.                                                           *)

Waits(call) == \E i \in 1 .. Len(queue) : queue[i] = call

(* The queue of the lock holds every pending call once, in the order they   *)
(* came, and the second turn of stop is its end: nothing is let in after    *)
(* the first, which took started away.                                      *)
QueueInv ==
    /\ \A i, j \in 1 .. Len(queue) : queue[i] = queue[j] => i = j
    /\ run.at # "idle" <=> Waits("run")
    /\ exec.at # "idle" <=> Waits("exec")
    /\ set.at # "idle" <=> Waits("set")
    /\ stop \in {"queued", "closing"} <=> Waits("stop")
    /\ stop \notin {"idle", "queued"} => ~started
    /\ stop = "closing" => queue # <<>> /\ queue[Len(queue)] = "stop"
    /\ stop = "closed" => queue = <<>>

(* A call that was not waiting joins at the end.                            *)
LEMMA Joins ==
    ASSUME VMTypeOK, QueueInv, NEW call \in Calls, ~Waits(call), Enqueue(call)
    PROVE  /\ \A i, j \in 1 .. Len(queue') : queue'[i] = queue'[j] => i = j
           /\ \A c \in Calls : Waits(c)' <=> Waits(c) \/ c = call
           /\ queue' # <<>> /\ queue'[Len(queue')] = call
<1>1. queue \in Seq(Calls) /\ Len(queue) \in Nat
  BY DEF VMTypeOK, Calls
<1>2. /\ queue' = Append(queue, call)
      /\ Len(queue') = Len(queue) + 1
      /\ \A i \in 1 .. Len(queue) : queue'[i] = queue[i]
      /\ queue'[Len(queue) + 1] = call
  BY <1>1 DEF Enqueue
<1>3. \A i \in 1 .. Len(queue') : i \in 1 .. Len(queue) \/ i = Len(queue) + 1
  BY <1>1, <1>2
<1>4. \A i \in 1 .. Len(queue) : queue[i] # call
  BY DEF Waits
<1>5. \A i, j \in 1 .. Len(queue') : queue'[i] = queue'[j] => i = j
  BY <1>1, <1>2, <1>3, <1>4 DEF QueueInv
<1>6. \A c \in Calls : Waits(c)' <=> Waits(c) \/ c = call
  <2>1. ASSUME NEW c \in Calls
        PROVE  Waits(c)' <=> Waits(c) \/ c = call
    <3>1. Waits(c)' <=> \E i \in 1 .. Len(queue') : queue'[i] = c
      BY DEF Waits
    <3>2. 1 .. Len(queue) \subseteq 1 .. Len(queue') /\ Len(queue) + 1 \in 1 .. Len(queue')
      BY <1>1, <1>2
    <3> QED BY <1>2, <1>3, <3>1, <3>2 DEF Waits
  <2> QED BY <2>1
<1> QED BY <1>1, <1>2, <1>5, <1>6

(* The holder leaves, and the others move up.                               *)
LEMMA MovesUp ==
    ASSUME VMTypeOK, QueueInv, NEW call \in Calls, Holds(call), Release
    PROVE  /\ \A i, j \in 1 .. Len(queue') : queue'[i] = queue'[j] => i = j
           /\ \A c \in Calls : Waits(c)' <=> Waits(c) /\ c # call
           /\ \/ queue' = <<>>
              \/ queue'[Len(queue')] = queue[Len(queue)]
<1>1. queue \in Seq(Calls) /\ queue # <<>> /\ Len(queue) \in Nat \ {0} /\ queue[1] = call
  BY DEF VMTypeOK, Calls, Holds
<1>2. /\ queue' \in Seq(Calls)
      /\ Len(queue') = Len(queue) - 1
      /\ \A i \in 1 .. Len(queue) - 1 : queue'[i] = queue[i + 1]
  BY <1>1 DEF Release
<1>3. \A i, j \in 1 .. Len(queue) : queue[i] = queue[j] => i = j
  BY DEF QueueInv
<1>4. \A i, j \in 1 .. Len(queue') : queue'[i] = queue'[j] => i = j
  BY <1>1, <1>2, <1>3
<1>5. ASSUME NEW c \in Calls
      PROVE  Waits(c)' <=> Waits(c) /\ c # call
  <2>1. Waits(c)' <=> \E i \in 1 .. Len(queue') : queue'[i] = c
    BY DEF Waits
  <2>2. ASSUME NEW i \in 1 .. Len(queue'), queue'[i] = c
        PROVE  Waits(c) /\ c # call
    <3>1. i + 1 \in 1 .. Len(queue) /\ queue[i + 1] = c /\ i + 1 # 1
      BY <1>1, <1>2, <2>2
    <3>2. c # call
      BY <1>1, <1>3, <3>1
    <3> QED BY <3>1, <3>2 DEF Waits
  <2>3. ASSUME NEW i \in 1 .. Len(queue), queue[i] = c, c # call
        PROVE  \E k \in 1 .. Len(queue') : queue'[k] = c
    <3>1. i # 1
      BY <1>1, <2>3
    <3>2. i - 1 \in 1 .. Len(queue') /\ queue'[i - 1] = queue[(i - 1) + 1] /\ (i - 1) + 1 = i
      BY <1>1, <1>2, <3>1
    <3> QED BY <2>3, <3>2
  <2> QED BY <2>1, <2>2, <2>3 DEF Waits
<1>6. queue' = <<>> \/ queue'[Len(queue')] = queue[Len(queue)]
  <2>1. CASE Len(queue') = 0
    BY <1>2, <2>1
  <2>2. CASE Len(queue') # 0
    BY <1>1, <1>2, <2>2
  <2> QED BY <2>1, <2>2
<1> QED BY <1>4, <1>5, <1>6

(* The steps that neither join nor leave the queue.                         *)
LEMMA StaysQueued ==
    ASSUME QueueInv, UNCHANGED <<queue, started, stop>>,
           run'.at = "idle" <=> run.at = "idle",
           exec'.at = "idle" <=> exec.at = "idle",
           set'.at = "idle" <=> set.at = "idle"
    PROVE  QueueInv'
BY DEF QueueInv, Waits

LEMMA QueueNext ==
    ASSUME VMInv, QueueInv, [VMNext]_allVars
    PROVE  QueueInv'
<1> USE DEF VMInv
<1>0. /\ VMTypeOK /\ run \in Run /\ NoRun.at = "idle" /\ NoCall.at = "idle"
      /\ exec.at # "idle" => exec \in Execution
      /\ set.at # "idle" =>
            set \in [at : {"queued", "putting", "update", "check", "commit"},
                     block : Blocks, next : Nat]
  BY PendingFields DEF VMTypeOK, NoRun, NoCall
<1>1. CASE UNCHANGED allVars
  BY <1>1, StaysQueued DEF allVars, execVars
<1>2. CASE SyncUpdate \/ (\E b \in Blocks : SyncPut(b)) \/ \E n \in ResetTargets : SyncReset(n)
  BY <1>2, StaysQueued DEF SyncUpdate, SyncPut, SyncReset
<1>3. CASE RunStep /\ ~RunReturn
  <2>1. UNCHANGED <<queue, started, stop, exec, set>>
    BY <1>3 DEF RunStep, RunBegin, RunIterate, RunIteratorStart, RunExecute,
                RunNextBlock, RunFail
  <2>2. run.at # "idle"
    BY <1>3 DEF RunStep, RunBegin, RunIterate, RunIteratorStart, RunExecute,
                RunNextBlock, RunFail
  <2>3. run'.at \in {"loop", "iterate", "after", "callback", "executed"}
    BY <1>0, <1>3 DEF RunStep, RunBegin, RunIterate, RunIteratorStart,
                      RunExecute, RunNextBlock, RunFail, AfterIterator, Run
  <2> QED BY <2>1, <2>2, <2>3, StaysQueued
<1>4. CASE ExecBegin \/ ExecRun
  <2>1. UNCHANGED <<queue, started, stop, run, set>> /\ exec.at # "idle"
    BY <1>4 DEF ExecBegin, ExecRun
  <2>2. exec'.at \in {"busy", "executed"}
    BY <1>0, <1>4, <2>1 DEF ExecBegin, ExecRun, Execution
  <2> QED BY <2>1, <2>2, StaysQueued
<1>5. CASE SetBegin \/ SetPut \/ SetUpdate \/ SetCheck
  <2>1. UNCHANGED <<queue, started, stop, run, exec>> /\ set.at # "idle"
    BY <1>5 DEF SetBegin, SetPut, SetUpdate, SetCheck
  <2>2. set'.at \in {"putting", "update", "check", "commit"}
    BY <1>0, <1>5, <2>1 DEF SetBegin, SetPut, SetUpdate, SetCheck
  <2> QED BY <2>1, <2>2, StaysQueued
<1>6. CASE \E batched \in BOOLEAN : RunCall(batched)
  <2>1. /\ started /\ run.at = "idle" /\ run'.at = "queued" /\ Enqueue("run")
        /\ UNCHANGED <<started, exec, set, stop>>
    BY <1>0, <1>6 DEF RunCall, Run, NoRun
  <2>2. ~Waits("run")
    BY <2>1 DEF QueueInv
  <2> QED BY <1>0, <2>1, <2>2, Joins DEF QueueInv, Calls
<1>7. CASE \E b \in Blocks : ExecCall(b)
  <2>1. /\ started /\ exec.at = "idle" /\ exec'.at = "queued" /\ Enqueue("exec")
        /\ UNCHANGED <<started, run, set, stop>>
    BY <1>7 DEF ExecCall
  <2>2. ~Waits("exec")
    BY <2>1 DEF QueueInv
  <2> QED BY <1>0, <2>1, <2>2, Joins DEF QueueInv, Calls
<1>8. CASE \E b \in Blocks : SetCall(b)
  <2>1. /\ started /\ set.at = "idle" /\ set'.at = "queued" /\ Enqueue("set")
        /\ UNCHANGED <<started, run, exec, stop>>
    BY <1>8 DEF SetCall
  <2>2. ~Waits("set")
    BY <2>1 DEF QueueInv
  <2> QED BY <1>0, <2>1, <2>2, Joins DEF QueueInv, Calls
<1>9. CASE StopCall \/ StopAwait
  <2>1. /\ \/ stop = "idle" /\ stop' = "queued"
           \/ stop = "flipped" /\ stop' = "closing"
        /\ Enqueue("stop") /\ UNCHANGED <<started, run, exec, set>>
    BY <1>9 DEF StopCall, StopAwait
  <2>2. ~Waits("stop")
    BY <2>1 DEF QueueInv
  <2> QED BY <1>0, <2>1, <2>2, Joins DEF QueueInv, Calls
<1>10. ASSUME NEW call \in {"run", "exec", "set"}, Holds(call), Release,
              UNCHANGED <<started, stop>>,
              run'.at = "idle" <=> (run.at = "idle" \/ call = "run"),
              exec'.at = "idle" <=> (exec.at = "idle" \/ call = "exec"),
              set'.at = "idle" <=> (set.at = "idle" \/ call = "set")
       PROVE  QueueInv'
  <2>1. /\ \A i, j \in 1 .. Len(queue') : queue'[i] = queue'[j] => i = j
        /\ \A c \in Calls : Waits(c)' <=> Waits(c) /\ c # call
        /\ queue' = <<>> \/ queue'[Len(queue')] = queue[Len(queue)]
    BY <1>0, <1>10, MovesUp DEF Calls
  <2>2. Waits("stop")' => queue' # <<>>
    BY DEF Waits
  <2>3. stop = "closed" => queue' = <<>>
    BY <1>10 DEF QueueInv, Holds
  <2> QED BY <1>10, <2>1, <2>2, <2>3 DEF QueueInv, Calls
<1>11. CASE RunReturn
  <2>1. Holds("run") /\ Release /\ run'.at = "idle" /\ UNCHANGED <<started, exec, set, stop>>
    BY <1>0, <1>11 DEF RunReturn, LockInv, InRun
  <2> QED BY <1>10, <2>1
<1>12. CASE ExecFail \/ ExecReturn
  <2>1. Holds("exec") /\ Release /\ exec'.at = "idle" /\ UNCHANGED <<started, run, set, stop>>
    BY <1>0, <1>12 DEF ExecFail, ExecReturn, LockInv, InExec
  <2> QED BY <1>10, <2>1
<1>13. CASE SetCommit \/ SetThrow
  <2>1. Holds("set") /\ Release /\ set'.at = "idle" /\ UNCHANGED <<started, run, exec, stop>>
    BY <1>0, <1>13 DEF SetCommit, SetThrow, LockInv, InSet
  <2> QED BY <1>10, <2>1
<1>14. CASE StopFlip \/ StopClose
  <2>1. Holds("stop") /\ Release /\ UNCHANGED <<run, exec, set>>
    BY <1>14 DEF StopFlip, StopClose
  <2>2. /\ \A i, j \in 1 .. Len(queue') : queue'[i] = queue'[j] => i = j
        /\ \A c \in Calls : Waits(c)' <=> Waits(c) /\ c # "stop"
    BY <1>0, <2>1, MovesUp DEF Calls
  <2>3. CASE StopFlip
    <3>1. stop' = "flipped" /\ ~started'
      BY <2>3 DEF StopFlip
    <3> QED BY <2>1, <2>2, <3>1 DEF QueueInv, Calls
  <2>4. CASE StopClose
    <3>1. stop = "closing" /\ stop' = "closed" /\ UNCHANGED started
      BY <2>4 DEF StopClose
    <3>2. queue \in Seq(Calls) /\ queue # <<>> /\ queue[1] = "stop" /\ queue[Len(queue)] = "stop"
      BY <1>0, <2>1, <3>1 DEF QueueInv, VMTypeOK, Calls, Holds
    <3>3. Len(queue) = 1
      <4>1. Len(queue) \in Nat \ {0}
        BY <3>2
      <4>2. 1 \in 1 .. Len(queue) /\ Len(queue) \in 1 .. Len(queue)
        BY <4>1
      <4> QED BY <3>2, <4>2 DEF QueueInv
    <3>4. queue' = <<>>
      BY <2>1, <3>2, <3>3 DEF Release
    <3> QED BY <2>1, <2>2, <3>1, <3>4 DEF QueueInv, Calls
  <2> QED BY <1>14, <2>3, <2>4
<1>15. CASE VMRestart
  <2>1. /\ started' = TRUE /\ queue' = <<>> /\ stop' = "idle"
        /\ run'.at = "idle" /\ exec'.at = "idle" /\ set'.at = "idle"
    BY <1>0, <1>15 DEF VMRestart
  <2>2. \A c \in Calls : ~Waits(c)'
    BY <2>1 DEF Waits
  <2> QED BY <2>1, <2>2 DEF QueueInv, Calls
<1> QED BY <1>1, <1>2, <1>3, <1>4, <1>5, <1>6, <1>7, <1>8, <1>9, <1>11, <1>12,
           <1>13, <1>14, <1>15
        DEF VMNext, RunStep, ExecStep, SetStep, StopStep

LEMMA QueueInit == VMInit => QueueInv
BY DEF VMInit, QueueInv, Waits, NoRun, NoCall

(* Who is executing, putting or committing is alone: the lock has one       *)
(* holder, and everybody else is behind it in the queue, once.              *)
THEOREM LockInvariance ==
    ASSUME ~ConsensusMayThrow
    PROVE  VMSpec => [](LockInv /\ QueueInv)
<1>1. VMInv => LockInv
  BY DEF VMInv
<1>2. VMInv /\ QueueInv /\ [VMNext]_allVars => QueueInv'
  BY QueueNext
<1> QED BY <1>1, <1>2, QueueInit, VMInvariance, PTL DEF VMSpec

(* After stop has closed the state database nothing is executed, and no     *)
(* call that came in before the flag fell is still on its way.              *)
THEOREM ClosedForGood ==
    ASSUME ~ConsensusMayThrow
    PROVE  VMSpec => ClosedIsQuiet
<1> DEFINE Quiet == stop = "closed" /\ stop' = "closed" => UNCHANGED <<states, status, queue>>
<1>1. VMInv /\ QueueInv /\ [VMNext]_allVars => [Quiet]_allVars
  <2> SUFFICES ASSUME QueueInv, VMNext, stop = "closed", stop' = "closed"
               PROVE  UNCHANGED <<states, status, queue>>
    OBVIOUS
  <2>1. ~started /\ queue = <<>> /\ \A c \in Calls : ~Waits(c)
    BY DEF QueueInv, Waits
  <2>2. run.at = "idle" /\ exec.at = "idle" /\ set.at = "idle"
    BY <2>1 DEF QueueInv, Calls
  <2>3. ~RunStep
    BY <2>2 DEF RunStep, RunBegin, RunIterate, RunReturn, RunIteratorStart,
                RunExecute, RunNextBlock, RunFail
  <2>4. ~ExecStep
    BY <2>2 DEF ExecStep, ExecBegin, ExecRun, ExecFail, ExecReturn
  <2>5. ~SetStep
    BY <2>2 DEF SetStep, SetBegin, SetPut, SetUpdate, SetCheck, SetCommit, SetThrow
  <2>6. ~StopStep /\ ~StopCall
    BY DEF StopStep, StopFlip, StopAwait, StopClose, StopCall
  <2>7. ~VMRestart
    BY DEF VMRestart
  <2>8. /\ \A batched \in BOOLEAN : ~RunCall(batched)
        /\ \A b \in Blocks : ~ExecCall(b) /\ ~SetCall(b)
    BY <2>1 DEF RunCall, ExecCall, SetCall
  <2>9. CASE SyncUpdate \/ (\E b \in Blocks : SyncPut(b)) \/ \E n \in ResetTargets : SyncReset(n)
    BY <2>9 DEF SyncUpdate, SyncPut, SyncReset
  <2> QED BY <2>3, <2>4, <2>5, <2>6, <2>7, <2>8, <2>9 DEF VMNext
<1>2. VMInv /\ QueueInv /\ [VMNext]_allVars => QueueInv'
  BY QueueNext
<1> QED BY <1>1, <1>2, QueueInit, VMInvariance, PTL DEF VMSpec, ClosedIsQuiet

------------------------------------------------------------------------------
(* The vm head.                                                             *)

(* The head of the chain is its highest full block.                         *)
TipInv == headBlock = headHeader

(* A block is executed on its parent's state, and states are not deleted.   *)
StatesInv ==
    /\ Genesis \in states
    /\ \A b \in states : \A n \in 0 .. Number[b] : Path[b][n] \in states

(* The block a run returns from, and the one a setHead works for.           *)
ExecutedInv ==
    /\ run.at = "executed" => it["vm"].blk \in states
    /\ InSet => set.block \in states

(* The known height is that of the head unless an update of it is due.      *)
HeightInv == ~updating /\ set.at # "update" => height = Number[headBlock]

Executed(h) == h # NoBlock => h \in states /\ OnChain(h)

(* While setHead is between a put and its update, the height may be an old  *)
(* one, but never so old that a block below the vm head is not skipped.     *)
HeadInv ==
    /\ Executed(heads["vm"])
    /\ Executed(disk.heads["vm"])
    /\ ~updating /\ set.at = "update" => Number[VmHead] <= height

EngineInv ==
    /\ TipInv /\ StatesInv /\ ExecutedInv /\ HeightInv
    /\ ~raced => HeadInv

(* A reorg to b takes a canonical pointer to an ancestor of the block it    *)
(* pointed to, or down to b itself.                                         *)
LEMMA ReorgAncestor ==
    ASSUME TypeOK, CanonicalIndex, NEW b \in Blocks, HasCommonAncestor(b),
           NEW p \in Blocks, OnChain(p)
    PROVE  \/ HeadAfter(p, b) = b /\ Number[b] < Number[p]
           \/ \E k \in 0 .. Number[p] : HeadAfter(p, b) = Path[p][k]
<1> DEFINE N == Number[b]
           np == Number[p]
           meet == RebuildEnd(b)
<1>1. headHeader \in Blocks /\ index = Path[headHeader]
  BY DEF TypeOK, CanonicalIndex
<1>2. /\ N \in Nat /\ np \in Nat
      /\ np \in DOMAIN index /\ index[np] = p
      /\ DOMAIN index = 0 .. Number[headHeader] /\ Number[headHeader] \in Nat
      /\ Path[p][np] = p
  BY <1>1, PathFacts DEF OnChain, Indexed
<1>3. \A n \in DOMAIN index : Number[index[n]] = n
  BY <1>1, <1>2, PathFacts
<1>4. /\ meet \in 0 .. N /\ meet \in DOMAIN index /\ index[meet] = Path[b][meet]
  BY RebuildMeets, ReorgIndex
<1>5. \A k \in 0 .. np : Path[p][k] = index[k]
  BY <1>1, <1>2, PathFacts
<1>6. HeadAfter(p, b) \in {AfterDelete(p, b), Path[b][meet]}
  BY DEF HeadAfter, Redirect
<1>7. DeletedFrom(N + 1) = {n \in DOMAIN index : n > N}
  BY <1>2 DEF DeletedFrom
<1>8. CASE np > N
  <2>1. AfterDelete(p, b) = b
    BY <1>8, <1>2, <1>7 DEF AfterDelete, Redirect
  <2>2. meet \in 0 .. np
    BY <1>2, <1>4, <1>8
  <2> QED BY <1>2, <1>4, <1>5, <1>6, <1>8, <2>1, <2>2
<1>9. CASE np <= N
  <2>1. AfterDelete(p, b) = p
    BY <1>9, <1>2, <1>3, <1>7 DEF AfterDelete, Redirect
  <2>2. CASE HeadAfter(p, b) = p
    BY <1>2, <2>2
  <2>3. CASE HeadAfter(p, b) # p
    <3>1. HeadAfter(p, b) = Path[b][meet]
      BY <1>6, <2>1, <2>3
    <3>2. Number[HeadAfter(p, b)] < np
      BY <2>3, ReorgHead
    <3>3. Number[Path[b][meet]] = meet
      BY <1>4, PathFacts
    <3>4. meet \in 0 .. np
      BY <1>2, <1>4, <3>1, <3>2, <3>3
    <3> QED BY <1>4, <1>5, <3>1, <3>4
  <2> QED BY <2>2, <2>3
<1> QED BY <1>2, <1>8, <1>9

(* A put by proof of stake keeps the vm head on an executed block if the    *)
(* new block is an executed one or not below the head.                      *)
LEMMA PutExecuted ==
    ASSUME ~ConsensusMayThrow, ProofOfStake, StoreInv, StatesInv,
           NEW b \in Blocks, PutBlock(b), UNCHANGED states,
           Executed(heads["vm"]),
           b \in states \/ Number[VmHead] <= Number[b]
    PROVE  /\ Executed(heads["vm"])'
           /\ Executed(disk.heads["vm"])'
           /\ Number[VmHead'] <= Number[VmHead]
<1> DEFINE p == heads["vm"]
           q == heads'["vm"]
<1>1. PutCanonical(b, TRUE)
  BY DEF PutBlock, PutBlockOrHeader, PutSide, PutRejectedByConsensus, BecomesCanonical
<1>2. /\ TypeOK /\ CanonicalIndex /\ HasCommonAncestor(b)
      /\ "vm" \in Names /\ Genesis \in Blocks /\ NoBlock \notin Blocks
      /\ p \in Stored \cup {NoBlock} /\ Stored \subseteq Blocks
  BY <1>1, VMExecutionAssumption, BlockchainAssumption, BlockTreeAssumption
     DEF StoreInv, PutCanonical, TypeOK
<1>3. q = HeadAfter(p, b) /\ index' = Path[b] /\ disk'.heads = heads'
  BY <1>1, <1>2, ReorgIndex DEF PutCanonical, HeadsAfter, SaveHeads
<1>4. CASE p = NoBlock
  <2>1. q = NoBlock
    BY <1>2, <1>3, <1>4, UnsetHead
  <2>2. VmHead' = Genesis /\ VmHead = Genesis /\ Number[Genesis] \in Nat
    BY <1>2, <1>4, <2>1, PathFacts DEF VmHead, HeadOf
  <2> QED BY <1>3, <2>1, <2>2 DEF Executed
<1>5. CASE p # NoBlock
  <2>1. p \in Blocks /\ OnChain(p) /\ p \in states /\ VmHead = p
    BY <1>2, <1>5 DEF Executed, VmHead, HeadOf
  <2>2. /\ q \in Blocks /\ Indexed(q, Path[b])
        /\ Indexed(p, Path[b]) => q = p
        /\ ~Indexed(p, Path[b]) => Number[q] < Number[p]
    BY <1>2, <1>3, <2>1, ReorgHead
  <2>3. q \in states
    <3>1. \/ q = b /\ Number[b] < Number[p]
          \/ \E k \in 0 .. Number[p] : q = Path[p][k]
      BY <1>2, <1>3, <2>1, ReorgAncestor
    <3>2. Number[p] \in Nat /\ Number[b] \in Nat
      BY <2>1, PathFacts
    <3>3. CASE q = b /\ Number[b] < Number[p]
      BY <2>1, <3>2, <3>3
    <3>4. CASE \E k \in 0 .. Number[p] : q = Path[p][k]
      BY <2>1, <3>4 DEF StatesInv
    <3> QED BY <3>1, <3>3, <3>4
  <2>4. q # NoBlock /\ VmHead' = q
    BY <1>2, <2>2 DEF VmHead, HeadOf
  <2>5. Number[q] \in Nat /\ Number[p] \in Nat
    BY <2>1, <2>2, PathFacts
  <2>6. Number[q] <= Number[p]
    BY <2>2, <2>5
  <2> QED BY <1>3, <2>1, <2>2, <2>3, <2>4, <2>6 DEF Executed, OnChain, Indexed
<1> QED BY <1>4, <1>5

(* So does a reset.                                                         *)
LEMMA ResetExecuted ==
    ASSUME StoreInv, StatesInv, NEW n \in Nat, ResetCanonicalHead(n),
           UNCHANGED states, Executed(heads["vm"])
    PROVE  Executed(heads["vm"])' /\ Executed(disk.heads["vm"])'
<1> DEFINE p == heads["vm"]
           q == heads'["vm"]
<1>1. /\ TypeOK /\ CanonicalIndex
      /\ "vm" \in Names /\ NoBlock \notin Blocks
      /\ p \in Stored \cup {NoBlock} /\ Stored \subseteq Blocks
      /\ headHeader \in Blocks /\ index = Path[headHeader]
  BY VMExecutionAssumption, BlockchainAssumption DEF StoreInv, TypeOK, CanonicalIndex
<1>2. n \in DOMAIN index /\ index[n] \in Blocks /\ index' = Path[index[n]]
  BY <1>1, ResetIndex
<1>3. /\ q = Redirect(p, DeletedFrom(n + 1), index[n])
      /\ disk'.heads = heads'
  BY <1>1 DEF ResetCanonicalHead, SaveHeads
<1>4. CASE p = NoBlock
  <2>1. \A m \in DeletedFrom(n + 1) : index[m] # NoBlock
    BY <1>1 DEF TypeOK, DeletedFrom
  <2>2. q = NoBlock
    BY <1>3, <1>4, <2>1 DEF Redirect
  <2> QED BY <1>3, <2>2 DEF Executed
<1>5. CASE p # NoBlock
  <2>1. p \in Blocks /\ OnChain(p) /\ p \in states
    BY <1>1, <1>5 DEF Executed
  <2>2. q \in Blocks /\ Indexed(q, Path[index[n]])
    BY <1>1, <1>2, <1>3, <2>1, ResetHead
  <2>3. q \in states
    <3>1. CASE q = p
      BY <2>1, <3>1
    <3>2. CASE q # p
      <4>1. PICK m \in DeletedFrom(n + 1) : index[m] = p /\ q = index[n]
        BY <1>3, <3>2 DEF Redirect
      <4>2. m \in DOMAIN index /\ m >= n + 1
        BY <4>1 DEF DeletedFrom
      <4>3. /\ DOMAIN index = 0 .. Number[headHeader]
            /\ Number[headHeader] \in Nat /\ Number[p] = m
        <5>1. Number[headHeader] \in Nat /\ DOMAIN index = 0 .. Number[headHeader]
          BY <1>1, PathFacts
        <5>2. Number[index[m]] = m
          BY <1>1, <4>2, <5>1, PathFacts
        <5> QED BY <4>1, <5>1, <5>2
      <4>4. n \in 0 .. Number[p] /\ n \in 0 .. m
        BY <4>2, <4>3
      <4>5. Path[p][n] = index[n]
        BY <1>1, <4>1, <4>2, <4>3, <4>4, PathFacts
      <4> QED BY <2>1, <4>1, <4>4, <4>5 DEF StatesInv
    <3> QED BY <3>1, <3>2
  <2> QED BY <1>2, <1>3, <2>2, <2>3 DEF Executed, OnChain, Indexed
<1> QED BY <1>4, <1>5

(* Nothing but full blocks is put. *)
LEMMA TipNext ==
    ASSUME ~ConsensusMayThrow, ProofOfStake, VMInv, TipInv, [VMNext]_allVars
    PROVE  TipInv'
<1>1. TypeOK /\ CanonicalIndex /\ CrashLosesNothing
  BY DEF VMInv, StoreInv
<1>2. ASSUME NEW b \in Blocks, PutBlock(b)
      PROVE  TipInv'
  <2>1. PutCanonical(b, TRUE)
    BY <1>2 DEF PutBlock, PutBlockOrHeader, PutSide, PutRejectedByConsensus,
                BecomesCanonical
  <2> QED BY <2>1, <1>1, TipStays DEF PutCanonical, TipInv
<1>3. CASE set.at = "putting" /\ NextToPut # Genesis /\ PutBlock(NextToPut)
  <2>1. NextToPut \in Blocks
    BY <1>3, PendingFields, PathFacts DEF VMInv, SetInv, NextToPut
  <2> QED BY <1>2, <1>3, <2>1
<1>4. CASE \E n \in ResetTargets : ResetCanonicalHead(n)
  BY <1>4 DEF ResetCanonicalHead, TipInv
<1>5. CASE Restart
  BY <1>1, <1>5 DEF Restart, CrashLosesNothing, TipInv
<1>6. CASE Iterate("vm")
  <2>1. UNCHANGED <<headHeader, headBlock>>
    BY <1>6 DEF Iterate, IteratorStart, IteratorAdvance, IteratorReorged,
                IteratorThrow, LoopTop
  <2> QED BY <2>1 DEF TipInv
<1>7. CASE UNCHANGED <<headHeader, headBlock>>
  BY <1>7 DEF TipInv
<1> QED BY <1>2, <1>3, <1>4, <1>5, <1>6, <1>7, StoreSteps
        DEF PutGenesis, SetIteratorHead, vars

(* Execution adds children of executed blocks. *)
LEMMA ChildExecuted ==
    ASSUME StatesInv, NEW b \in Blocks, Parent(b) \in states,
           states' \in {states, states \cup {b}}
    PROVE  StatesInv'
<1>1. /\ Number[b] \in Nat /\ Path[b][Number[b]] = b
      /\ \A n \in 0 .. Number[b] :
            /\ Path[b][n] \in Blocks
            /\ Number[Path[b][n]] = n
            /\ \A m \in 0 .. n : Path[Path[b][n]][m] = Path[b][m]
  BY PathFacts
<1>2. ASSUME NEW n \in 0 .. Number[b]
      PROVE  Path[b][n] \in states \cup {b}
  <2>1. CASE n = Number[b]
    BY <1>1, <2>1
  <2>2. CASE n # Number[b]
    <3>1. /\ Number[b] - 1 \in 0 .. Number[b] /\ n \in 0 .. Number[b] - 1
      BY <1>1, <2>2
    <3>2. Number[Parent(b)] = Number[b] - 1 /\ Path[Parent(b)][n] = Path[b][n]
      BY <1>1, <3>1 DEF Parent
    <3> QED BY <3>1, <3>2 DEF StatesInv
  <2> QED BY <2>1, <2>2
<1> QED BY <1>2 DEF StatesInv

LEMMA StatesNext ==
    ASSUME VMInv, StatesInv, [VMNext]_allVars
    PROVE  StatesInv'
<1>1. /\ it["vm"].pc = "callback" => it["vm"].blk \in Blocks
      /\ exec.at # "idle" => exec.block \in Blocks
  BY StoreReads, PendingFields DEF VMInv, Calling
<1>2. CASE RunExecute
  <2>1. it["vm"].blk \in Blocks
    BY <1>1, <1>2 DEF RunExecute, VMInv, CallbackInv
  <2>2. Parent(it["vm"].blk) \in states /\ states' = states \cup {it["vm"].blk}
    BY <1>2 DEF RunExecute, Executes
  <2> QED BY <2>1, <2>2, ChildExecuted
<1>3. CASE RunFail
  <2>1. it["vm"].blk \in Blocks
    BY <1>1, <1>3 DEF RunFail, VMInv, CallbackInv
  <2>2. states' = states \/ /\ Parent(it["vm"].blk) \in states
                            /\ states' = states \cup {it["vm"].blk}
    BY <1>3 DEF RunFail, StatesAfterFailure
  <2> QED BY <2>1, <2>2, ChildExecuted DEF StatesInv
<1>4. CASE ExecRun \/ ExecFail
  <2>1. exec.block \in Blocks
    BY <1>1, <1>4 DEF ExecRun, ExecFail
  <2>2. states' = states \/ /\ Parent(exec.block) \in states
                            /\ states' = states \cup {exec.block}
    BY <1>4 DEF ExecRun, ExecFail, ExecOk, Executes, StatesAfterFailure
  <2> QED BY <2>1, <2>2, ChildExecuted DEF StatesInv
<1>5. CASE states' = states
  BY <1>5 DEF StatesInv
<1> QED BY <1>2, <1>3, <1>4, <1>5
        DEF VMNext, allVars, execVars, SyncPut, ExecCall, SetCall, SyncReset,
            RunCall, StopCall, VMRestart, SyncUpdate, RunStep, RunBegin,
            RunIterate, RunReturn, RunIteratorStart, RunNextBlock, ExecStep,
            ExecBegin, ExecReturn, SetStep, SetBegin, SetPut, SetUpdate,
            SetCheck, SetCommit, SetThrow, StopStep, StopFlip, StopAwait, StopClose

(* The states the node has are never taken back. *)
LEMMA StatesGrow ==
    ASSUME [VMNext]_allVars
    PROVE  states \subseteq states'
<1>1. CASE RunFail
  BY <1>1 DEF RunFail, StatesAfterFailure
<1>2. CASE ExecFail
  BY <1>2 DEF ExecFail, StatesAfterFailure
<1>3. CASE RunExecute \/ ExecRun
  BY <1>3 DEF RunExecute, ExecRun
<1>4. CASE states' = states
  BY <1>4
<1> QED BY <1>1, <1>2, <1>3, <1>4
        DEF VMNext, allVars, execVars, SyncPut, ExecCall, SetCall, SyncReset,
            RunCall, StopCall, VMRestart, SyncUpdate, RunStep, RunBegin,
            RunIterate, RunReturn, RunIteratorStart, RunNextBlock, ExecStep,
            ExecBegin, ExecReturn, SetStep, SetBegin, SetPut, SetUpdate,
            SetCheck, SetCommit, SetThrow, StopStep, StopFlip, StopAwait, StopClose

(* A setHead at work keeps its block, and only an executed one gets there.  *)
LEMMA SetBlockKept ==
    ASSUME VMInv, [VMNext]_allVars
    PROVE  (InSet)' => /\ set'.block = set.block
                       /\ InSet \/ set.block \in states
<1>1. /\ NoCall.at = "idle"
      /\ set.at # "idle" =>
            set \in [at : {"queued", "putting", "update", "check", "commit"},
                     block : Blocks, next : Nat]
  BY PendingFields DEF VMInv, NoCall
<1>2. CASE set' = set
  BY <1>2 DEF InSet
<1>3. CASE SetBegin
  BY <1>1, <1>3 DEF SetBegin
<1>4. CASE SetPut \/ SetUpdate \/ SetCheck
  <2>1. InSet
    BY <1>4 DEF InSet, SetPut, SetUpdate, SetCheck
  <2>2. set'.block = set.block
    BY <1>1, <1>4, <2>1 DEF InSet, SetPut, SetUpdate, SetCheck
  <2> QED BY <2>1, <2>2
<1>5. CASE SetCommit \/ SetThrow \/ VMRestart
  BY <1>1, <1>5 DEF InSet, SetCommit, SetThrow, VMRestart
<1>6. CASE \E b \in Blocks : SetCall(b)
  BY <1>6 DEF InSet, SetCall
<1> QED BY <1>2, <1>3, <1>4, <1>5, <1>6
        DEF VMNext, allVars, execVars, SyncPut, ExecCall, SyncReset, RunCall,
            StopCall, SyncUpdate, RunStep, RunBegin, RunIterate, RunReturn,
            RunIteratorStart, RunNextBlock, RunExecute, RunFail, ExecStep,
            ExecBegin, ExecRun, ExecFail, ExecReturn, SetStep, StopStep,
            StopFlip, StopAwait, StopClose

LEMMA ExecutedNext ==
    ASSUME VMInv, ExecutedInv, [VMNext]_allVars
    PROVE  ExecutedInv'
<1>1. states \subseteq states'
  BY StatesGrow
<1>2. (InSet)' => set'.block \in states'
  BY <1>1, SetBlockKept DEF ExecutedInv
<1>3. run \in Run
  BY DEF VMInv, VMTypeOK
<1>4. CASE RunExecute
  BY <1>2, <1>4 DEF RunExecute, vars, ExecutedInv
<1>5. CASE RunStep /\ ~RunExecute
  <2>1. run'.at # "executed"
    <3>1. CASE RunBegin \/ RunIterate
      BY <1>3, <3>1 DEF RunBegin, RunIterate, Run
    <3>2. CASE RunReturn
      BY <3>2 DEF RunReturn, NoRun
    <3>3. CASE RunIteratorStart \/ RunNextBlock
      BY <1>3, <3>3 DEF RunIteratorStart, RunNextBlock, AfterIterator, Run
    <3>4. CASE RunFail
      <4>1. \E n : run' = [run EXCEPT !.at = "after", !.start = VmHead, !.count = n]
        BY <3>4 DEF RunFail
      <4> QED BY <1>3, <4>1 DEF Run
    <3> QED BY <1>5, <3>1, <3>2, <3>3, <3>4 DEF RunStep
  <2> QED BY <1>2, <2>1 DEF ExecutedInv
<1>6. CASE VMRestart \/ \E batched \in BOOLEAN : RunCall(batched)
  <2>1. run'.at # "executed"
    <3>1. CASE VMRestart
      BY <3>1 DEF VMRestart, NoRun
    <3>2. CASE \E batched \in BOOLEAN : RunCall(batched)
      <4>1. \E x : run' = [NoRun EXCEPT !.at = "queued", !.batched = x]
        BY <3>2 DEF RunCall
      <4> QED BY <4>1 DEF NoRun
    <3> QED BY <1>6, <3>1, <3>2
  <2> QED BY <1>2, <2>1 DEF ExecutedInv
<1>7. CASE (\E b \in Blocks : SyncPut(b)) \/ \E n \in ResetTargets : SyncReset(n)
  <2>1. it' = it /\ run' = run
    BY <1>7, StoreMethod DEF SyncPut, SyncReset
  <2> QED BY <1>1, <1>2, <2>1 DEF ExecutedInv
<1>8. CASE SetPut
  <2>1. NextToPut \in Blocks
    BY <1>8, PendingFields, PathFacts DEF VMInv, SetInv, NextToPut, SetPut
  <2>2. it' = it /\ run' = run
    BY <1>8, <2>1, StoreMethod DEF SetPut, PutGenesis
  <2> QED BY <1>1, <1>2, <2>2 DEF ExecutedInv
<1>9. CASE it' = it /\ run' = run
  BY <1>1, <1>2, <1>9 DEF ExecutedInv
<1> QED BY <1>4, <1>5, <1>6, <1>7, <1>8, <1>9
        DEF VMNext, allVars, vars, execVars, ExecCall, SetCall, StopCall,
            SyncUpdate, RunStep, ExecStep, ExecBegin, ExecRun, ExecFail,
            ExecReturn, SetStep, SetBegin, SetUpdate, SetCheck, SetCommit,
            SetIteratorHead, SetThrow, StopStep, StopFlip, StopAwait, StopClose

LEMMA HeightNext ==
    ASSUME VMInv, HeightInv, [VMNext]_allVars
    PROVE  HeightInv'
<1>0. /\ NoCall.at = "idle"
      /\ set.at # "idle" =>
            set \in [at : {"queued", "putting", "update", "check", "commit"},
                     block : Blocks, next : Nat]
  BY PendingFields DEF VMInv, NoCall
<1>1. ASSUME headBlock' = headBlock, set' = set, updating' = updating,
             height' \in {height, Number[headBlock]}
      PROVE  HeightInv'
  BY <1>1 DEF HeightInv
<1>2. CASE SyncUpdate \/ (\E b \in Blocks : SyncPut(b)) \/ \E n \in ResetTargets : SyncReset(n)
  BY <1>2 DEF SyncUpdate, SyncPut, SyncReset, HeightInv, vars
<1>3. CASE SetPut
  <2>1. set'.at = "update"
    BY <1>0, <1>3 DEF SetPut
  <2> QED BY <2>1 DEF HeightInv
<1>4. CASE SetUpdate \/ SetCommit \/ VMRestart
  BY <1>4 DEF SetUpdate, SetCommit, SetIteratorHead, VMRestart, HeightInv, vars
<1>5. CASE SetBegin \/ SetCheck \/ SetThrow \/ \E b \in Blocks : SetCall(b)
  <2>1. set.at # "update" /\ UNCHANGED <<vars, height, updating>>
    BY <1>5 DEF SetBegin, SetCheck, SetThrow, SetCall, outside
  <2> QED BY <2>1 DEF HeightInv, vars
<1>6. CASE RunIteratorStart \/ RunNextBlock \/ RunFail
  <2>1. Iterate("vm") /\ UNCHANGED <<set, updating>>
    BY <1>6 DEF RunIteratorStart, RunNextBlock, RunFail, Iterate, outside
  <2>2. headBlock' = headBlock
    BY <2>1, IterateHeads, VMExecutionAssumption DEF VMInv
  <2>3. height' \in {height, Number[headBlock]}
    BY <1>6 DEF RunIteratorStart, RunNextBlock, RunFail, AfterIterator
  <2> QED BY <1>1, <2>1, <2>2, <2>3
<1>7. CASE UNCHANGED <<headBlock, set, updating, height>>
  BY <1>1, <1>7
<1> QED BY <1>2, <1>3, <1>4, <1>5, <1>6, <1>7
        DEF VMNext, allVars, vars, execVars, outside, ExecCall, RunCall,
            StopCall, RunStep, RunBegin, RunIterate, RunReturn, RunExecute,
            ExecStep, ExecBegin, ExecRun, ExecFail, ExecReturn, SetStep,
            StopStep, StopFlip, StopAwait, StopClose

(* A head on the chain is not above the head of the chain.                  *)
LEMMA BelowTip ==
    ASSUME StoreInv, TipInv, Executed(heads["vm"])
    PROVE  Number[VmHead] <= Number[headBlock]
<1>1. /\ headHeader \in Blocks /\ index = Path[headHeader] /\ headBlock = headHeader
      /\ "vm" \in Names
  BY VMExecutionAssumption DEF StoreInv, TypeOK, CanonicalIndex, TipInv
<1>2. Number[headHeader] \in Nat /\ DOMAIN index = 0 .. Number[headHeader]
  BY <1>1, PathFacts
<1>3. CASE heads["vm"] = NoBlock
  <2>1. Number[Genesis] = 0
    BY BlockTreeAssumption
  <2> QED BY <1>1, <1>2, <1>3, <2>1 DEF VmHead, HeadOf
<1>4. CASE heads["vm"] # NoBlock
  <2>1. Number[heads["vm"]] \in DOMAIN index /\ VmHead = heads["vm"]
    BY <1>4 DEF Executed, OnChain, Indexed, VmHead, HeadOf
  <2> QED BY <1>1, <1>2, <2>1
<1> QED BY <1>3, <1>4

(* Steps that move neither the vm head nor the chain. *)
LEMMA HeadUnmoved ==
    ASSUME HeadInv, states \subseteq states', UNCHANGED <<heads, disk, index>>,
           (~updating' /\ set'.at = "update") =>
                ~updating /\ set.at = "update" /\ height' = height
    PROVE  HeadInv'
BY DEF HeadInv, Executed, OnChain, Indexed, VmHead, HeadOf

(* A block put by the sync service: it is not below the height it knows.    *)
LEMMA SyncKeepsHead ==
    ASSUME ~ConsensusMayThrow, ProofOfStake, SkipLower, VMInv,
           TipInv, StatesInv, HeightInv, HeadInv,
           (\E b \in Blocks : SyncPut(b)) \/ \E n \in ResetTargets : SyncReset(n)
    PROVE  HeadInv'
<1>0. StoreInv /\ Executed(heads["vm"]) /\ height \in Nat
  BY DEF VMInv, HeadInv, VMTypeOK
<1>1. CASE \E b \in Blocks : SyncPut(b)
  <2>1. PICK b \in Blocks : SyncPut(b)
    BY <1>1
  <2>2. /\ PutBlock(b) /\ ~updating /\ updating' = TRUE /\ states' = states
        /\ ~(Number[b] < height)
    BY <2>1 DEF SyncPut, Skips
  <2>3. Number[VmHead] <= height
    BY <1>0, <2>2, BelowTip DEF HeightInv, HeadInv
  <2>4. Number[VmHead] \in Nat /\ Number[b] \in Nat
    BY <1>0, StoreReads, PathFacts
  <2>5. Number[VmHead] <= Number[b]
    BY <1>0, <2>2, <2>3, <2>4
  <2> QED BY <1>0, <2>2, <2>5, PutExecuted DEF HeadInv
<1>2. CASE \E n \in ResetTargets : SyncReset(n)
  <2>1. PICK n \in ResetTargets : SyncReset(n)
    BY <1>2
  <2>2. n \in Nat /\ ResetCanonicalHead(n) /\ updating' = TRUE /\ states' = states
    BY <2>1, BlockchainAssumption DEF SyncReset
  <2> QED BY <1>0, <2>2, ResetExecuted DEF HeadInv
<1> QED BY <1>1, <1>2

(* setHead puts ancestors of an executed block, then sets the head to it.   *)
LEMMA SetKeepsHead ==
    ASSUME ~ConsensusMayThrow, ProofOfStake, VMInv,
           TipInv, StatesInv, ExecutedInv, HeightInv,
           (SetPut /\ HeadInv) \/ (SetCommit /\ OnChain(set.block))
    PROVE  HeadInv'
<1>0. /\ StoreInv /\ "vm" \in Names /\ height \in Nat
      /\ set.at # "idle" =>
            set \in [at : {"queued", "putting", "update", "check", "commit"},
                     block : Blocks, next : Nat]
  BY VMExecutionAssumption, PendingFields DEF VMInv, VMTypeOK
<1>1. CASE SetPut /\ HeadInv
  <2>1. /\ set.at = "putting" /\ states' = states /\ height' = height
        /\ updating' = updating
        /\ Executed(heads["vm"]) /\ set.block \in states
    BY <1>1 DEF SetPut, HeadInv, outside, ExecutedInv, InSet
  <2>2. ~updating => Number[VmHead] <= height
    BY <1>0, <2>1, BelowTip DEF HeightInv
  <2>3. CASE NextToPut # Genesis
    <3>1. NextToPut \in Blocks /\ NextToPut \in states
      BY <1>0, <2>1, PathFacts DEF VMInv, SetInv, NextToPut, StatesInv
    <3>2. PutBlock(NextToPut)
      BY <1>1, <2>3 DEF SetPut
    <3>3. /\ Executed(heads["vm"])' /\ Executed(disk.heads["vm"])'
          /\ Number[VmHead'] <= Number[VmHead]
      BY <1>0, <2>1, <3>1, <3>2, PutExecuted
    <3>4. VmHead \in Blocks /\ VmHead' \in Blocks
      <4>1. StoreInv'
        BY <1>1, StoreKept DEF VMNext, SetStep
      <4> QED BY <1>0, <4>1, StoreReads, StoreReadsNext
    <3>5. Number[VmHead] \in Nat /\ Number[VmHead'] \in Nat
      BY <3>4, PathFacts
    <3>6. ~updating => Number[VmHead'] <= height
      BY <1>0, <2>2, <3>3, <3>5
    <3> QED BY <2>1, <3>3, <3>6 DEF HeadInv
  <2>4. CASE NextToPut = Genesis
    <3>1. UNCHANGED <<heads, disk, index>>
      BY <1>1, <2>4 DEF SetPut, PutGenesis
    <3> QED BY <1>1, <2>1, <2>2, <3>1
            DEF HeadInv, Executed, OnChain, Indexed, VmHead, HeadOf
  <2> QED BY <2>3, <2>4
<1>2. CASE SetCommit /\ OnChain(set.block)
  <2>1. /\ heads' = [heads EXCEPT !["vm"] = set.block]
        /\ index' = index /\ states' = states
        /\ set'.at = "idle" /\ set.block \in states
    BY <1>2 DEF SetCommit, SetIteratorHead, NoCall, ExecutedInv, InSet
  <2>2. disk'.heads = heads'
    BY <1>2 DEF SetCommit, SetIteratorHead, SaveHeads
  <2>3. heads'["vm"] = set.block
    BY <1>0, <2>1 DEF StoreInv, TypeOK
  <2> QED BY <1>2, <2>1, <2>2, <2>3 DEF HeadInv, Executed, OnChain, Indexed
<1> QED BY <1>1, <1>2

(* The iterator moves the head to the block whose execution it waited for.  *)
LEMMA RunKeepsHead ==
    ASSUME VMInv, ExecutedInv, HeadInv,
           RunIteratorStart \/ RunNextBlock \/ RunFail
    PROVE  HeadInv'
<1>0. StoreInv /\ "vm" \in Names
  BY VMExecutionAssumption DEF VMInv
<1>1. Iterate("vm") /\ set' = set
  BY DEF RunIteratorStart, RunNextBlock, RunFail, Iterate
<1>2. states \subseteq states'
  BY DEF RunIteratorStart, RunNextBlock, RunFail, StatesAfterFailure
<1>3. set.at # "update"
  BY DEF VMInv, LockInv, InRun, InSet, Holds, RunIteratorStart, RunNextBlock, RunFail
<1>4. /\ index' = index
      /\ \/ heads' = heads
         \/ /\ IteratorAdvance("vm")
            /\ heads' = [heads EXCEPT !["vm"] = it["vm"].blk]
      /\ disk' = disk \/ disk'.heads = heads'
  BY <1>0, <1>1, IterateHeads DEF SaveHeads
<1>5. Executed(heads["vm"])'
  <2>1. CASE heads' = heads
    BY <1>2, <1>4, <2>1 DEF HeadInv, Executed, OnChain, Indexed
  <2>2. CASE /\ heads' # heads /\ IteratorAdvance("vm")
             /\ heads' = [heads EXCEPT !["vm"] = it["vm"].blk]
    <3>1. OnChain(it["vm"].blk)
      BY <1>0, <2>2, FinishedOnChain
    <3>2. it["vm"].blk \in states
      <4>1. RunNextBlock
        BY <2>2 DEF RunIteratorStart, IteratorStart, LoopTop, RunFail, IteratorThrow
      <4> QED BY <4>1 DEF RunNextBlock, ExecutedInv
    <3>3. heads'["vm"] = it["vm"].blk
      BY <1>0, <2>2 DEF StoreInv, TypeOK
    <3> QED BY <1>2, <1>4, <3>1, <3>2, <3>3 DEF Executed, OnChain, Indexed
  <2> QED BY <1>4, <2>1, <2>2
<1>6. Executed(disk.heads["vm"])'
  BY <1>2, <1>4, <1>5 DEF HeadInv, Executed, OnChain, Indexed
<1> QED BY <1>1, <1>3, <1>5, <1>6 DEF HeadInv

LEMMA HeadNext ==
    ASSUME ~ConsensusMayThrow, ProofOfStake, SkipLower,
           VMInv, EngineInv, [HistoryNext]_<<allVars, raced>>, ~raced'
    PROVE  HeadInv'
<1> USE DEF EngineInv
<1>0. NoCall.at = "idle" /\ (set.at # "idle" =>
            set \in [at : {"queued", "putting", "update", "check", "commit"},
                     block : Blocks, next : Nat])
  BY PendingFields DEF VMInv, NoCall
<1>1. [VMNext]_allVars /\ states \subseteq states'
  <2>1. [VMNext]_allVars
    BY DEF HistoryNext
  <2> QED BY <2>1, StatesGrow
<1>2. CASE SetCommit
  <2>1. OnChain(set.block)
    <3>1. raced' = ~OnChain(set.block) \/ UNCHANGED <<allVars, raced>>
      BY <1>2 DEF HistoryNext
    <3>2. ~UNCHANGED <<allVars, raced>>
      BY <1>0, <1>2 DEF SetCommit, allVars, execVars
    <3> QED BY <3>1, <3>2
  <2> QED BY <1>2, <2>1, SetKeepsHead
<1>3. CASE ~SetCommit
  <2>1. HeadInv
    BY <1>3 DEF HistoryNext
  <2>2. CASE UNCHANGED allVars
    BY <1>1, <2>1, <2>2, HeadUnmoved DEF allVars, vars, execVars
  <2>3. CASE (\E b \in Blocks : SyncPut(b)) \/ \E n \in ResetTargets : SyncReset(n)
    BY <2>1, <2>3, SyncKeepsHead
  <2>4. CASE SyncUpdate
    <3>1. UNCHANGED <<vars, states, set>> /\ height' = Number[headBlock]
      BY <2>4 DEF SyncUpdate
    <3>2. Number[VmHead] <= Number[headBlock]
      BY <2>1, BelowTip DEF VMInv, HeadInv
    <3> QED BY <2>1, <3>1, <3>2
            DEF vars, HeadInv, Executed, OnChain, Indexed, VmHead, HeadOf
  <2>5. CASE SetPut
    BY <2>1, <2>5, SetKeepsHead
  <2>6. CASE RunIteratorStart \/ RunNextBlock \/ RunFail
    BY <2>1, <2>6, RunKeepsHead
  <2>7. CASE VMRestart
    <3>1. heads' = disk.heads /\ UNCHANGED <<index, disk, states>> /\ set'.at = "idle"
      BY <1>0, <2>7 DEF VMRestart, Restart
    <3> QED BY <2>1, <3>1 DEF HeadInv, Executed, OnChain, Indexed
  <2>8. CASE SetBegin \/ SetUpdate \/ SetCheck \/ SetThrow \/ \E b \in Blocks : SetCall(b)
    <3>1. set'.at # "update"
      <4>1. CASE SetBegin \/ SetCheck
        BY <1>0, <4>1 DEF SetBegin, SetCheck
      <4>2. CASE SetUpdate
        BY <1>0, <4>2 DEF SetUpdate
      <4>3. CASE SetThrow \/ \E b \in Blocks : SetCall(b)
        BY <1>0, <4>3 DEF SetThrow, SetCall
      <4> QED BY <2>8, <4>1, <4>2, <4>3
    <3>2. UNCHANGED <<heads, disk, index, states>>
      BY <2>8 DEF SetBegin, SetUpdate, SetCheck, SetThrow, SetCall, vars
    <3> QED BY <1>1, <2>1, <3>1, <3>2, HeadUnmoved
  <2>9. CASE UNCHANGED <<heads, disk, index, set, height, updating>>
    BY <1>1, <2>1, <2>9, HeadUnmoved
  <2> QED BY <1>1, <1>3, <2>2, <2>3, <2>4, <2>5, <2>6, <2>7, <2>8, <2>9
          DEF VMNext, vars, outside, ExecCall, RunCall, StopCall, RunStep,
              RunBegin, RunIterate, RunReturn, RunExecute, ExecStep,
              ExecBegin, ExecRun, ExecFail, ExecReturn, SetStep, StopStep,
              StopFlip, StopAwait, StopClose
<1> QED BY <1>1, <1>2, <1>3

LEMMA EngineInit ==
    ASSUME HistoryInit
    PROVE  EngineInv
<1>1. /\ headBlock = Genesis /\ headHeader = Genesis /\ states = {Genesis}
      /\ Number[Genesis] = 0 /\ height = 0 /\ set.at = "idle" /\ run.at = "idle"
  BY BlockTreeAssumption DEF HistoryInit, VMInit, Init, NoCall, NoRun
<1>2. StatesInv
  <2>1. Genesis \in Blocks /\ Path[Genesis][0] = Genesis
    BY BlockTreeAssumption, PathFacts
  <2>2. \A n \in 0 .. 0 : n = 0
    OBVIOUS
  <2> QED BY <1>1, <2>1, <2>2 DEF StatesInv
<1>3. heads["vm"] = NoBlock /\ disk.heads["vm"] = NoBlock
  BY VMExecutionAssumption DEF HistoryInit, VMInit, Init
<1> QED BY <1>1, <1>2, <1>3
        DEF EngineInv, TipInv, ExecutedInv, HeightInv, HeadInv, Executed, InSet

(* The vm head is lost by nothing but the race in setHead: under proof of   *)
(* stake, with a syncer that skips the blocks below the height it knows,    *)
(* no put, reset, reorg, failed execution or restart parts it from the      *)
(* executed blocks.                                                         *)
THEOREM RaceOnly ==
    ASSUME ~ConsensusMayThrow, ProofOfStake, SkipLower
    PROVE  HistorySpec => []OnlyRaceLosesHead
<1> DEFINE I == VMInv /\ EngineInv
<1>1. HistoryInit => I
  BY VMInitInv, EngineInit DEF HistoryInit
<1>2. I /\ [HistoryNext]_<<allVars, raced>> => I'
  <2> SUFFICES ASSUME I, [HistoryNext]_<<allVars, raced>> PROVE I'
    OBVIOUS
  <2>1. [VMNext]_allVars
    BY DEF HistoryNext
  <2>2. TipInv /\ StatesInv /\ ExecutedInv /\ HeightInv
    BY DEF EngineInv
  <2>3. VMInv'
    BY <2>1, VMNextInv
  <2>4. TipInv' /\ StatesInv' /\ ExecutedInv' /\ HeightInv'
    BY <2>1, <2>2, TipNext, StatesNext, ExecutedNext, HeightNext
  <2>5. ~raced' => HeadInv'
    BY HeadNext
  <2> QED BY <2>3, <2>4, <2>5 DEF EngineInv
<1>3. I => OnlyRaceLosesHead
  <2> SUFFICES ASSUME I, ~raced PROVE VmHeadExecuted
    BY DEF OnlyRaceLosesHead
  <2>1. Executed(heads["vm"]) /\ Executed(disk.heads["vm"]) /\ Genesis \in states
    BY DEF EngineInv, HeadInv, StatesInv
  <2> QED BY <2>1 DEF VmHeadExecuted, Executed, VmHead, HeadOf
<1> QED BY <1>1, <1>2, <1>3, PTL DEF HistorySpec

==============================================================================
