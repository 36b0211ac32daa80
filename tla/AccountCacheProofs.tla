------------------------- MODULE AccountCacheProofs -------------------------
(***************************************************************************)
(* Proofs about AccountCache for every set of addresses and accounts and   *)
(* any depth of checkpoints.                                               *)
(***************************************************************************)
EXTENDS AccountCache, SequenceTheorems, WellFoundedInduction, TLAPS

-----------------------------------------------------------------------------
(* What a diff map kept. *)

(* A set of natural numbers that is not empty has a least element.         *)
LEMMA LeastFacts ==
    ASSUME NEW S \in SUBSET Nat, S # {}
    PROVE  Least(S) \in S /\ \A j \in S : Least(S) <= j
<1>1. PICK x \in S : \A y \in S : ~ (<<y, x>> \in OpToRel(<, Nat))
  BY WFMin, NatLessThanWellFounded
<1>2. \A y \in S : ~ (y < x)
  BY <1>1 DEF OpToRel
<1>3. \A y \in S : x <= y
  BY <1>2
<1> QED BY <1>3 DEF Least

NoneAbove(D, i, a) == \A m \in (i + 1)..Len(D) : D[m][a] = NoEntry

IsFirst(D, i, a, j) ==
    /\ j \in (i + 1)..Len(D)
    /\ D[j][a] # NoEntry
    /\ \A m \in (i + 1)..(j - 1) : D[m][a] = NoEntry

(* With no entry above checkpoint i the cache is as it was.                *)
LEMMA PreNone ==
    ASSUME NEW c, NEW D, NEW i, NEW a, NoneAbove(D, i, a)
    PROVE  PreState(c, D, i, a) = c[a]
BY DEF NoneAbove, PreState, Entries

(* The lowest entry above checkpoint i is what the cache held.             *)
LEMMA PreAt ==
    ASSUME NEW c, NEW D, Len(D) \in Nat, NEW i \in Nat, NEW a, NEW j,
           IsFirst(D, i, a, j)
    PROVE  PreState(c, D, i, a) = D[j][a]
<1> DEFINE S == Entries(D, i, a)
<1> USE DEF IsFirst
<1>1. j \in S /\ S \in SUBSET Nat
  BY DEF Entries
<1>2. Least(S) \in S /\ \A m \in S : Least(S) <= m
  BY <1>1, LeastFacts
<1>3. Least(S) \in (i + 1)..Len(D) /\ D[Least(S)][a] # NoEntry
  BY <1>2 DEF Entries
<1>4. Least(S) = j
  <2> HIDE DEF S
  <2>1. Least(S) <= j
    BY <1>1, <1>2
  <2>2. ~ (Least(S) \in (i + 1)..(j - 1))
    BY <1>3
  <2> QED BY <2>1, <2>2, <1>3
<1> QED BY <1>1, <1>4 DEF PreState

(* One of the two always applies.                                          *)
LEMMA PreCases ==
    ASSUME NEW D, Len(D) \in Nat, NEW i \in Nat, NEW a
    PROVE  NoneAbove(D, i, a) \/ \E j : IsFirst(D, i, a, j)
<1> DEFINE S == Entries(D, i, a)
<1>1. SUFFICES ASSUME S # {} PROVE IsFirst(D, i, a, Least(S))
  BY DEF Entries, NoneAbove
<1>2. S \in SUBSET Nat
  BY DEF Entries
<1>3. Least(S) \in S /\ \A m \in S : Least(S) <= m
  BY <1>1, <1>2, LeastFacts
<1>4. Least(S) \in (i + 1)..Len(D) /\ D[Least(S)][a] # NoEntry
  BY <1>3 DEF Entries
<1>5. \A m \in (i + 1)..(Least(S) - 1) : D[m][a] = NoEntry
  <2> TAKE m \in (i + 1)..(Least(S) - 1)
  <2>1. m \in (i + 1)..Len(D) /\ ~ (Least(S) <= m)
    BY <1>4
  <2>2. m \notin S
    BY <2>1, <1>3
  <2> QED BY <2>1, <2>2 DEF Entries
<1> QED BY <1>4, <1>5 DEF IsFirst

-----------------------------------------------------------------------------
(* The inductive invariant.  The trie is written only with no checkpoint   *)
(* open, so every open checkpoint holds the root the trie still has;       *)
(* without that a revert could not keep the cache coherent.                *)

RootsCurrent == \A i \in 1..Len(roots) : roots[i] = trie

IInv == CacheTypeOK /\ Coherent /\ RootsCurrent

(* Sizes and elements, in the form the steps below use.                    *)
LEMMA TypeFacts ==
    ASSUME CacheTypeOK
    PROVE  /\ Len(roots) \in Nat /\ Top = Len(roots) + 1 /\ Top \in Nat
           /\ DOMAIN diffCache = 1..Top /\ DOMAIN roots = 1..Len(roots)
           /\ \A m \in 1..Top : diffCache[m] \in DiffMap
           /\ \A i \in 1..Len(roots) : roots[i] \in [Address -> Stored]
BY DEF CacheTypeOK, Top

(* Dropping the last diff map and replacing the one below it.              *)
LEMMA LoweredFacts ==
    ASSUME CacheTypeOK, CheckpointCount > 0, NEW d \in DiffMap
    PROVE  /\ Lowered(d) \in Seq(DiffMap)
           /\ Len(Lowered(d)) = Top - 1
           /\ \A m \in 1..(Top - 2) : Lowered(d)[m] = diffCache[m]
           /\ Lowered(d)[Top - 1] = d
<1> DEFINE s == SubSeq(diffCache, 1, Top - 1)
<1>1. Len(roots) \in Nat /\ Top = Len(roots) + 1 /\ Top - 1 \in 1..Len(diffCache)
  BY TypeFacts DEF CheckpointCount, Top
<1>2. s \in Seq(DiffMap) /\ Len(s) = Top - 1 /\ \A m \in 1..(Top - 1) : s[m] = diffCache[m]
  BY <1>1 DEF CacheTypeOK
<1> HIDE DEF s
<1>3. Lowered(d) = [s EXCEPT ![Top - 1] = d]
  BY DEF Lowered, s
<1>4. Top - 1 \in 1..Len(s)
  BY <1>1, <1>2
<1> QED BY <1>1, <1>2, <1>3, <1>4

(* A sequence without its last element.                                    *)
LEMMA FrontFacts ==
    ASSUME NEW S, NEW s \in Seq(S), Len(s) > 0
    PROVE  /\ SubSeq(s, 1, Len(s) - 1) \in Seq(S)
           /\ Len(SubSeq(s, 1, Len(s) - 1)) = Len(s) - 1
           /\ \A i \in 1..(Len(s) - 1) : SubSeq(s, 1, Len(s) - 1)[i] = s[i]
<1> DEFINE n == Len(s) - 1
<1>1. Len(s) \in Nat /\ n \in Nat /\ n <= Len(s)
  OBVIOUS
<1> HIDE DEF n
<1>2. SubSeq(s, 1, n) \in Seq(S)
  BY <1>1
<1>3. Len(SubSeq(s, 1, n)) = n
  BY <1>1
<1>4. \A i \in 1..n : SubSeq(s, 1, n)[i] = s[i]
  BY <1>1
<1> QED BY <1>2, <1>3, <1>4 DEF n

(* The diff maps without the last one.                                     *)
LEMMA DiffFront ==
    ASSUME CacheTypeOK
    PROVE  /\ SubSeq(diffCache, 1, Top - 1) \in Seq(DiffMap)
           /\ Len(SubSeq(diffCache, 1, Top - 1)) = Top - 1
           /\ \A m \in 1..(Top - 1) : SubSeq(diffCache, 1, Top - 1)[m] = diffCache[m]
<1>1. diffCache \in Seq(DiffMap) /\ Len(diffCache) > 0
  BY TypeFacts DEF CacheTypeOK
<1> QED BY <1>1, FrontFacts DEF Top

(* The diff maps an operation makes are diff maps.                         *)
LEMMA DiffMapFacts ==
    ASSUME CacheTypeOK
    PROVE  /\ NoDiff \in DiffMap
           /\ \A d \in DiffMap, a \in Address : SavePreState(d, a) \in DiffMap
           /\ \A d, e \in DiffMap : Merged(d, e) \in DiffMap
           /\ \A c \in [Address -> Cached], d \in DiffMap :
                  Restored(c, d) \in [Address -> Cached]
           /\ \A t \in [Address -> Stored], c \in [Address -> Cached], d \in DiffMap :
                  Flushed(t, c, d) \in [Address -> Stored]
<1>1. cache \in [Address -> Cached]
  BY DEF CacheTypeOK
<1>2. NoDiff \in DiffMap /\ \A d, e \in DiffMap : Merged(d, e) \in DiffMap
  BY DEF NoDiff, DiffMap, Merged
<1>3. \A d \in DiffMap, a \in Address : SavePreState(d, a) \in DiffMap
  BY <1>1 DEF SavePreState, DiffMap
<1>4. \A c \in [Address -> Cached], d \in DiffMap : Restored(c, d) \in [Address -> Cached]
  BY DEF Restored, DiffMap
<1>5. \A t \in [Address -> Stored], c \in [Address -> Cached], d \in DiffMap :
         Flushed(t, c, d) \in [Address -> Stored]
  BY DEF Flushed, DiffMap, Cached
<1> QED BY <1>2, <1>3, <1>4, <1>5

-----------------------------------------------------------------------------
(* What the operations do to the saved elements. *)

(* A write to the cache keeps what every open checkpoint would restore.    *)
LEMMA PutKeeps ==
    ASSUME CacheTypeOK, NEW b \in Address, NEW v \in Cached, CachePut(b, v),
           NEW i \in 0..Len(roots), NEW a \in Address
    PROVE  PreState(cache', diffCache', i, a) = PreState(cache, diffCache, i, a)
<1>1. /\ Len(roots) \in Nat /\ Top = Len(roots) + 1 /\ Top \in Nat /\ Top = Len(diffCache)
      /\ diffCache \in Seq(DiffMap) /\ diffCache[Top] \in DiffMap
      /\ cache \in [Address -> Cached]
  BY TypeFacts DEF CacheTypeOK, Top
<1>2. /\ Len(diffCache') = Top
      /\ \A m \in 1..(Top - 1) : diffCache'[m] = diffCache[m]
      /\ diffCache'[Top] = SavePreState(diffCache[Top], b)
      /\ cache' = [cache EXCEPT ![b] = v]
  BY <1>1 DEF CachePut
<1>3. i \in Nat /\ Len(diffCache) \in Nat /\ Len(diffCache') \in Nat
  BY <1>1, <1>2
<1>4. \A m \in 1..Top : a # b \/ diffCache[m][a] # NoEntry =>
                           diffCache'[m][a] = diffCache[m][a]
  BY <1>1, <1>2 DEF SavePreState, DiffMap
<1>5. \A m \in 1..(Top - 1) : diffCache'[m][a] = diffCache[m][a]
  BY <1>2
<1>6. ASSUME NoneAbove(diffCache, i, a), a = b
      PROVE  PreState(cache', diffCache', i, a) = cache[a]
  <2>1. diffCache[Top][a] = NoEntry
    BY <1>1, <1>3, <1>6 DEF NoneAbove
  <2>2. cache[a] # NoEntry
    BY <1>1, CacheAssumption DEF Cached, Stored
  <2>3. diffCache'[Top][a] = cache[a]
    BY <1>1, <1>2, <1>6, <2>1 DEF SavePreState, DiffMap
  <2>4. IsFirst(diffCache', i, a, Top)
    BY <1>1, <1>2, <1>3, <1>5, <1>6, <2>2, <2>3 DEF IsFirst, NoneAbove
  <2> QED BY <1>3, <2>3, <2>4, PreAt
<1>7. ASSUME NoneAbove(diffCache, i, a), a # b
      PROVE  PreState(cache', diffCache', i, a) = cache[a]
  <2>1. NoneAbove(diffCache', i, a)
    BY <1>1, <1>2, <1>3, <1>4, <1>7 DEF NoneAbove
  <2>2. cache'[a] = cache[a]
    BY <1>1, <1>2, <1>7
  <2> QED BY <2>1, <2>2, PreNone
<1>8. ASSUME NEW j, IsFirst(diffCache, i, a, j)
      PROVE  PreState(cache', diffCache', i, a) = PreState(cache, diffCache, i, a)
  <2>1. IsFirst(diffCache', i, a, j) /\ diffCache'[j][a] = diffCache[j][a]
    BY <1>1, <1>2, <1>3, <1>4, <1>5, <1>8 DEF IsFirst
  <2> QED BY <1>3, <1>8, <2>1, PreAt
<1> QED BY <1>3, <1>6, <1>7, <1>8, PreCases, PreNone

(* A new checkpoint saves the cache and keeps what the others saved.       *)
LEMMA CheckpointKeeps ==
    ASSUME CacheTypeOK, Checkpoint, NEW a \in Address
    PROVE  /\ \A i \in 0..Len(roots) :
                  PreState(cache', diffCache', i, a) = PreState(cache, diffCache, i, a)
           /\ PreState(cache', diffCache', Len(roots) + 1, a) = cache[a]
<1>1. /\ Len(roots) \in Nat /\ Top = Len(roots) + 1 /\ Top \in Nat /\ Top = Len(diffCache)
      /\ diffCache \in Seq(DiffMap)
  BY TypeFacts DEF CacheTypeOK, Top
<1>2. /\ Len(diffCache') = Top + 1
      /\ \A m \in 1..Top : diffCache'[m] = diffCache[m]
      /\ diffCache'[Top + 1][a] = NoEntry
      /\ cache' = cache
  BY <1>1 DEF Checkpoint, NoDiff
<1>3. ASSUME NEW i \in 0..Len(roots)
      PROVE  PreState(cache', diffCache', i, a) = PreState(cache, diffCache, i, a)
  <2>1. i \in Nat /\ Len(diffCache) \in Nat /\ Len(diffCache') \in Nat
    BY <1>1, <1>2
  <2>2. ASSUME NoneAbove(diffCache, i, a)
        PROVE  PreState(cache', diffCache', i, a) = cache[a]
    <3>1. NoneAbove(diffCache', i, a)
      BY <1>1, <1>2, <2>1, <2>2 DEF NoneAbove
    <3> QED BY <1>2, <3>1, PreNone
  <2>3. ASSUME NEW j, IsFirst(diffCache, i, a, j)
        PROVE  PreState(cache', diffCache', i, a) = PreState(cache, diffCache, i, a)
    <3>1. IsFirst(diffCache', i, a, j) /\ diffCache'[j][a] = diffCache[j][a]
      BY <1>1, <1>2, <2>1, <2>3 DEF IsFirst
    <3> QED BY <2>1, <2>3, <3>1, PreAt
  <2> QED BY <2>1, <2>2, <2>3, PreCases, PreNone
<1>4. PreState(cache', diffCache', Len(roots) + 1, a) = cache[a]
  <2>1. NoneAbove(diffCache', Len(roots) + 1, a)
    BY <1>1, <1>2 DEF NoneAbove
  <2> QED BY <1>2, <2>1, PreNone
<1> QED BY <1>3, <1>4

(* A commit keeps what the other checkpoints saved.                        *)
LEMMA CommitKeeps ==
    ASSUME CacheTypeOK, Commit,
           NEW i \in 0..(Len(roots) - 1), NEW a \in Address
    PROVE  PreState(cache', diffCache', i, a) = PreState(cache, diffCache, i, a)
<1> DEFINE d == Merged(diffCache[Top - 1], diffCache[Top])
<1>1. /\ Len(roots) \in Nat /\ Top = Len(roots) + 1 /\ Top \in Nat /\ Top = Len(diffCache)
      /\ diffCache[Top - 1] \in DiffMap /\ diffCache[Top] \in DiffMap
      /\ CheckpointCount > 0
  BY TypeFacts DEF Top, CheckpointCount, Commit
<1>2. d \in DiffMap
  BY <1>1, DiffMapFacts
<1>3. diffCache' = Lowered(d) /\ cache' = cache
  BY <1>1 DEF Commit
<1>4. d[a] = IF diffCache[Top - 1][a] = NoEntry THEN diffCache[Top][a]
                                                ELSE diffCache[Top - 1][a]
  BY <1>1 DEF Merged, DiffMap
<1> HIDE DEF d
<1>5. /\ Len(diffCache') = Top - 1
      /\ \A m \in 1..(Top - 2) : diffCache'[m] = diffCache[m]
      /\ diffCache'[Top - 1] = d
  BY <1>1, <1>2, <1>3, LoweredFacts
<1>6. i \in Nat /\ Len(diffCache) \in Nat /\ Len(diffCache') \in Nat
  BY <1>1, <1>5
<1>7. ASSUME NoneAbove(diffCache, i, a)
      PROVE  PreState(cache', diffCache', i, a) = cache[a]
  <2>1. NoneAbove(diffCache', i, a)
    BY <1>1, <1>4, <1>5, <1>6, <1>7 DEF NoneAbove
  <2> QED BY <1>3, <2>1, PreNone
<1>8. ASSUME NEW j, IsFirst(diffCache, i, a, j)
      PROVE  PreState(cache', diffCache', i, a) = PreState(cache, diffCache, i, a)
  <2>1. CASE j < Top
    <3>1. IsFirst(diffCache', i, a, j) /\ diffCache'[j][a] = diffCache[j][a]
      BY <1>1, <1>4, <1>5, <1>6, <1>8, <2>1 DEF IsFirst
    <3> QED BY <1>6, <1>8, <3>1, PreAt
  <2>2. CASE j = Top
    <3>1. IsFirst(diffCache', i, a, Top - 1) /\ diffCache'[Top - 1][a] = diffCache[j][a]
      BY <1>1, <1>4, <1>5, <1>6, <1>8, <2>2 DEF IsFirst
    <3> QED BY <1>6, <1>8, <3>1, PreAt
  <2> QED BY <1>1, <1>6, <1>8, <2>1, <2>2 DEF IsFirst
<1> QED BY <1>6, <1>7, <1>8, PreCases, PreNone

(* What a revert leaves in the cache is what the last checkpoint saved,    *)
(* and the other checkpoints keep theirs.                                  *)
LEMMA RevertRestores ==
    ASSUME CacheTypeOK, CheckpointCount > 0, NEW a \in Address,
           NEW c, c = Restored(cache, diffCache[Top]),
           NEW D, Len(D) = Top - 1, \A m \in 1..(Top - 1) : D[m] = diffCache[m]
    PROVE  /\ c[a] = PreState(cache, diffCache, Len(roots), a)
           /\ \A i \in 0..(Len(roots) - 1) :
                 PreState(c, D, i, a) = PreState(cache, diffCache, i, a)
<1>1. /\ Len(roots) \in Nat /\ Top = Len(roots) + 1 /\ Top \in Nat /\ Top = Len(diffCache)
      /\ diffCache[Top - 1] \in DiffMap /\ Len(roots) > 0
  BY TypeFacts DEF Top, CheckpointCount
<1>2. /\ Len(D) = Top - 1
      /\ \A m \in 1..(Top - 1) : D[m] = diffCache[m]
  OBVIOUS
<1>3. c[a] = IF diffCache[Top][a] = NoEntry THEN cache[a] ELSE diffCache[Top][a]
  BY DEF Restored, CacheTypeOK
<1>4. c[a] = PreState(cache, diffCache, Len(roots), a)
  <2>1. CASE diffCache[Top][a] = NoEntry
    <3>1. NoneAbove(diffCache, Len(roots), a)
      BY <1>1, <2>1 DEF NoneAbove
    <3> QED BY <1>3, <2>1, <3>1, PreNone
  <2>2. CASE diffCache[Top][a] # NoEntry
    <3>1. IsFirst(diffCache, Len(roots), a, Top) /\ Len(diffCache) \in Nat
      BY <1>1, <2>2 DEF IsFirst
    <3> QED BY <1>1, <1>3, <2>2, <3>1, PreAt
  <2> QED BY <2>1, <2>2
<1>5. ASSUME NEW i \in 0..(Len(roots) - 1)
      PROVE  PreState(c, D, i, a) = PreState(cache, diffCache, i, a)
  <2>1. i \in Nat /\ Len(diffCache) \in Nat /\ Len(D) \in Nat
    BY <1>1, <1>2
  <2>2. ASSUME NoneAbove(diffCache, i, a)
        PROVE  PreState(c, D, i, a) = PreState(cache, diffCache, i, a)
    <3>1. NoneAbove(D, i, a) /\ c[a] = cache[a]
      BY <1>1, <1>2, <1>3, <2>1, <2>2 DEF NoneAbove
    <3> QED BY <2>2, <3>1, PreNone
  <2>3. ASSUME NEW j, IsFirst(diffCache, i, a, j)
        PROVE  PreState(c, D, i, a) = PreState(cache, diffCache, i, a)
    <3>1. PreState(cache, diffCache, i, a) = diffCache[j][a]
      BY <2>1, <2>3, PreAt
    <3>2. CASE j < Top
      <4>1. IsFirst(D, i, a, j) /\ D[j][a] = diffCache[j][a]
        BY <1>1, <1>2, <2>1, <2>3, <3>2 DEF IsFirst
      <4> QED BY <2>1, <3>1, <4>1, PreAt
    <3>3. CASE j = Top
      <4>1. NoneAbove(D, i, a) /\ c[a] = diffCache[j][a]
        BY <1>1, <1>2, <1>3, <2>1, <2>3, <3>3 DEF IsFirst, NoneAbove
      <4> QED BY <3>1, <4>1, PreNone
    <3> QED BY <1>1, <2>1, <2>3, <3>2, <3>3 DEF IsFirst
  <2> QED BY <2>1, <2>2, <2>3, PreCases
<1> QED BY <1>4, <1>5

-----------------------------------------------------------------------------
(* The invariant is inductive. *)

(* With one diff map without entries the saved element is the cached one.  *)
LEMMA FreshDiff ==
    ASSUME NEW c, NEW D, Len(D) = 1, D[1] = NoDiff, NEW a \in Address
    PROVE  PreState(c, D, 0, a) = c[a]
<1>1. NoneAbove(D, 0, a)
  BY DEF NoneAbove, NoDiff
<1> QED BY <1>1, PreNone

(* A flush makes the trie agree with the cache, if they agreed where the   *)
(* diff map has no entry.                                                  *)
LEMMA FlushAgrees ==
    ASSUME NEW t, NEW c, NEW d, NEW a \in Address,
           d[a] = NoEntry => c[a] \in {NotCached, t[a]}
    PROVE  c[a] \in {NotCached, Flushed(t, c, d)[a]}
BY DEF Flushed

(* Without an entry at height 0 and none above it, the cache is coherent.  *)
LEMMA CoherentAt ==
    ASSUME CacheTypeOK, Coherent, NEW a \in Address,
           \A m \in 1..Top : diffCache[m][a] = NoEntry
    PROVE  cache[a] \in {NotCached, trie[a]}
<1>1. NoneAbove(diffCache, 0, a)
  BY DEF NoneAbove, Top
<1>2. PreState(cache, diffCache, 0, a) = cache[a]
  BY <1>1, PreNone
<1> QED BY <1>2 DEF Coherent

(* A write to the cache keeps the invariant.                               *)
LEMMA PutInv ==
    ASSUME IInv, NEW b \in Address, NEW v \in Stored, CachePut(b, v)
    PROVE  IInv'
<1> USE DEF IInv
<1>1. v \in Cached
  BY DEF Cached
<1>2. CacheTypeOK'
  <2>1. SavePreState(diffCache[Top], b) \in DiffMap /\ Top \in 1..Len(diffCache)
    BY TypeFacts, DiffMapFacts DEF Top
  <2>2. diffCache' \in Seq(DiffMap) /\ Len(diffCache') = Len(diffCache)
    BY <2>1 DEF CacheTypeOK, CachePut
  <2>3. cache' \in [Address -> Cached]
    BY <1>1 DEF CacheTypeOK, CachePut
  <2> QED BY <2>2, <2>3 DEF CacheTypeOK, CachePut
<1>3. Coherent'
  <2>1. ASSUME NEW a \in Address
        PROVE  PreState(cache', diffCache', 0, a) = PreState(cache, diffCache, 0, a)
    <3>1. 0 \in 0..Len(roots)
      BY TypeFacts
    <3> QED BY <1>1, <3>1, PutKeeps
  <2>2. trie' = trie
    BY DEF CachePut
  <2> QED BY <2>1, <2>2 DEF Coherent
<1>4. RootsCurrent'
  BY DEF RootsCurrent, CachePut
<1> QED BY <1>2, <1>3, <1>4

(* So does a new checkpoint.                                               *)
LEMMA CheckpointInv ==
    ASSUME IInv, Checkpoint
    PROVE  IInv'
<1> USE DEF IInv
<1>1. CacheTypeOK'
  <2>1. NoDiff \in DiffMap
    BY DiffMapFacts
  <2>2. diffCache' \in Seq(DiffMap) /\ Len(diffCache') = Len(diffCache) + 1
    BY <2>1 DEF CacheTypeOK, Checkpoint
  <2>3. roots' \in Seq([Address -> Stored]) /\ Len(roots') = Len(roots) + 1
    <3> DEFINE T == [Address -> Stored]
    <3>1. roots \in Seq(T) /\ trie \in T
      BY DEF CacheTypeOK
    <3> HIDE DEF T
    <3>2. Append(roots, trie) \in Seq(T) /\ Len(Append(roots, trie)) = Len(roots) + 1
      BY <3>1
    <3> QED BY <3>2 DEF Checkpoint, T
  <2> QED BY <2>2, <2>3 DEF CacheTypeOK, Checkpoint
<1>2. Coherent'
  <2>1. ASSUME NEW a \in Address
        PROVE  PreState(cache', diffCache', 0, a) = PreState(cache, diffCache, 0, a)
    <3>1. 0 \in 0..Len(roots)
      BY TypeFacts
    <3> QED BY <3>1, CheckpointKeeps
  <2>2. trie' = trie
    BY DEF Checkpoint
  <2> QED BY <2>1, <2>2 DEF Coherent
<1>3. RootsCurrent'
  <2>1. /\ Len(roots') = Len(roots) + 1 /\ Len(roots) \in Nat
        /\ \A i \in 1..Len(roots) : roots'[i] = roots[i]
        /\ roots'[Len(roots) + 1] = trie
    BY DEF CacheTypeOK, Checkpoint
  <2>2. trie' = trie
    BY DEF Checkpoint
  <2> QED BY <2>1, <2>2 DEF RootsCurrent
<1> QED BY <1>1, <1>2, <1>3

(* The parts of a commit and of a revert that are alike.                   *)
LEMMA CloseInv ==
    ASSUME IInv, CheckpointCount > 0, NEW D \in Seq(DiffMap), Len(D) = Top - 1,
           NEW c \in [Address -> Cached],
           roots' = SubSeq(roots, 1, CheckpointCount - 1),
           diffCache' = D, cache' = c, trie' = trie,
           \A a \in Address : PreState(c, D, 0, a) \in {NotCached, trie[a]}
    PROVE  IInv'
<1> USE DEF IInv
<1>1. /\ roots' \in Seq([Address -> Stored]) /\ Len(roots') = Len(roots) - 1
      /\ \A i \in 1..(Len(roots) - 1) : roots'[i] = roots[i]
  <2> DEFINE T == [Address -> Stored]
  <2>1. roots \in Seq(T) /\ Len(roots) > 0
    BY DEF CacheTypeOK, CheckpointCount
  <2> HIDE DEF T
  <2>2. /\ SubSeq(roots, 1, Len(roots) - 1) \in Seq(T)
        /\ Len(SubSeq(roots, 1, Len(roots) - 1)) = Len(roots) - 1
        /\ \A i \in 1..(Len(roots) - 1) : SubSeq(roots, 1, Len(roots) - 1)[i] = roots[i]
    BY <2>1, FrontFacts
  <2> QED BY <2>2 DEF CheckpointCount, T
<1>2. CacheTypeOK'
  <2>1. Len(diffCache') = Len(roots') + 1
    BY <1>1, TypeFacts
  <2> QED BY <1>1, <2>1 DEF CacheTypeOK
<1>3. Coherent'
  BY DEF Coherent
<1>4. RootsCurrent'
  BY <1>1, TypeFacts DEF RootsCurrent, CheckpointCount
<1> QED BY <1>2, <1>3, <1>4

(* A commit keeps the invariant.                                           *)
LEMMA CommitInv ==
    ASSUME IInv, Commit
    PROVE  IInv'
<1> DEFINE D == Lowered(Merged(diffCache[Top - 1], diffCache[Top]))
<1>1. CacheTypeOK /\ CheckpointCount > 0 /\ Len(roots) \in Nat /\ Len(roots) > 0
  BY TypeFacts DEF IInv, Commit, CheckpointCount
<1>2. D \in Seq(DiffMap) /\ Len(D) = Top - 1
  <2>1. diffCache[Top - 1] \in DiffMap /\ diffCache[Top] \in DiffMap
    BY <1>1, TypeFacts
  <2>2. Merged(diffCache[Top - 1], diffCache[Top]) \in DiffMap
    BY <1>1, <2>1, DiffMapFacts
  <2> QED BY <1>1, <2>2, LoweredFacts
<1>3. /\ roots' = SubSeq(roots, 1, CheckpointCount - 1) /\ diffCache' = D
      /\ cache' = cache /\ trie' = trie /\ cache \in [Address -> Cached]
  BY <1>1 DEF Commit, CacheTypeOK
<1> HIDE DEF D
<1>4. ASSUME NEW a \in Address
      PROVE  PreState(cache, D, 0, a) \in {NotCached, trie[a]}
  <2>1. 0 \in 0..(Len(roots) - 1)
    BY <1>1
  <2>2. PreState(cache', diffCache', 0, a) = PreState(cache, diffCache, 0, a)
    BY <1>1, <2>1, CommitKeeps
  <2> QED BY <1>3, <2>2 DEF IInv, Coherent
<1> QED BY <1>1, <1>2, <1>3, <1>4, CloseInv

(* A revert keeps the invariant: the root it goes back to is the one the   *)
(* trie has.                                                               *)
LEMMA RevertInv ==
    ASSUME IInv, Revert
    PROVE  IInv'
<1> DEFINE c == Restored(cache, diffCache[Top])
           D == SubSeq(diffCache, 1, Top - 1)
<1>1. CacheTypeOK /\ CheckpointCount > 0 /\ Len(roots) \in Nat /\ Len(roots) > 0
  BY TypeFacts DEF IInv, Revert, CheckpointCount
<1>2. /\ D \in Seq(DiffMap) /\ Len(D) = Top - 1
      /\ \A m \in 1..(Top - 1) : D[m] = diffCache[m]
  BY <1>1, DiffFront
<1>3. c \in [Address -> Cached]
  <2>1. diffCache[Top] \in DiffMap
    BY <1>1, TypeFacts
  <2> QED BY <1>1, <2>1, DiffMapFacts DEF CacheTypeOK
<1>4. roots[CheckpointCount] = trie
  BY <1>1 DEF IInv, RootsCurrent, CheckpointCount
<1>5. /\ roots' = SubSeq(roots, 1, CheckpointCount - 1) /\ diffCache' = D
      /\ cache' = c /\ trie' = trie
  BY <1>4 DEF Revert
<1>6. \A a \in Address : PreState(c, D, 0, a) \in {NotCached, trie[a]}
  <2>1. 0 \in 0..(Len(roots) - 1)
    BY <1>1
  <2>2. \A a \in Address : PreState(c, D, 0, a) = PreState(cache, diffCache, 0, a)
    <3> HIDE DEF D
    <3> QED BY <1>1, <1>2, <2>1, RevertRestores
  <2> QED BY <2>2 DEF IInv, Coherent
<1> HIDE DEF c, D
<1> QED BY <1>1, <1>2, <1>3, <1>5, <1>6, CloseInv

(* A flush and setStateRoot, with no checkpoint open.                      *)
LEMMA RootInv ==
    ASSUME IInv, CheckpointCount = 0, diffCache' = <<NoDiff>>, roots' = roots,
           trie' \in [Address -> Stored], cache' \in [Address -> Cached],
           \A a \in Address : cache'[a] \in {NotCached, trie'[a]}
    PROVE  IInv'
<1> USE DEF IInv
<1>1. roots = <<>> /\ Len(diffCache') = 1 /\ diffCache'[1] = NoDiff
  BY DEF CacheTypeOK, CheckpointCount
<1>2. CacheTypeOK'
  <2>1. NoDiff \in DiffMap
    BY DiffMapFacts
  <2>2. <<NoDiff>> \in Seq(DiffMap) /\ Len(roots) = 0
    BY <2>1 DEF CheckpointCount
  <2> QED BY <1>1, <2>2 DEF CacheTypeOK
<1>3. Coherent'
  <2>1. \A a \in Address : PreState(cache', diffCache', 0, a) = cache'[a]
    BY <1>1, FreshDiff
  <2> QED BY <2>1 DEF Coherent
<1>4. RootsCurrent'
  BY DEF RootsCurrent, CheckpointCount
<1> QED BY <1>2, <1>3, <1>4

(* With no checkpoint open a flush leaves no difference.                   *)
LEMMA RootFlush ==
    ASSUME IInv, CheckpointCount = 0
    PROVE  /\ Flushed(trie, cache, diffCache[1]) \in [Address -> Stored]
           /\ \A a \in Address :
                 cache[a] \in {NotCached, Flushed(trie, cache, diffCache[1])[a]}
<1> USE DEF IInv
<1>1. Top = 1 /\ diffCache[1] \in DiffMap
  BY TypeFacts DEF CheckpointCount
<1>2. Flushed(trie, cache, diffCache[1]) \in [Address -> Stored]
  BY <1>1, DiffMapFacts DEF CacheTypeOK
<1>3. ASSUME NEW a \in Address
      PROVE  cache[a] \in {NotCached, Flushed(trie, cache, diffCache[1])[a]}
  <2>1. diffCache[1][a] = NoEntry => cache[a] \in {NotCached, trie[a]}
    BY <1>1, CoherentAt
  <2> QED BY <2>1, FlushAgrees
<1> QED BY <1>2, <1>3

-----------------------------------------------------------------------------
(* Safety. *)

(* A state manager starts with an empty cache, which is coherent.          *)
LEMMA InitInv == CacheInit => IInv
<1> SUFFICES ASSUME CacheInit PROVE IInv
  OBVIOUS
<1> USE DEF CacheInit
<1>1. CacheTypeOK
  <2>1. NoDiff \in DiffMap
    BY DEF NoDiff, DiffMap
  <2>2. <<NoDiff>> \in Seq(DiffMap) /\ Len(<<NoDiff>>) = 1
    BY <2>1
  <2>3. cache \in [Address -> Cached]
    BY DEF Cached
  <2> QED BY <2>2, <2>3 DEF CacheTypeOK
<1>2. Coherent
  <2>1. Len(diffCache) = 1 /\ diffCache[1] = NoDiff
    OBVIOUS
  <2>2. \A a \in Address : PreState(cache, diffCache, 0, a) = cache[a]
    BY <2>1, FreshDiff
  <2> QED BY <2>2 DEF Coherent
<1>3. RootsCurrent
  BY DEF RootsCurrent
<1> QED BY <1>1, <1>2, <1>3 DEF IInv

(* Every operation keeps the invariant.                                    *)
LEMMA StepInv == IInv /\ [CacheNext]_cacheVars => IInv'
<1> SUFFICES ASSUME IInv, [CacheNext]_cacheVars PROVE IInv'
  OBVIOUS
<1>0. UNCHANGED cacheVars => IInv'
  BY DEF cacheVars, IInv, CacheTypeOK, Coherent, RootsCurrent
<1>1. ASSUME NEW a \in Address, GetAccount(a) PROVE IInv'
  <2>1. trie[a] \in Stored
    BY DEF IInv, CacheTypeOK
  <2> QED BY <1>0, <1>1, <2>1, PutInv DEF GetAccount
<1>2. ASSUME NEW a \in Address, DeleteAccount(a) PROVE IInv'
  BY <1>2, PutInv DEF DeleteAccount, Stored
<1>3. ASSUME NEW a \in Address, NEW v \in Account, PutAccount(a, v) PROVE IInv'
  BY <1>3, PutInv DEF PutAccount, Stored
<1>4. CASE Flush
  <2>1. CheckpointCount = 0 /\ diffCache' = <<NoDiff>> /\ roots' = roots /\ cache' = cache
        /\ trie' = Flushed(trie, cache, diffCache[1])
    BY <1>4 DEF Flush
  <2>2. cache \in [Address -> Cached]
    BY DEF IInv, CacheTypeOK
  <2> QED BY <2>1, <2>2, RootFlush, RootInv
<1>5. ASSUME NEW root \in [Address -> Stored], NEW clearCache \in BOOLEAN,
             SetStateRoot(root, clearCache)
      PROVE  IInv'
  <2>1. CheckpointCount = 0 /\ diffCache' = <<NoDiff>> /\ roots' = roots /\ trie' = root
    BY <1>5 DEF SetStateRoot
  <2>2. cache' \in [Address -> Cached]
    BY <1>5 DEF SetStateRoot, IInv, CacheTypeOK, Cached
  <2>3. \A a \in Address : cache'[a] \in {NotCached, trie'[a]}
    <3>1. CASE clearCache
      BY <1>5, <3>1 DEF SetStateRoot
    <3>2. CASE ~ clearCache
      <4>1. cache' = cache /\ trie' = Flushed(trie, cache, diffCache[1])
        BY <1>5, <3>2 DEF SetStateRoot
      <4> QED BY <2>1, <4>1, RootFlush
    <3> QED BY <3>1, <3>2
  <2> QED BY <2>1, <2>2, <2>3, RootInv
<1> QED
  BY <1>0, <1>1, <1>2, <1>3, <1>4, <1>5, CheckpointInv, CommitInv, RevertInv DEF CacheNext

(* The invariant holds in every state.                                     *)
THEOREM Inductive == CacheSpec => []IInv
BY InitInv, StepInv, PTL DEF CacheSpec

(* Cache, diff maps, trie and checkpoints have their types whatever the    *)
(* order of reads, writes, checkpoints, commits, reverts and root changes. *)
THEOREM TypeCorrect == CacheSpec => []CacheTypeOK
<1>1. IInv => CacheTypeOK
  BY DEF IInv
<1> QED BY <1>1, Inductive, PTL

(* What the caches hold is always what the trie holds together with the    *)
(* changes the diff maps know of.                                          *)
THEOREM CacheCoherent == CacheSpec => []Coherent
<1>1. IInv => Coherent
  BY DEF IInv
<1> QED BY <1>1, Inductive, PTL

(* Once everything is committed or reverted, and flushed, the root is the  *)
(* root of the accounts that the state manager returns.                    *)
THEOREM RootOfState == CacheSpec => []RootIsState
<1>1. IInv => RootIsState
  <2> SUFFICES ASSUME IInv, CheckpointCount = 0, diffCache[1] = NoDiff, NEW a \in Address
               PROVE  Current(a) = trie[a]
    BY DEF RootIsState
  <2>1. Len(diffCache) = 1
    BY DEF IInv, CacheTypeOK, CheckpointCount
  <2>2. PreState(cache, diffCache, 0, a) = cache[a]
    BY <2>1, FreshDiff
  <2> QED BY <2>2 DEF IInv, Coherent, Current
<1> QED BY <1>1, Inductive, PTL

-----------------------------------------------------------------------------
(* Refinement of the stack of checkpoints. *)

Maps == [Address -> Stored]

(* The maps of the refinement have their types.                            *)
LEMMA MapFacts ==
    ASSUME IInv
    PROVE  /\ CurrentMap \in Maps
           /\ SavedMaps \in Seq(Maps) /\ Len(SavedMaps) = Len(roots)
<1>1. trie \in Maps /\ cache \in [Address -> Cached]
  BY DEF IInv, CacheTypeOK, Maps
<1>2. CurrentMap \in Maps
  BY <1>1 DEF CurrentMap, Current, Maps, Cached
<1>3. CacheTypeOK
  BY DEF IInv
<1>4. ASSUME NEW i \in 1..Len(roots), NEW a \in Address
      PROVE  SavedAccount(i, a) \in Stored
  <2>1. /\ Len(roots) \in Nat /\ Top = Len(diffCache) /\ Top \in Nat
        /\ \A m \in 1..Top : diffCache[m] \in DiffMap
        /\ roots[i] \in Maps
    BY <1>3, TypeFacts DEF Top, Maps
  <2>2. i \in Nat /\ Len(diffCache) \in Nat
    BY <2>1
  <2>3. PreState(cache, diffCache, i, a) \in Cached
    <3>1. ASSUME NEW j, IsFirst(diffCache, i, a, j)
          PROVE  PreState(cache, diffCache, i, a) \in Cached
      <4>1. PreState(cache, diffCache, i, a) = diffCache[j][a]
        BY <2>2, <3>1, PreAt
      <4>2. j \in 1..Top /\ diffCache[j][a] # NoEntry
        BY <2>1, <2>2, <3>1 DEF IsFirst
      <4>3. diffCache[j] \in DiffMap
        BY <2>1, <4>2
      <4> QED BY <4>1, <4>2, <4>3 DEF DiffMap
    <3>2. ASSUME NoneAbove(diffCache, i, a)
          PROVE  PreState(cache, diffCache, i, a) \in Cached
      BY <1>1, <3>2, PreNone
    <3> QED BY <2>2, <3>1, <3>2, PreCases
  <2>4. roots[i][a] \in Stored
    BY <2>1 DEF Maps
  <2> QED BY <2>3, <2>4 DEF SavedAccount, Cached
<1>5. SavedMaps \in [1..Len(roots) -> Maps]
  BY <1>4 DEF SavedMaps, Maps
<1>6. Len(roots) \in Nat
  BY <1>3, TypeFacts
<1> HIDE DEF Maps
<1>7. SavedMaps \in Seq(Maps) /\ DOMAIN SavedMaps = 1..Len(roots)
  BY <1>5, <1>6, IsASeq
<1>8. Len(SavedMaps) = Len(roots)
  BY <1>6, <1>7
<1> QED BY <1>2, <1>7, <1>8

MapsOK ==
    /\ CurrentMap \in Maps
    /\ SavedMaps \in Seq(Maps) /\ Len(SavedMaps) = Len(roots)

(* The same as a formula, which also holds after a step.                   *)
LEMMA MapsTyped == IInv => MapsOK
BY MapFacts DEF MapsOK

(* And in the state a step leads to.                                       *)
LEMMA MapsStayTyped == IInv' => MapsOK'
BY MapsTyped, PTL

(* A sequence that shares all but the last element with another is that    *)
(* sequence without the last element.                                      *)
LEMMA SameFront ==
    ASSUME NEW S, NEW s \in Seq(S), NEW r \in Seq(S), Len(s) > 0,
           Len(r) = Len(s) - 1, \A i \in 1..Len(r) : r[i] = s[i]
    PROVE  r = SubSeq(s, 1, Len(s) - 1)
<1>1. /\ SubSeq(s, 1, Len(s) - 1) \in Seq(S)
      /\ Len(SubSeq(s, 1, Len(s) - 1)) = Len(s) - 1
      /\ \A i \in 1..(Len(s) - 1) : SubSeq(s, 1, Len(s) - 1)[i] = s[i]
  BY FrontFacts
<1> DEFINE q == SubSeq(s, 1, Len(s) - 1)
<1> HIDE DEF q
<1>2. q \in Seq(S) /\ Len(q) = Len(r) /\ \A i \in 1..Len(r) : r[i] = q[i]
  BY <1>1 DEF q
<1>3. r = q
  BY <1>2, SeqEqual
<1> QED BY <1>3 DEF q

(* A write to the cache is a write to one key.                             *)
LEMMA PutRefines ==
    ASSUME IInv, IInv', NEW b \in Address, NEW v \in Stored, CachePut(b, v)
    PROVE  Stack!Write
<1>1. roots' = roots /\ trie' = trie /\ cache' = [cache EXCEPT ![b] = v]
  BY DEF CachePut
<1>2. CurrentMap' \in Maps
  BY MapFacts DEF IInv, CacheTypeOK, CurrentMap, Current, Maps, Cached
<1>3. \A a \in Address \ {b} : CurrentMap'[a] = CurrentMap[a]
  BY <1>1 DEF CurrentMap, Current, IInv, CacheTypeOK
<1>4. SavedMaps' = SavedMaps
  <2>1. ASSUME NEW i \in 1..Len(roots), NEW a \in Address
        PROVE  SavedAccount(i, a)' = SavedAccount(i, a)
    <3>1. i \in 0..Len(roots) /\ CacheTypeOK /\ v \in Cached
      BY TypeFacts DEF IInv, Cached
    <3>2. PreState(cache', diffCache', i, a) = PreState(cache, diffCache, i, a)
      BY <3>1, PutKeeps
    <3> QED BY <1>1, <3>2 DEF SavedAccount
  <2> QED BY <1>1, <2>1 DEF SavedMaps
<1> QED BY <1>2, <1>3, <1>4 DEF Stack!Write, Maps

(* A checkpoint saves what the state manager returns.                      *)
LEMMA CheckpointRefines ==
    ASSUME IInv, IInv', Checkpoint
    PROVE  Stack!Checkpoint
<1>1. CurrentMap' = CurrentMap
  BY DEF Checkpoint, CurrentMap, Current
<1>2. /\ SavedMaps \in Seq(Maps) /\ Len(SavedMaps) = Len(roots) /\ CurrentMap \in Maps
      /\ Len(roots) \in Nat /\ CacheTypeOK
  BY MapFacts, TypeFacts DEF IInv
<1>3. /\ Len(roots') = Len(roots) + 1 /\ roots'[Len(roots) + 1] = trie
      /\ \A i \in 1..Len(roots) : roots'[i] = roots[i]
  BY DEF IInv, CacheTypeOK, Checkpoint
<1>4. ASSUME NEW i \in 1..Len(roots), NEW a \in Address
      PROVE  SavedAccount(i, a)' = SavedAccount(i, a)
  <2>1. i \in 0..Len(roots)
    BY <1>2
  <2>2. PreState(cache', diffCache', i, a) = PreState(cache, diffCache, i, a)
    BY <1>2, <2>1, CheckpointKeeps
  <2> QED BY <1>3, <2>2 DEF SavedAccount
<1>5. ASSUME NEW CONSTANT n, n = Len(roots) + 1, NEW a \in Address
      PROVE  SavedAccount(n, a)' = Current(a)
  <2>1. PreState(cache', diffCache', n, a) = cache[a]
    BY <1>2, <1>5, CheckpointKeeps
  <2>2. roots'[n] = trie
    BY <1>3, <1>5
  <2> QED BY <2>1, <2>2 DEF SavedAccount, Current
<1>6. SavedMaps' = Append(SavedMaps, CurrentMap)
  <2>1. /\ Append(SavedMaps, CurrentMap) \in Seq(Maps)
        /\ Len(Append(SavedMaps, CurrentMap)) = Len(roots) + 1
        /\ Append(SavedMaps, CurrentMap)[Len(roots) + 1] = CurrentMap
        /\ \A i \in 1..Len(roots) : Append(SavedMaps, CurrentMap)[i] = SavedMaps[i]
    <3> HIDE DEF Maps
    <3> QED BY <1>2
  <2>2. SavedMaps' \in Seq(Maps) /\ Len(SavedMaps') = Len(roots) + 1
    BY <1>3, MapsStayTyped DEF MapsOK, Maps, Stored
  <2>3. ASSUME NEW i \in 1..(Len(roots) + 1)
        PROVE  SavedMaps'[i] = Append(SavedMaps, CurrentMap)[i]
    <3>1. SavedMaps'[i] = [a \in Address |-> SavedAccount(i, a)']
      BY <1>3 DEF SavedMaps
    <3>2. CASE i = Len(roots) + 1
      <4>1. SavedMaps'[i] = CurrentMap
        BY <1>5, <3>1, <3>2 DEF CurrentMap
      <4> QED BY <2>1, <3>2, <4>1
    <3>3. CASE i # Len(roots) + 1
      <4>1. i \in 1..Len(roots)
        BY <1>2, <3>3
      <4>2. SavedMaps'[i] = SavedMaps[i]
        BY <1>4, <3>1, <4>1 DEF SavedMaps
      <4> QED BY <2>1, <4>1, <4>2
    <3> QED BY <3>2, <3>3
  <2> HIDE DEF Maps
  <2> QED BY <2>1, <2>2, <2>3, SeqEqual
<1> QED BY <1>1, <1>6 DEF Stack!Checkpoint

(* When a checkpoint is closed, and the others keep what they saved, the   *)
(* saved maps are the ones before without the last.                        *)
LEMMA CloseRefines ==
    ASSUME IInv, IInv', CheckpointCount > 0,
           roots' = SubSeq(roots, 1, CheckpointCount - 1),
           \A i \in 1..(Len(roots) - 1), a \in Address :
               PreState(cache', diffCache', i, a) = PreState(cache, diffCache, i, a)
    PROVE  SavedMaps # <<>> /\ SavedMaps' = SubSeq(SavedMaps, 1, Len(SavedMaps) - 1)
<1>1. /\ SavedMaps \in Seq(Maps) /\ Len(SavedMaps) = Len(roots)
      /\ Len(roots) \in Nat /\ Len(roots) > 0
  BY MapFacts, TypeFacts DEF IInv, CheckpointCount
<1>2. SavedMaps' \in Seq(Maps) /\ Len(SavedMaps') = Len(roots')
  BY MapsStayTyped DEF MapsOK, Maps, Stored
<1>3. Len(roots') = Len(roots) - 1 /\ \A i \in 1..(Len(roots) - 1) : roots'[i] = roots[i]
  <2>1. roots \in Seq(Maps)
    BY DEF IInv, CacheTypeOK, Maps
  <2> HIDE DEF Maps
  <2> QED BY <1>1, <2>1, FrontFacts DEF CheckpointCount
<1>4. ASSUME NEW i \in 1..Len(roots') PROVE SavedMaps'[i] = SavedMaps[i]
  <2>1. i \in 1..(Len(roots) - 1) /\ i \in 1..Len(roots)
    <3>1. i \in 1..(Len(roots) - 1)
      BY <1>3
    <3>2. \A n \in Nat : i \in 1..(n - 1) => i \in 1..n
      OBVIOUS
    <3> QED BY <1>1, <3>1, <3>2, Zenon
  <2>2. \A a \in Address : SavedAccount(i, a)' = SavedAccount(i, a)
    BY <1>3, <2>1 DEF SavedAccount
  <2> QED BY <2>1, <2>2 DEF SavedMaps
<1> HIDE DEF Maps
<1>5. SavedMaps' = SubSeq(SavedMaps, 1, Len(SavedMaps) - 1)
  BY <1>1, <1>2, <1>3, <1>4, SameFront
<1> QED BY <1>1, <1>5

(* A commit gives up the last checkpoint and changes no account.           *)
LEMMA CommitRefines ==
    ASSUME IInv, IInv', Commit
    PROVE  Stack!Commit
<1>1. /\ CheckpointCount > 0 /\ cache' = cache
      /\ roots' = SubSeq(roots, 1, CheckpointCount - 1) /\ trie' = trie
  BY DEF Commit
<1>2. CurrentMap' = CurrentMap
  BY <1>1 DEF CurrentMap, Current
<1>3. ASSUME NEW i \in 1..(Len(roots) - 1), NEW a \in Address
      PROVE  PreState(cache', diffCache', i, a) = PreState(cache, diffCache, i, a)
  <2>1. CacheTypeOK /\ Len(roots) \in Nat
    BY TypeFacts DEF IInv
  <2>2. i \in 0..(Len(roots) - 1)
    BY <2>1
  <2> QED BY <2>1, <2>2, CommitKeeps
<1>4. SavedMaps # <<>> /\ SavedMaps' = SubSeq(SavedMaps, 1, Len(SavedMaps) - 1)
  BY <1>1, <1>3, CloseRefines
<1> QED BY <1>2, <1>4 DEF Stack!Commit

(* A revert brings back what the last checkpoint saved.                    *)
LEMMA RevertRefines ==
    ASSUME IInv, IInv', Revert
    PROVE  Stack!Revert
<1> DEFINE c == Restored(cache, diffCache[Top])
           D == SubSeq(diffCache, 1, Top - 1)
<1>1. /\ CheckpointCount > 0 /\ cache' = c /\ diffCache' = D
      /\ roots' = SubSeq(roots, 1, CheckpointCount - 1)
      /\ trie' = roots[CheckpointCount]
  BY DEF Revert
<1>2. CacheTypeOK /\ Len(roots) \in Nat /\ Len(roots) > 0
  BY <1>1, TypeFacts DEF IInv, CheckpointCount
<1>3. \A a \in Address :
         /\ c[a] = PreState(cache, diffCache, Len(roots), a)
         /\ \A i \in 0..(Len(roots) - 1) :
               PreState(c, D, i, a) = PreState(cache, diffCache, i, a)
  <2>1. Len(D) = Top - 1 /\ \A m \in 1..(Top - 1) : D[m] = diffCache[m]
    BY <1>2, DiffFront
  <2> HIDE DEF D
  <2> QED BY <1>1, <1>2, <2>1, RevertRestores
<1> HIDE DEF c, D
<1>4. CurrentMap' = SavedMaps[Len(SavedMaps)]
  <2>1. \A a \in Address : Current(a)' = SavedAccount(Len(roots), a)
    BY <1>1, <1>3 DEF Current, SavedAccount, CheckpointCount
  <2>2. Len(SavedMaps) = Len(roots) /\ Len(roots) \in 1..Len(roots)
    BY <1>2, MapFacts
  <2> QED BY <2>1, <2>2 DEF CurrentMap, SavedMaps
<1>5. ASSUME NEW i \in 1..(Len(roots) - 1), NEW a \in Address
      PROVE  PreState(cache', diffCache', i, a) = PreState(cache, diffCache, i, a)
  <2>1. i \in 0..(Len(roots) - 1)
    BY <1>2
  <2> QED BY <1>1, <1>3, <2>1
<1>6. SavedMaps # <<>> /\ SavedMaps' = SubSeq(SavedMaps, 1, Len(SavedMaps) - 1)
  BY <1>1, <1>5, CloseRefines
<1> QED BY <1>4, <1>6 DEF Stack!Revert

(* Every operation is a step of the stack, or changes nothing it knows of. *)
LEMMA StepRefines ==
    IInv /\ IInv' /\ [CacheNext]_cacheVars => [Stack!Next]_(Stack!vars)
<1> SUFFICES ASSUME IInv, IInv', [CacheNext]_cacheVars PROVE [Stack!Next]_(Stack!vars)
  OBVIOUS
<1> USE DEF Stack!Next
<1>0. ASSUME UNCHANGED cacheVars PROVE UNCHANGED Stack!vars
  BY <1>0 DEF cacheVars, Stack!vars, CurrentMap, SavedMaps, Current, SavedAccount
<1>1. ASSUME NEW a \in Address, GetAccount(a) PROVE Stack!Next \/ UNCHANGED Stack!vars
  <2>1. trie[a] \in Stored
    BY DEF IInv, CacheTypeOK
  <2> QED BY <1>0, <1>1, <2>1, PutRefines DEF GetAccount
<1>2. ASSUME NEW a \in Address, DeleteAccount(a) PROVE Stack!Next
  BY <1>2, PutRefines DEF DeleteAccount, Stored
<1>3. ASSUME NEW a \in Address, NEW v \in Account, PutAccount(a, v) PROVE Stack!Next
  BY <1>3, PutRefines DEF PutAccount, Stored
<1>4. ASSUME CheckpointCount = 0, roots' = roots
      PROVE  SavedMaps = <<>> /\ SavedMaps' = SavedMaps
  <2>1. SavedMaps \in Seq(Maps) /\ Len(SavedMaps) = 0
    BY <1>4, MapFacts DEF CheckpointCount
  <2>2. SavedMaps' \in Seq(Maps) /\ Len(SavedMaps') = 0
    BY <1>4, MapsStayTyped DEF CheckpointCount, MapsOK, Maps, Stored
  <2> HIDE DEF Maps
  <2> QED BY <2>1, <2>2
<1>5. CASE Flush
  <2>1. /\ CheckpointCount = 0 /\ roots' = roots /\ cache' = cache
        /\ \A a \in Address : cache[a] = NotCached => trie'[a] = trie[a]
    BY <1>5 DEF Flush, Flushed
  <2>2. CurrentMap' = CurrentMap
    BY <2>1 DEF CurrentMap, Current
  <2> QED BY <1>4, <2>1, <2>2 DEF Stack!vars
<1>6. ASSUME NEW root \in [Address -> Stored], NEW clearCache \in BOOLEAN,
             SetStateRoot(root, clearCache)
      PROVE  Stack!Next
  <2>1. CheckpointCount = 0 /\ roots' = roots
    BY <1>6 DEF SetStateRoot
  <2>2. CurrentMap' \in [Address -> Stored]
    BY MapsStayTyped DEF MapsOK, Maps, Stored
  <2>3. Stack!Load
    BY <1>4, <2>1, <2>2 DEF Stack!Load
  <2> QED BY <2>3
<1>7. ASSUME Checkpoint PROVE Stack!Next
  BY <1>7, CheckpointRefines
<1>8. ASSUME Commit PROVE Stack!Next
  BY <1>8, CommitRefines
<1>9. ASSUME Revert PROVE Stack!Next
  BY <1>9, RevertRefines
<1> HIDE DEF Stack!Next
<1> QED BY <1>0, <1>1, <1>2, <1>3, <1>5, <1>6, <1>7, <1>8, <1>9 DEF CacheNext

(* Nested checkpoints, commits and reverts of the cached accounts do what  *)
(* they do on a plain map, for any depth: what a revert brings back is     *)
(* what getAccount returned when the checkpoint was made.                  *)
THEOREM Refinement == CacheSpec => ImplementsStack
<1>1. CacheInit => Stack!Init
  <2> SUFFICES ASSUME CacheInit PROVE Stack!Init
    OBVIOUS
  <2>1. CurrentMap \in [Address -> Stored] /\ SavedMaps \in Seq(Maps) /\ Len(SavedMaps) = Len(roots)
    BY InitInv, MapFacts DEF Maps
  <2>2. Len(roots) = 0
    BY DEF CacheInit
  <2>3. SavedMaps = <<>>
    <3> HIDE DEF Maps
    <3> QED BY <2>1, <2>2
  <2> QED BY <2>1, <2>3 DEF Stack!Init
<1> QED BY <1>1, Inductive, StepRefines, PTL DEF CacheSpec, ImplementsStack, Stack!Spec

=============================================================================
