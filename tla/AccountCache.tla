---------------------------- MODULE AccountCache ----------------------------
(***************************************************************************)
(* The accounts of MerkleStateManager: the account trie with the roots its *)
(* checkpoints hold, and before it the cache of accounts with one diff     *)
(* map per checkpoint.  A diff map keeps what the cache held for an        *)
(* address before the first change at that height; a revert puts it back,  *)
(* a commit hands it down unless the lower height has its own.  The cache  *)
(* is flushed to the trie when the last checkpoint has been closed.        *)
(*                                                                         *)
(* A trie is the map it stands for: nodes are stored under their hash, so  *)
(* a root names one map for ever.                                          *)
(***************************************************************************)
EXTENDS Integers, Sequences

CONSTANTS
    Address,
    Account,     \* the accounts that can be stored
    NoAccount,   \* known not to exist (accountRLP undefined)
    NotCached,   \* the cache has no element
    NoEntry      \* a diff map has no entry

ASSUME CacheAssumption ==
    /\ NoAccount \notin Account
    /\ NotCached \notin Account \cup {NoAccount}
    /\ NoEntry \notin Account \cup {NoAccount, NotCached}

VARIABLES
    cache,       \* AccountCache._orderedMapCache, or _lruCache
    diffCache,   \* AccountCache._diffCache, height 0 first
    trie,        \* the map behind _trie.root()
    roots        \* the roots of the trie's checkpoints

cacheVars == <<cache, diffCache, trie, roots>>

-----------------------------------------------------------------------------

Stored == Account \cup {NoAccount}
Cached == Stored \cup {NotCached}
DiffMap == [Address -> Cached \cup {NoEntry}]

NoDiff == [a \in Address |-> NoEntry]
Top == Len(diffCache)

(* _checkpointCount, which moves with the trie's checkpoints. *)
CheckpointCount == Len(roots)

(* What getAccount returns. *)
Current(a) == IF cache[a] = NotCached THEN trie[a] ELSE cache[a]

CacheInit ==
    /\ trie \in [Address -> Stored]
    /\ cache = [a \in Address |-> NotCached]
    /\ diffCache = <<NoDiff>>
    /\ roots = <<>>

-----------------------------------------------------------------------------
(* The diff maps. *)

(* Mutation: every change is saved, not the first alone. *)
OverwritePreState(d, a) == [d EXCEPT ![a] = cache[a]]

SavePreState(d, a) == IF d[a] = NoEntry THEN [d EXCEPT ![a] = cache[a]] ELSE d

(* Mutation: the entries of the committed height win. *)
MergedNewer(lower, upper) ==
    [a \in DOMAIN lower |-> IF upper[a] = NoEntry THEN lower[a] ELSE upper[a]]

Merged(lower, upper) ==
    [a \in DOMAIN lower |-> IF lower[a] = NoEntry THEN upper[a] ELSE lower[a]]

Restored(c, d) == [a \in DOMAIN c |-> IF d[a] = NoEntry THEN c[a] ELSE d[a]]

(* The accounts of the diff map go from the cache to the trie. *)
Flushed(t, c, d) ==
    [a \in Address |-> IF d[a] = NoEntry \/ c[a] = NotCached THEN t[a] ELSE c[a]]

(* The diff maps below the last, the uppermost of them replaced. *)
Lowered(d) == [SubSeq(diffCache, 1, Top - 1) EXCEPT ![Top - 1] = d]

-----------------------------------------------------------------------------
(* The operations. *)

CachePut(a, v) ==
    /\ cache' = [cache EXCEPT ![a] = v]
    /\ diffCache' = [diffCache EXCEPT ![Top] = SavePreState(@, a)]
    /\ UNCHANGED <<trie, roots>>

(* A read puts what the trie has into the cache, and into the diff map. *)
GetAccount(a) ==
    IF cache[a] = NotCached THEN CachePut(a, trie[a]) ELSE UNCHANGED cacheVars

PutAccount(a, v) == v \in Account /\ CachePut(a, v)

DeleteAccount(a) == CachePut(a, NoAccount)

Checkpoint ==
    /\ roots' = Append(roots, trie)
    /\ diffCache' = Append(diffCache, NoDiff)
    /\ UNCHANGED <<cache, trie>>

Commit ==
    /\ CheckpointCount > 0
    /\ roots' = SubSeq(roots, 1, CheckpointCount - 1)
    /\ diffCache' = Lowered(Merged(diffCache[Top - 1], diffCache[Top]))
    /\ UNCHANGED <<cache, trie>>

Revert ==
    /\ CheckpointCount > 0
    /\ roots' = SubSeq(roots, 1, CheckpointCount - 1)
    /\ diffCache' = SubSeq(diffCache, 1, Top - 1)
    /\ cache' = Restored(cache, diffCache[Top])
    /\ trie' = roots[CheckpointCount]

(* The accounts' part of flush, which runs when the last checkpoint has    *)
(* been closed and for getStateRoot.  Since Byzantium getStateRoot is not  *)
(* called with a checkpoint open.                                          *)
Flush ==
    /\ CheckpointCount = 0
    /\ trie' = Flushed(trie, cache, diffCache[1])
    /\ diffCache' = <<NoDiff>>
    /\ UNCHANGED <<cache, roots>>

(* The callers keep the cache only for the root the state already has. *)
SetStateRoot(root, clearCache) ==
    /\ CheckpointCount = 0
    /\ clearCache \/ root = Flushed(trie, cache, diffCache[1])
    /\ trie' = root
    /\ cache' = IF clearCache THEN [a \in Address |-> NotCached] ELSE cache
    /\ diffCache' = <<NoDiff>>
    /\ roots' = roots

CacheNext ==
    \/ \E a \in Address : GetAccount(a) \/ DeleteAccount(a)
    \/ \E a \in Address, v \in Account : PutAccount(a, v)
    \/ Checkpoint \/ Commit \/ Revert \/ Flush
    \/ \E root \in [Address -> Stored], clearCache \in BOOLEAN :
           SetStateRoot(root, clearCache)

CacheSpec == CacheInit /\ [][CacheNext]_cacheVars

-----------------------------------------------------------------------------
(* What the open checkpoints would restore. *)

Least(S) == CHOOSE i \in S : \A j \in S : i <= j

(* The diff maps above checkpoint i with an entry for address a. *)
Entries(D, i, a) == {j \in (i + 1)..Len(D) : D[j][a] # NoEntry}

(* What the cache, now c with the diff maps D, held for a when checkpoint  *)
(* i was made.                                                             *)
PreState(c, D, i, a) ==
    IF Entries(D, i, a) = {} THEN c[a] ELSE D[Least(Entries(D, i, a))][a]

SavedAccount(i, a) ==
    LET elem == PreState(cache, diffCache, i, a)
    IN  IF elem = NotCached THEN roots[i][a] ELSE elem

-----------------------------------------------------------------------------
(* Properties. *)

(* The cache, the diff maps and the tries hold accounts; there is one diff *)
(* map more than there are checkpoints.                                    *)
CacheTypeOK ==
    /\ trie \in [Address -> Stored]
    /\ cache \in [Address -> Cached]
    /\ roots \in Seq([Address -> Stored])
    /\ diffCache \in Seq(DiffMap)
    /\ Len(diffCache) = Len(roots) + 1

(* What the cache held before the first change since the last flush is     *)
(* what the trie has: a cached account that no diff map knows of, and the  *)
(* lowest diff entry of every other one.  Only then do a flush, which      *)
(* writes the accounts of the diff map alone, and a revert, which leaves   *)
(* the rest in the cache, agree with the root.                             *)
Coherent ==
    \A a \in Address :
        PreState(cache, diffCache, 0, a) \in {NotCached, trie[a]}

(* With no checkpoint open and nothing left to flush the root that         *)
(* getStateRoot returns is the root of what getAccount returns.            *)
RootIsState ==
    CheckpointCount = 0 /\ diffCache[1] = NoDiff =>
        \A a \in Address : Current(a) = trie[a]

CurrentMap == [a \in Address |-> Current(a)]
SavedMaps ==
    [i \in 1..Len(roots) |-> [a \in Address |-> SavedAccount(i, a)]]

(* The accounts as a stack of checkpoints. *)
Stack ==
    INSTANCE CheckpointStack WITH
        Key <- Address,
        Value <- Stored,
        Batch <- {{a} : a \in Address},
        Fresh <- {},
        cur <- CurrentMap,
        saved <- SavedMaps

(* Nested checkpoints, commits and reverts of the cached accounts have the *)
(* effect they have on a plain map: reads, flushes and the merging of diff *)
(* maps change nothing that getAccount returns, now or after a revert.     *)
ImplementsStack == Stack!Spec

=============================================================================
