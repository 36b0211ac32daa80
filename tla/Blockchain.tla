------------------------------ MODULE Blockchain ------------------------------
(***************************************************************************)
(* BlockchainManager (packages/blockchain/src/blockchain-functional): the  *)
(* block store, the canonical number index, the head pointers and the      *)
(* block iterator.                                                         *)
(*                                                                         *)
(* Every method runs under the manager's lock and commits one atomic       *)
(* database batch, so a method is one action.  The iterator is the         *)
(* exception: called with releaseLockOnCallback it drops the lock around   *)
(* each callback, so it is one action up to a callback and one action from *)
(* its return.  td, bodies, index and disk are the database; heads,        *)
(* headHeader, headBlock and deletedBlocks are the memory a crash loses.   *)
(***************************************************************************)
EXTENDS BlockTree, FiniteSets

CONSTANTS
    Names,              \* iterator head names: "vm", "safe", "finalized"
    NoBlock,            \* an undefined hash
    Difficulty,         \* header.difficulty
    Empty,              \* blocks without transactions and uncles
    Headers,            \* blocks that are also put as a bare header
    ProofOfStake,       \* consensus.type of the configured chain
    Listener,           \* somebody listens to deletedCanonicalBlocks
    ConsensusMayThrow,  \* consensus.newBlock may reject a block
    MaxBlocks,          \* the iterator's maxBlocks
    ResetTargets        \* numbers resetCanonicalHead is called with

ASSUME BlockchainAssumption ==
    /\ NoBlock \notin Blocks
    /\ Difficulty \in [Blocks -> Nat]
    /\ Empty \subseteq Blocks
    /\ Headers \subseteq Blocks
    /\ ProofOfStake \in BOOLEAN
    /\ Listener \in BOOLEAN
    /\ ConsensusMayThrow \in BOOLEAN
    /\ MaxBlocks \in Nat \ {0}
    /\ ResetTargets \subseteq Nat

VARIABLES
    td,             \* DBTarget.TotalDifficulty; its domain is the stored headers
    bodies,         \* blocks getBlock can read back
    index,          \* DBTarget.NumberToHash: the canonical chain by number
    heads,          \* _state.heads
    headHeader,     \* _state.headHeaderHash
    headBlock,      \* _state.headBlockHash
    disk,           \* the head pointers as last saved by createSaveHeadOps
    deletedBlocks,  \* _state.deletedBlocks
    emitted,        \* what the last step emitted as deletedCanonicalBlocks
    it              \* the iterator of each name

vars == <<td, bodies, index, heads, headHeader, headBlock, disk,
          deletedBlocks, emitted, it>>

Stored == DOMAIN td

Idle == [pc |-> "idle"]

(* An iterator inside its onBlock callback: the block it handed over, the  *)
(* number it read it at, the last block it finished, the reorg flag it     *)
(* passed and how many callbacks it made before.                           *)
Calling == [pc : {"callback"}, num : Nat, blk : Blocks,
            last : Blocks \cup {NoBlock}, reorg : BOOLEAN, ran : Nat]

Saved == [heads : [Names -> Blocks \cup {NoBlock}],
          headHeader : Blocks, headBlock : Blocks]

TypeOK ==
    /\ Stored \subseteq Blocks
    /\ td \in [Stored -> Nat]
    /\ bodies \subseteq Stored
    /\ DOMAIN index \subseteq Nat
    /\ index \in [DOMAIN index -> Stored]
    /\ heads \in [Names -> Stored \cup {NoBlock}]
    /\ headHeader \in Stored
    /\ headBlock \in Stored
    /\ disk \in Saved
    /\ deletedBlocks \subseteq Blocks
    /\ emitted \subseteq Blocks
    /\ it \in [Names -> Calling \cup {Idle}]

(* createBlockchainManager on an empty database. *)
Init ==
    /\ td = [b \in {Genesis} |-> Difficulty[Genesis]]
    /\ bodies = {Genesis}
    /\ index = [n \in {0} |-> Genesis]
    /\ heads = [name \in Names |-> NoBlock]
    /\ headHeader = Genesis
    /\ headBlock = Genesis
    /\ disk = [heads |-> heads, headHeader |-> Genesis, headBlock |-> Genesis]
    /\ deletedBlocks = {}
    /\ emitted = {}
    /\ it = [name \in Names |-> Idle]

------------------------------------------------------------------------------
(* Reading the canonical chain.                                            *)

Indexed(b, idx) == Number[b] \in DOMAIN idx /\ idx[Number[b]] = b

OnChain(b) == Indexed(b, index)

HeadOf(name) == IF heads[name] = NoBlock THEN Genesis ELSE heads[name]

(* Mutation: the entry at start itself survives. *)
DeletedAbove(start) ==
    {n \in DOMAIN index : n > start /\ start .. n \subseteq DOMAIN index}

(* The numbers createDeleteCanonicalChainOps walks over: up from start     *)
(* while the index has an entry.                                           *)
DeletedFrom(start) ==
    {n \in DOMAIN index : n >= start /\ start .. n \subseteq DOMAIN index}

(* A pointer to one of the blocks indexed at ns, moved to b. *)
Redirect(h, ns, b) == IF \E n \in ns : index[n] = h THEN b ELSE h

(* getBlock must be able to read the deleted blocks it reports. *)
CanDelete(start) ==
    Listener => \A n \in DeletedFrom(start) : index[n] \in bodies

(* findCommonAncestor finds one: it walks the canonical chain down from    *)
(* the lower of both numbers and the new header down its parents, and      *)
(* throws on a missing entry, on a missing header, or at genesis.          *)
HasCommonAncestor(b) ==
    LET height == Number[headHeader]
        Canonical(n) == IF n = height THEN headHeader ELSE index[n]
    IN  \E k \in 0 .. height :
            /\ k <= Number[b]
            /\ Canonical(k) = Path[b][k]
            /\ \A n \in k .. height :
                n <= Number[b] => n \in DOMAIN index \cup {height}
            /\ \A n \in k .. Number[b] - 1 : Path[b][n] \in Stored

(* The numbers createRebuildCanonicalOps writes, walking down from b: it   *)
(* stops at the first entry that is already b's ancestor, at genesis, and  *)
(* below a header whose parent is not stored.                              *)
RebuiltBy(b) ==
    {n \in 1 .. Number[b] :
        /\ \A m \in n .. Number[b] :
            ~(m \in DOMAIN index /\ index[m] = Path[b][m])
        /\ \A m \in n .. Number[b] - 1 : Path[b][m] \in Stored}

(* The last header the rebuild looked at. *)
RebuildEnd(b) ==
    LET walked == RebuiltBy(b)
        stop == CHOOSE k \in 0 .. Number[b] :
                    /\ k \notin walked
                    /\ k + 1 .. Number[b] \subseteq walked
    IN  IF Path[b][stop] \in Stored \cup {b} THEN stop ELSE stop + 1

(* staleHeads is emptied when the rebuild runs into a missing parent. *)
RebuildComplete(b) ==
    LET n == RebuildEnd(b)
    IN  n = 0 \/ (n \in DOMAIN index /\ index[n] = Path[b][n])

(* Mutation: the pointers are saved before they are updated. *)
SaveStaleHeads ==
    disk' = [heads |-> heads, headHeader |-> headHeader, headBlock |-> headBlock]

(* createSaveHeadOps: every pointer, in the batch of the method that moved it. *)
SaveHeads ==
    disk' = [heads |-> heads', headHeader |-> headHeader', headBlock |-> headBlock']

------------------------------------------------------------------------------
(* putBlock, putHeader.                                                     *)

(* The total difficulty recorded for b; a missing parent counts as 0, since *)
(* decoding an absent value yields the empty byte string.                   *)
TotalDifficulty(b) ==
    Difficulty[b] + IF Parent(b) \in Stored THEN td[Parent(b)] ELSE 0

(* validateBlock reads the parent block; putHeader validates nothing.       *)
Accepted(b, isBlock) ==
    /\ b # Genesis
    /\ isBlock => Parent(b) \in bodies

(* Mutation: the block's own difficulty is compared with the chain's total. *)
HeavierAlone(b) == ProofOfStake \/ Difficulty[b] > td[headHeader]

BecomesCanonical(b) == ProofOfStake \/ TotalDifficulty(b) > td[headHeader]

(* Mutation: the header and its total difficulty are not part of the batch. *)
StoreBody(b, isBlock) ==
    /\ UNCHANGED td
    /\ bodies' = IF isBlock \/ b \in Empty THEN bodies \cup {b} ELSE bodies

(* TD, header and body operations of the batch. *)
Store(b, isBlock) ==
    /\ td' = [x \in Stored \cup {b} |->
                 IF x = b THEN TotalDifficulty(b) ELSE td[x]]
    /\ bodies' = IF isBlock \/ b \in Empty THEN bodies \cup {b} ELSE bodies

(* NumberToHash after deleting the entries above b and writing b's branch.  *)
IndexWith(b) ==
    LET kept == DOMAIN index \ DeletedFrom(Number[b] + 1)
    IN  [n \in kept \cup RebuiltBy(b) |->
            IF n \in RebuiltBy(b) THEN Path[b][n] ELSE index[n]]

(* Where the reorg to b leaves the pointer h: a pointer above b goes to b,  *)
(* one on the replaced branch to where the branches meet.                   *)
AfterDelete(h, b) == Redirect(h, DeletedFrom(Number[b] + 1), b)

Stale(b) == RebuiltBy(b) \cap DOMAIN index

(* Mutation: a head on the replaced branch jumps to the new head. *)
HeadToTip(h, b) == Redirect(AfterDelete(h, b), Stale(b), b)

HeadAfter(h, b) ==
    IF RebuildComplete(b)
    THEN Redirect(AfterDelete(h, b), Stale(b), Path[b][RebuildEnd(b)])
    ELSE AfterDelete(h, b)

(* Mutation: iterator heads are not touched by a reorg. *)
HeadsKept(b) == heads

HeadsAfter(b) == [name \in Names |-> HeadAfter(heads[name], b)]

(* Mutation: a full block moves the header pointer only. *)
HeadBlockLags(b, isBlock) ==
    Redirect(AfterDelete(headBlock, b), Stale(b), Path[b][RebuildEnd(b)])

HeadBlockAfter(b, isBlock) ==
    Redirect(AfterDelete(IF isBlock THEN b ELSE headBlock, b),
             Stale(b), Path[b][RebuildEnd(b)])

DeletedBy(start) ==
    IF Listener THEN {index[n] : n \in DeletedFrom(start)} ELSE {}

(* The lock is free: no method holds it across a step. deletedBlocks left   *)
(* over from an earlier call is emitted with this one's.                    *)
Emit(blocks) == emitted' = blocks /\ deletedBlocks' = {}

PutCanonical(b, isBlock) ==
    /\ Accepted(b, isBlock)
    /\ BecomesCanonical(b)
    /\ HasCommonAncestor(b)
    /\ CanDelete(Number[b] + 1)
    /\ Store(b, isBlock)
    /\ index' = IndexWith(b)
    /\ heads' = HeadsAfter(b)
    /\ headHeader' = b
    /\ headBlock' = HeadBlockAfter(b, isBlock)
    /\ SaveHeads
    /\ Emit(DeletedBy(Number[b] + 1))
    /\ UNCHANGED it

(* It still becomes the head block when it is heavier than that one.        *)
HeadBlockBeside(b, isBlock) ==
    IF isBlock /\ TotalDifficulty(b) > td[headBlock] THEN b ELSE headBlock

(* A lighter block is only stored. *)
PutSide(b, isBlock) ==
    /\ Accepted(b, isBlock)
    /\ ~BecomesCanonical(b)
    /\ Store(b, isBlock)
    /\ headBlock' = HeadBlockBeside(b, isBlock)
    /\ UNCHANGED <<index, heads, headHeader, it>>
    /\ SaveHeads
    /\ Emit(deletedBlocks)

(* consensus.newBlock rejects b after the batch was written, wherever b     *)
(* belongs: the catch block restores the pointers in memory and nothing     *)
(* else.                                                                    *)
PutRejectedByConsensus(b, isBlock) ==
    /\ ConsensusMayThrow
    /\ Accepted(b, isBlock)
    /\ Store(b, isBlock)
    /\ \/ /\ BecomesCanonical(b)
          /\ HasCommonAncestor(b)
          /\ CanDelete(Number[b] + 1)
          /\ index' = IndexWith(b)
          /\ disk' = [heads |-> HeadsAfter(b), headHeader |-> b,
                      headBlock |-> HeadBlockAfter(b, isBlock)]
          /\ deletedBlocks' = DeletedBy(Number[b] + 1)
       \/ /\ ~BecomesCanonical(b)
          /\ disk' = [heads |-> heads, headHeader |-> headHeader,
                      headBlock |-> HeadBlockBeside(b, isBlock)]
          /\ UNCHANGED <<index, deletedBlocks>>
    /\ emitted' = {}
    /\ UNCHANGED <<heads, headHeader, headBlock, it>>

(* The configured genesis is accepted and changes nothing. *)
PutGenesis ==
    /\ Emit(deletedBlocks)
    /\ UNCHANGED <<td, bodies, index, heads, headHeader, headBlock, disk, it>>

PutBlockOrHeader(b, isBlock) ==
    \/ PutCanonical(b, isBlock)
    \/ PutSide(b, isBlock)
    \/ PutRejectedByConsensus(b, isBlock)

PutBlock(b) == PutBlockOrHeader(b, TRUE)

PutHeader(b) == b \in Headers /\ PutBlockOrHeader(b, FALSE)

------------------------------------------------------------------------------
(* resetCanonicalHead, setIteratorHead.                                     *)

ResetCanonicalHead(n) ==
    LET deleted == DeletedFrom(n + 1)
    IN  /\ n \in DOMAIN index
        /\ CanDelete(n + 1)
        /\ index' = [m \in DOMAIN index \ deleted |-> index[m]]
        /\ heads' = [name \in Names |->
                        Redirect(heads[name], deleted, index[n])]
        /\ headHeader' = Redirect(headHeader, deleted, index[n])
        /\ headBlock' = Redirect(headBlock, deleted, index[n])
        /\ SaveHeads
        /\ Emit(DeletedBy(n + 1))
        /\ UNCHANGED <<td, bodies, it>>

SetIteratorHead(name, b) ==
    /\ heads' = [heads EXCEPT ![name] = b]
    /\ UNCHANGED <<td, bodies, index, headHeader, headBlock, deletedBlocks, it>>
    /\ SaveHeads
    /\ emitted' = {}

------------------------------------------------------------------------------
(* iterator.                                                                *)

Readable(n) == n \in DOMAIN index /\ index[n] \in bodies

(* The top of the iterator's loop with the iterator head at hd: hand the    *)
(* next canonical block to onBlock, rereading the head first when it does   *)
(* not follow the last block; stop, and save the heads, when there is none. *)
LoopTop(name, num, last, ran, hds) ==
    LET hd == IF hds[name] = NoBlock THEN Genesis ELSE hds[name]
        reorg == last # NoBlock /\ Parent(index[num]) # last
        n == IF reorg THEN Number[hd] + 1 ELSE num
    IN  /\ heads' = hds
        /\ emitted' = {}
        /\ UNCHANGED <<td, bodies, index, headHeader, headBlock, deletedBlocks>>
        /\ IF ran < MaxBlocks /\ Readable(num) /\ Readable(n)
           THEN /\ it' = [it EXCEPT ![name] =
                            [pc |-> "callback", num |-> n, blk |-> index[n],
                             last |-> last, reorg |-> reorg, ran |-> ran]]
                /\ UNCHANGED disk
           ELSE /\ it' = [it EXCEPT ![name] = Idle]
                /\ SaveHeads

IteratorStart(name) ==
    /\ it[name].pc = "idle"
    /\ LoopTop(name, Number[HeadOf(name)] + 1, NoBlock, 0, heads)

(* Mutation: whatever happened during the callback is ignored. *)
NeverReorged(name) == FALSE

(* onBlock returned and the lock is held again. *)
ReorgWhileOnBlock(name) ==
    ~(Readable(it[name].num) /\ index[it[name].num] = it[name].blk)

IteratorAdvance(name) ==
    /\ it[name].pc = "callback"
    /\ ~ReorgWhileOnBlock(name)
    /\ LoopTop(name, it[name].num + 1, it[name].blk, it[name].ran + 1,
               [heads EXCEPT ![name] = it[name].blk])

IteratorReorged(name) ==
    /\ it[name].pc = "callback"
    /\ ReorgWhileOnBlock(name)
    /\ LoopTop(name, it[name].num, it[name].last, it[name].ran + 1, heads)

(* onBlock threw: the heads are saved as they are. *)
IteratorThrow(name) ==
    /\ it[name].pc = "callback"
    /\ it' = [it EXCEPT ![name] = Idle]
    /\ emitted' = {}
    /\ UNCHANGED <<td, bodies, index, heads, headHeader, headBlock, deletedBlocks>>
    /\ SaveHeads

------------------------------------------------------------------------------
(* The process dies between two batches and createBlockchainManager reads   *)
(* the pointers back.                                                       *)
Restart ==
    /\ heads' = disk.heads
    /\ headHeader' = disk.headHeader
    /\ headBlock' = disk.headBlock
    /\ deletedBlocks' = {}
    /\ emitted' = {}
    /\ it' = [name \in Names |-> Idle]
    /\ UNCHANGED <<td, bodies, index, disk>>

Iterate(name) ==
    \/ IteratorStart(name)
    \/ IteratorAdvance(name)
    \/ IteratorReorged(name)
    \/ IteratorThrow(name)

(* Callers move an iterator head to a block they found to be canonical. *)
Next ==
    \/ \E b \in Blocks : PutBlock(b) \/ PutHeader(b)
    \/ PutGenesis
    \/ \E n \in ResetTargets : ResetCanonicalHead(n)
    \/ \E name \in Names :
        \/ \E b \in Stored : OnChain(b) /\ SetIteratorHead(name, b)
        \/ Iterate(name)
    \/ Restart

Spec == Init /\ [][Next]_vars

------------------------------------------------------------------------------
(* Properties.                                                              *)

(* The number index is exactly the ancestry of the head header: contiguous, *)
(* linked by parent hashes, with nothing left above the head. A reorg that  *)
(* deletes or rewrites one entry too few breaks it.                         *)
CanonicalIndex == index = Path[headHeader]

(* Even after consensus rejected blocks whose batch had been written, the   *)
(* number index is the complete ancestry of one stored block.               *)
IndexIsAncestry == \E b \in Stored : index = Path[b]

(* and the next step that moves the head header, a put, a reset or a        *)
(* restart, brings header and index together again.                         *)
HeadMoveRepairsIndex ==
    [][headHeader' # headHeader => index' = Path[headHeader']]_vars

(* Every iterator head, in memory and as a restart would load it, is a      *)
(* block of the canonical chain, whatever was reorganised meanwhile.        *)
HeadsCanonical ==
    \A name \in Names :
        /\ heads[name] # NoBlock => OnChain(heads[name])
        /\ disk.heads[name] # NoBlock => OnChain(disk.heads[name])

(* Dying after any step loses no head pointer: what is on disk is what the  *)
(* node had, except for the head of a running iterator, which is saved when *)
(* the iterator ends.                                                       *)
CrashLosesNothing ==
    /\ disk.headHeader = headHeader
    /\ disk.headBlock = headBlock
    /\ \A name \in Names : it[name] = Idle => disk.heads[name] = heads[name]

(* The head block is the highest block of the canonical chain whose body    *)
(* the node has ("latest full block"), when nobody puts bare headers.       *)
HeadBlockIsHead == headBlock = headHeader /\ headBlock \in bodies

(* Under proof of work no stored block is heavier than the head.            *)
HeaviestHead == \A b \in Stored : td[b] <= td[headHeader]

(* putBlock and resetCanonicalHead never move an iterator head up the       *)
(* chain, and move it at all only when its block left the canonical chain:  *)
(* the reorg that ends a putBlock rewinds executors, it never skips numbers.*)
ReorgOnlyRewinds ==
    [][\A name \in Names :
        (it' = it /\ index' # index /\ heads[name] # NoBlock) =>
            \/ heads'[name] = heads[name]
            \/ /\ ~Indexed(heads[name], index')
               /\ Number[heads'[name]] < Number[heads[name]]]_vars

(* The blocks an iterator hands over without the reorg flag follow one      *)
(* another: after the first callback of a run, each is the child of the     *)
(* last one that was finished; with the flag, of the iterator head.         *)
IteratorInSequence ==
    [][\A name \in Names :
        (it'[name] # it[name] /\ it'[name] # Idle) =>
            LET next == it'[name] IN
                IF next.last = NoBlock
                THEN next.ran = 0 => Parent(next.blk) = HeadOf(name)'
                ELSE Parent(next.blk) =
                        (IF next.reorg THEN HeadOf(name)' ELSE next.last)]_vars

(* The store implements the abstract chain: the number index is the chain,  *)
(* an unset head is a cursor at genesis.                                    *)
CC == INSTANCE CanonicalChain
        WITH chain <- index, cursor <- [name \in Names |-> HeadOf(name)]

ImplementsCanonicalChain == CC!Spec

(* A block that leaves the canonical chain is announced by                  *)
(* deletedCanonicalBlocks, which is what its receipts are deleted on.       *)
DeletedAreAnnounced ==
    [][\A n \in DOMAIN index :
        ~Indexed(index[n], index') => index[n] \in emitted']_vars

==============================================================================
