------------------------------ MODULE Skeleton ------------------------------
(***************************************************************************)
(* Skeleton (execution-client/src/service/skeleton.ts): the chain segment  *)
(* that beacon sync downloads backwards from the head the consensus client *)
(* announced, until its tail meets the canonical chain, which is then cut  *)
(* back to the tail and filled upwards.                                    *)
(*                                                                         *)
(* setHead, putBlocks and the deletions and back steps of a fill take      *)
(* turns under the skeleton's lock; fillCanonicalChain itself runs without *)
(* it, in between.  Blocks and status are separate database writes.  The   *)
(* canonical chain is what CanonicalChain promises: the ancestry of a tip. *)
(* The node is syncing: execution is behind the chain, so newPayload and   *)
(* forkchoiceUpdated execute nothing and move no head themselves.          *)
(***************************************************************************)
EXTENDS BlockTree, Sequences, FiniteSets

CONSTANTS
    Heads,          \* the blocks the consensus client announces
    NoBlock,        \* an undefined block, a hash of zeros
    BackStep,       \* skeletonFillCanonicalBackStep
    MergeMinimum,   \* skeletonSubchainMergeMinimum
    MaxEvents,      \* bound: forkchoices, repeated payloads, stray answers, failed calls, restarts
    MaxRestarts     \* bound: how many of them are restarts

ASSUME SkeletonAssumption ==
    /\ Heads \subseteq Blocks
    /\ NoBlock \notin Blocks
    /\ BackStep \in Nat
    /\ MergeMinimum \in Nat
    /\ MaxEvents \in Nat
    /\ MaxRestarts \in Nat

VARIABLES
    tip,       \* the head of the canonical chain
    known,     \* blocks the chain's database has
    sk,        \* DBKey.SkeletonBlock: number -> block
    byHash,    \* DBKey.SkeletonUnfinalizedBlockByHash
    status,    \* this.status: subchains (newest first), linked, canonicalHeadReset
    disk,      \* DBKey.SkeletonStatus
    lock,      \* this._lock: who holds it between its writes
    fill,      \* the running fillCanonicalChain
    fcu,       \* the pending forkchoiceUpdate, or what is left of the node's start
    running,   \* BeaconSynchronizer.running
    looping,   \* the loop of BeaconSynchronizer.start is still there
    remote,    \* remoteBlocks: the blocks that newPayload stashed
    announced, \* the head the consensus client last asked for
    events,    \* how many of the bounded events came in
    restarts,  \* how often the process was restarted
    faults     \* what went wrong so far: "torn", "flag", "stale"

syncer == <<running, looping>>

vars == <<tip, known, sk, byHash, status, disk, lock, fill, fcu, syncer, remote, announced,
          events, restarts, faults>>

store == <<sk, byHash>>

chain == <<tip, known>>

Height == Number[tip]

ParentHash(b) == IF b = Genesis THEN NoBlock ELSE Parent(b)

Free == [by |-> "nobody"]

Filling == fill.pc # "idle"

NoFill == [pc |-> "idle"]

FillsFrom(i) == fill.pc \notin {"idle", "thrown", "undefined"} /\ fill.sub = i

NoFcu == [pc |-> "idle"]

(* The synchroniser is opened and started before there are peers and calls. *)
Booting == fcu.pc \in {"open", "init", "start"}

(* Subchains are objects: a fill keeps a reference to the one it started    *)
(* with, whatever becomes of the list. Above genesis, a tail has a parent.  *)
Subchain == {c \in [head : Nat, tail : Nat, next : Blocks \cup {NoBlock}] :
                c.tail > 0 => c.next \in Blocks}

(* Chain, skeleton, status and the pending calls have their types; the tip  *)
(* of the chain is a block that the chain has; every subchain above genesis *)
(* knows the block to fetch next.                                           *)
TypeOK ==
    /\ tip \in known
    /\ known \subseteq Blocks
    /\ DOMAIN sk \subseteq Nat
    /\ sk \in [DOMAIN sk -> Blocks]
    /\ byHash \subseteq Blocks
    /\ DOMAIN status.obj \subseteq Nat
    /\ status.obj \in [DOMAIN status.obj -> Subchain]
    /\ status.subs \in Seq(DOMAIN status.obj)
    /\ status.linked \in BOOLEAN
    /\ status.reset \in BOOLEAN
    /\ disk \in [subs : Seq(Subchain), linked : BOOLEAN, reset : BOOLEAN]
    /\ lock \in {Free} \cup [by : {"head"}]
                 \cup [by : {"put"}, fills : BOOLEAN, more : Blocks \cup {NoBlock}]
    /\ fill.pc \in {"idle", "cut", "unflag", "loop", "put", "delete",
                    "missing", "rejected", "thrown", "undefined"}
    /\ fcu.pc \in {"open", "init", "start", "idle", "head", "fill", "restart"}
    /\ running \in BOOLEAN /\ looping \in BOOLEAN
    /\ remote \subseteq Blocks
    /\ announced \in Blocks
    /\ events \in 0 .. MaxEvents
    /\ restarts \in 0 .. MaxRestarts
    /\ faults \subseteq {"torn", "flag", "stale"}

Init ==
    /\ tip = Genesis
    /\ known = {Genesis}
    /\ sk = <<>>
    /\ byHash = {}
    /\ status = [subs |-> <<>>, obj |-> <<>>, linked |-> FALSE, reset |-> FALSE]
    /\ disk = [subs |-> <<>>, linked |-> FALSE, reset |-> FALSE]
    /\ lock = Free
    /\ fill = NoFill
    /\ fcu = [pc |-> "start"]
    /\ running = FALSE /\ looping = FALSE
    /\ remote = {}
    /\ announced = Genesis
    /\ events = 0
    /\ restarts = 0
    /\ faults = {}

Event == events < MaxEvents /\ events' = events + 1

------------------------------------------------------------------------------
(* Reading blocks, by number and by hash.                                   *)

Canonical(n) == IF n <= Height THEN Path[tip][n] ELSE NoBlock

(* getBlock: from the skeleton, else from the chain. *)
GetBlock(n, s) == IF n \in DOMAIN s THEN s[n] ELSE Canonical(n)

(* getBlock with onlyCanonical: the chain counts only once it is linked. *)
GetCanonicalBlock(n, s, linked) ==
    IF n \in DOMAIN s \/ linked THEN GetBlock(n, s) ELSE NoBlock

(* getBlockByHash finds it. *)
HasBlock(b) == b \in byHash \cup known

------------------------------------------------------------------------------
(* The list of subchains.                                                   *)

First(st) == st.obj[st.subs[1]]

Second(st) == st.obj[st.subs[2]]

SetFirst(st, c) == [st EXCEPT !.obj[st.subs[1]] = c]

DropSecond(st) == [st EXCEPT !.subs = <<st.subs[1]>> \o SubSeq(st.subs, 3, Len(st.subs))]

DropOthers(st) == [st EXCEPT !.subs = <<st.subs[1]>>]

(* A new subchain in front of the list. *)
Unshift(st, c) ==
    LET id == CHOOSE i \in 1 .. Cardinality(DOMAIN st.obj) + 1 : i \notin DOMAIN st.obj
    IN  [st EXCEPT !.subs = <<id>> \o st.subs,
                   !.obj = [i \in DOMAIN st.obj \cup {id} |->
                                IF i = id THEN c ELSE st.obj[i]]]

(* status' is st, without the subchains nobody refers to any more. *)
SetStatus(st) ==
    LET used == {st.subs[i] : i \in DOMAIN st.subs}
                \cup {i \in DOMAIN st.obj : FillsFrom(i)}
    IN  status' = [st EXCEPT !.obj = [i \in used |-> st.obj[i]]]

(* statusToRLP *)
Encoded(st) == [subs |-> [i \in DOMAIN st.subs |-> st.obj[st.subs[i]]],
                linked |-> st.linked, reset |-> st.reset]

(* checkLinked: the tail is genesis or its parent is canonical. *)
Linked(st) ==
    /\ st.subs # <<>>
    /\ LET c == First(st) IN
        \/ c.tail = 0
        \/ c.tail <= Height + 1 /\ c.next = Canonical(c.tail - 1)

(* checkLinked junks the other subchains when it finds a link, unless the   *)
(* tail is genesis.                                                         *)
CheckLinked(st) ==
    LET linked == Linked(st)
        kept == IF linked /\ First(st).tail > 0 THEN DropOthers(st) ELSE st
    IN  [kept EXCEPT !.linked = linked]

(* It writes the status when it junks them, before linked is assigned.      *)
Junked(before, checked, written) ==
    IF checked.subs # before.subs
    THEN Encoded([checked EXCEPT !.linked = before.linked]) ELSE written

------------------------------------------------------------------------------
(* trySubChainsMerge.                                                       *)

Overlaps(st) == Len(st.subs) > 1 /\ Second(st).head >= First(st).tail

(* One round: the second subchain is overwritten, or trimmed and then       *)
(* merged, ignored or junked with all others.                               *)
MergeRound(m, s) ==
    LET st == m.st
        first == First(st)
        second == Second(st)
        trimmed == [st EXCEPT !.obj[st.subs[2]].head = first.tail - 1]
        top == GetCanonicalBlock(first.tail - 1, s, st.linked)
        bottom == GetCanonicalBlock(second.tail, s, st.linked)
    IN  IF second.tail >= first.tail
        THEN [m EXCEPT !.st = DropSecond(st)]
        ELSE IF \/ top = NoBlock \/ bottom = NoBlock
                \/ ParentHash(bottom) # second.next
        THEN [m EXCEPT !.st = DropOthers(trimmed)]
        ELSE IF top # first.next
        THEN [m EXCEPT !.st = trimmed]
        ELSE IF second.head - second.tail > MergeMinimum
        THEN [st |-> DropSecond(SetFirst(trimmed,
                        [first EXCEPT !.tail = second.tail, !.next = second.next])),
              merged |-> TRUE]
        ELSE [m EXCEPT !.st = DropSecond(trimmed)]

MergeStep(m, s) == IF Overlaps(m.st) THEN MergeRound(m, s) ELSE m

(* As many rounds as there are subchains; each round is evaluated once. *)
Merge(st, s) ==
    LET after[k \in 0 .. Len(st.subs)] ==
            IF k = 0 THEN [st |-> st, merged |-> FALSE]
            ELSE CHOOSE r \in {MergeStep(m, s) : m \in {after[k - 1]}} : TRUE
    IN  after[Len(st.subs)]

------------------------------------------------------------------------------
(* setHead.                                                                 *)

(* The subchain a first announcement starts from: the chain's own head. *)
Inited(st) ==
    IF st.subs # <<>> THEN st
    ELSE [Unshift(st, [head |-> Height, tail |-> Height, next |-> ParentHash(tip)])
            EXCEPT !.linked = TRUE, !.reset = FALSE]

(* fastForwardHead: up to target while the blocks there are linked. *)
FastForwarded(st, target) ==
    LET from == First(st).head
        Get(n) == GetCanonicalBlock(n, sk, st.linked)
        reached == {n \in from .. target :
                        \A m \in from + 1 .. n :
                            /\ Get(m) # NoBlock
                            /\ Get(m - 1) # NoBlock
                            /\ ParentHash(Get(m)) = Get(m - 1)}
    IN  CHOOSE n \in reached : \A m \in reached : m <= n

(* processNewHead: what becomes of the first subchain, and whether b asks   *)
(* for a reorg.                                                             *)
ProcessNewHead(st, b, force) ==
    LET n == Number[b]
        c == First(st)
        head == IF force /\ c.head + 1 < n THEN FastForwarded(st, n - 1) ELSE c.head
        Result(new, reorg) == [st |-> SetFirst(st, new), reorg |-> reorg]
    IN  IF n = 0
        THEN [st |-> [st EXCEPT !.linked = TRUE, !.reset = FALSE], reorg |-> FALSE]
        ELSE IF n < c.tail
        THEN Result(IF force THEN [head |-> n, tail |-> n, next |-> Parent(b)] ELSE c, TRUE)
        ELSE IF n <= c.head
        THEN Result(c, GetBlock(n, sk) # b)
        ELSE IF head + 1 < n \/ GetBlock(n - 1, sk) # Parent(b)
        THEN Result([c EXCEPT !.head = head], TRUE)
        ELSE Result(IF force THEN [c EXCEPT !.head = n] ELSE c, FALSE)

(* What a forced reorg does with a first subchain that is partly filled:    *)
(* its tail goes to the first block the chain does not have, if limit       *)
(* allows and the skeleton has it.                                          *)
MustTruncate(st) == st.linked /\ ~st.reset /\ Height >= First(st).tail

TruncateTailTo(st, limit) ==
    IF Height + 1 <= limit THEN GetCanonicalBlock(Height + 1, sk, st.linked) ELSE NoBlock

Truncated(st, b) ==
    SetFirst(st, [First(st) EXCEPT !.tail = Number[b], !.next = ParentHash(b)])

(* A new subchain is laid over the old ones... *)
NewSubchain(st, b, head0) ==
    LET cut == TruncateTailTo(st, First(st).head)
        old == IF ~MustTruncate(st) THEN st
               ELSE IF cut # NoBlock THEN Truncated(st, cut)
               ELSE [st EXCEPT !.subs = Tail(st.subs)]
        rest == IF head0 = 0 THEN [old EXCEPT !.subs = <<>>] ELSE old
    IN  [Unshift(rest, [head |-> Number[b], tail |-> Number[b], next |-> Parent(b)])
            EXCEPT !.reset = TRUE]

(* ... or the first one continues to the new head. *)
MovedHead(st, b) ==
    LET moved == SetFirst(st, [First(st) EXCEPT !.head = Number[b]])
        cut == TruncateTailTo(moved, Number[b] - 1)
    IN  IF ~MustTruncate(st) THEN moved
        ELSE IF cut # NoBlock THEN Truncated(moved, cut)
        ELSE [Truncated(moved, b) EXCEPT !.reset = TRUE]

HasParentFor(st, b) ==
    LET parent == GetCanonicalBlock(Number[b] - 1, sk, st.linked)
    IN  parent = Parent(b) /\ Number[parent] >= First(st).tail

Reorged(st, b, head0) ==
    IF HasParentFor(st, b) THEN MovedHead(st, b) ELSE NewSubchain(st, b, head0)

(* The parent may lie above the head that fastForwardHead reached: a block  *)
(* that an older subchain left, to which the first one does not lead.       *)
OnStaleParent(st, b) ==
    /\ HasParentFor(st, b)
    /\ Number[b] - 1 > First(st).head
    /\ First(MovedHead(st, b)).tail < Number[b]

(* An announcement below the head is only kept by its hash. *)
Stored(b, onlyUnfinalized) ==
    IF onlyUnfinalized THEN sk
    ELSE [n \in DOMAIN sk \cup {Number[b]} |-> IF n = Number[b] THEN b ELSE sk[n]]

(* Mutation: the block that had the number before is dropped. *)
PutBlockOver(b, onlyUnfinalized) ==
    /\ byHash' = (byHash \ {sk[n] : n \in DOMAIN sk \cap {Number[b]}}) \cup {b}
    /\ sk' = Stored(b, onlyUnfinalized)

PutBlock(b, onlyUnfinalized) ==
    /\ byHash' = byHash \cup {b}
    /\ sk' = Stored(b, onlyUnfinalized)

(* The status is written last, and only for a new head. Here and in         *)
(* PutExtending each step of the call is bound, so that it is evaluated     *)
(* once.                                                                    *)
SetHead(b, force, init) ==
    /\ lock = Free
    /\ lock' = IF force \/ init THEN [by |-> "head"] ELSE Free
    /\ \E start \in {Inited(status)} :
       \E new \in {ProcessNewHead(start, b, force)} :
       \E placed \in {IF force /\ new.reorg
                     THEN Reorged(new.st, b, First(start).head) ELSE new.st} :
       \E merged \in {IF init THEN Merge(placed, Stored(b, FALSE)).st ELSE placed} :
       \E last \in {IF (force /\ new.reorg) \/ init THEN CheckLinked(merged) ELSE merged} :
        /\ PutBlock(b, ~force /\ Number[b] <= First(start).head)
        /\ SetStatus(last)
        /\ disk' = Junked(merged, last, IF merged # placed THEN Encoded(merged) ELSE disk)
        /\ faults' = faults \cup
                {f \in {"stale"} : force /\ new.reorg /\ OnStaleParent(new.st, b)}
        /\ fcu' = IF init THEN [pc |-> "init"]
                  ELSE IF force
                  THEN [pc |-> IF new.reorg /\ status.linked /\ ~last.linked
                               THEN "head" ELSE "fill",
                        reorged |-> new.reorg]
                  ELSE fcu

------------------------------------------------------------------------------
(* fillCanonicalChain, up to its first await.                               *)

(* Mutation: the chain is cut back to the tail, not below it. *)
FillBegunAtTail(st) ==
    IF Filling THEN fill
    ELSE IF ~st.reset THEN [pc |-> "loop", at |-> Height, sub |-> st.subs[1]]
    ELSE [pc |-> "cut", at |-> First(st).tail, sub |-> st.subs[1]]

(* A status that was saved as linked while the subchains were given up.     *)
NoSubchain(st) == st.subs = <<>>

FillBegun(st) ==
    LET c == First(st)
        newHead == IF c.tail = 0 THEN 0 ELSE c.tail - 1
    IN  IF Filling THEN fill
        ELSE IF NoSubchain(st) THEN [pc |-> "undefined"]
        ELSE IF ~st.reset THEN [pc |-> "loop", at |-> Height, sub |-> st.subs[1]]
        ELSE IF c.tail > Height + 1 THEN [pc |-> "thrown"]
        ELSE IF Height > 0 THEN [pc |-> "cut", at |-> newHead, sub |-> st.subs[1]]
        ELSE [pc |-> "unflag", at |-> 0, sub |-> st.subs[1]]

(* The last write of setHead and of putBlocks, which ends their turn; the   *)
(* latter starts a fill when the skeleton became linked.                    *)
WriteSyncStatus ==
    /\ lock # Free
    /\ disk' = Encoded(status)
    /\ lock' = Free
    /\ fill' = IF lock.by = "put" /\ status.linked /\ lock.fills
               THEN FillBegun(status) ELSE fill
    /\ UNCHANGED <<chain, store, status, fcu, syncer, remote, announced, events, restarts, faults>>

------------------------------------------------------------------------------
(* putBlocks: one block of a batch. The batch goes on with the parent until *)
(* subchains merged or the chain is linked.                                 *)

Extends(b) == First(status).next = b

PutExtending(b, fills) ==
    /\ Extends(b)
    /\ PutBlock(b, FALSE)
    /\ \E extended \in {SetFirst(status, [First(status) EXCEPT !.tail = Number[b],
                                                              !.next = ParentHash(b)])} :
       \E merge \in {Merge(extended, Stored(b, FALSE))} :
       \E flagged \in {[merge.st EXCEPT !.reset = TRUE]} :
       \E checked \in {IF First(flagged).tail <= Height + 1
                      THEN CheckLinked(flagged) ELSE flagged} :
        /\ SetStatus(checked)
        /\ disk' = Junked(flagged, checked,
                          IF merge.st # extended THEN Encoded(merge.st) ELSE disk)
        /\ lock' = [by |-> "put", fills |-> fills,
                    more |-> IF merge.merged \/ checked.linked THEN NoBlock ELSE ParentHash(b)]
    /\ UNCHANGED <<chain, fill>>

(* A block at or above the tail, or genesis, is passed over. *)
PutSkipped(b, fills) ==
    /\ Number[b] >= First(status).tail \/ b = Genesis
    /\ lock' = [by |-> "put", fills |-> fills, more |-> ParentHash(b)]
    /\ UNCHANGED <<chain, store, status, disk, fill>>

(* A block that does not extend the tail ends the batch without a write. *)
PutThrows(b) ==
    /\ Number[b] < First(status).tail /\ b # Genesis /\ ~Extends(b)
    /\ lock' = Free
    /\ UNCHANGED <<chain, store, status, disk, fill>>

PutBlockOf(b, fills) ==
    /\ status.subs # <<>> /\ ~status.linked
    /\ \/ Number[b] < First(status).tail /\ b # Genesis /\ PutExtending(b, fills)
       \/ PutSkipped(b, fills)
       \/ PutThrows(b)

------------------------------------------------------------------------------
(* fillCanonicalChain.                                                      *)

FillSteps == UNCHANGED <<fcu, syncer, remote, announced, events, restarts>>

FillReset ==
    /\ fill.pc = "cut"
    /\ IF fill.at <= Height
       THEN tip' = Path[tip][fill.at] /\ fill' = [fill EXCEPT !.pc = "unflag"]
       ELSE UNCHANGED tip /\ fill' = [pc |-> "thrown"]
    /\ FillSteps /\ UNCHANGED <<faults, known, store, status, disk, lock>>

(* setHead put a subchain in front of the one that is filled. *)
Overtaken == status.subs = <<>> \/ status.subs[1] # fill.sub

FillUnflag ==
    /\ fill.pc = "unflag" /\ lock = Free
    /\ status' = [status EXCEPT !.reset = FALSE]
    /\ faults' = faults \cup {f \in {"flag"} : Overtaken}
    /\ fill' = [fill EXCEPT !.pc = "loop"]
    /\ FillSteps /\ UNCHANGED <<chain, store, disk, lock>>

FillGoesOn == ~status.reset /\ fill.at < status.obj[fill.sub].head

FillEnd ==
    /\ fill.pc = "loop"
    /\ ~FillGoesOn
    /\ fill' = NoFill
    /\ FillSteps /\ UNCHANGED <<faults, chain, store, status, disk, lock>>

FillRead ==
    /\ fill.pc = "loop"
    /\ FillGoesOn
    /\ LET b == GetBlock(fill.at + 1, sk) IN
        fill' = [pc |-> IF b = NoBlock THEN "missing" ELSE "put",
                 at |-> fill.at, sub |-> fill.sub, block |-> b]
    /\ FillSteps /\ UNCHANGED <<faults, chain, store, status, disk, lock>>

(* Mutation: the head moves to a block that is not stored. *)
FillPutHeadOnly ==
    /\ fill.pc = "put"
    /\ tip' = fill.block
    /\ fill' = [fill EXCEPT !.pc = "delete", !.at = @ + 1]
    /\ FillSteps /\ UNCHANGED <<faults, known, store, status, disk, lock>>

(* Under proof of stake a put block becomes the head; one below the chain's *)
(* height is skipped.                                                       *)
FillPut ==
    /\ fill.pc = "put"
    /\ LET b == fill.block
           skipped == Height > Number[b]
           accepted == Parent(b) \in known
       IN  /\ tip' = IF ~skipped /\ accepted THEN b ELSE tip
           /\ known' = IF ~skipped /\ accepted THEN known \cup {b} ELSE known
           /\ fill' = IF skipped \/ accepted
                      THEN [fill EXCEPT !.pc = "delete", !.at = @ + 1]
                      ELSE [fill EXCEPT !.pc = "rejected"]
    /\ FillSteps /\ UNCHANGED <<faults, store, status, disk, lock>>

(* Mutation: a block is deleted although the chain is about to be cut. *)
FillDeleteAlways ==
    /\ fill.pc = "delete" /\ lock = Free
    /\ sk' = [n \in DOMAIN sk \ {Number[fill.block]} |-> sk[n]]
    /\ byHash' = byHash \ {fill.block}
    /\ fill' = [pc |-> "loop", at |-> fill.at, sub |-> fill.sub]
    /\ FillSteps /\ UNCHANGED <<faults, chain, status, disk, lock>>

(* deleteBlock deletes by number. *)
FillDelete ==
    /\ fill.pc = "delete" /\ lock = Free
    /\ IF status.linked /\ ~status.reset /\ Height >= Number[fill.block]
       THEN /\ sk' = [n \in DOMAIN sk \ {Number[fill.block]} |-> sk[n]]
            /\ byHash' = byHash \ {fill.block}
       ELSE UNCHANGED store
    /\ fill' = [pc |-> "loop", at |-> fill.at, sub |-> fill.sub]
    /\ FillSteps /\ UNCHANGED <<faults, chain, status, disk, lock>>

(* backStep: raise the tail over the block that could not be filled, or     *)
(* give the subchains up. The flags change after the write.                 *)
BackStepped(from) ==
    LET c == First(status)
        start == IF c.tail < from THEN from ELSE c.tail
        Get(n) == GetCanonicalBlock(n, sk, status.linked)
        tried == {n \in start .. c.head : n > start /\ (n - start) % BackStep = 0
                                          /\ Get(n) # NoBlock}
        newTail == IF tried = {} THEN c.head ELSE CHOOSE n \in tried : \A m \in tried : n <= m
    IN  IF BackStep = 0 THEN status
        ELSE IF Get(newTail) # NoBlock
        THEN Truncated(status, Get(newTail))
        ELSE [status EXCEPT !.subs = <<>>]

(* Mutation: the fill just ends at a block it cannot fill. *)
FillGivesUp ==
    /\ fill.pc \in {"missing", "rejected"} /\ lock = Free
    /\ fill' = NoFill
    /\ FillSteps /\ UNCHANGED <<faults, chain, store, status, disk, lock>>

FillBackStep ==
    /\ fill.pc \in {"missing", "rejected"} /\ lock = Free
    /\ fill' = NoFill
    /\ IF fill.pc = "rejected" /\ status.reset
       THEN UNCHANGED <<status, disk>>
       ELSE LET st == BackStepped(fill.at + 1)
                checked == CheckLinked([st EXCEPT !.reset = TRUE])
            IN  /\ status' = [checked EXCEPT
                                !.obj = [i \in {checked.subs[k] : k \in DOMAIN checked.subs} |->
                                            checked.obj[i]]]
                /\ disk' = Junked([st EXCEPT !.reset = TRUE], checked,
                                  IF BackStep > 0 THEN Encoded(st) ELSE disk)
    /\ FillSteps /\ UNCHANGED <<faults, chain, store, lock>>

(* The flag was raised while the missing block was looked up. *)
FillBreak ==
    /\ fill.pc = "missing" /\ status.reset
    /\ fill' = NoFill
    /\ FillSteps /\ UNCHANGED <<faults, chain, store, status, disk, lock>>

FillStep ==
    \/ FillReset \/ FillUnflag \/ FillEnd \/ FillRead \/ FillPut \/ FillDelete
    \/ FillBackStep \/ FillBreak

------------------------------------------------------------------------------
(* BeaconSynchronizer: fetch until the skeleton is linked, and go on when   *)
(* it is not linked any more; but a skeleton that is linked at the start is *)
(* only filled.                                                             *)

Start ==
    IF ~status.linked
    THEN /\ running' = TRUE /\ looping' = TRUE
         /\ UNCHANGED fill
    ELSE /\ running' = FALSE /\ UNCHANGED looping
         /\ fill' = FillBegun(status)

(* Nobody fetches what the skeleton lacks. *)
Stranded == status.subs # <<>> /\ ~status.linked /\ ~looping

(* A loop looks at running when its fetcher is done and its wait is over.   *)
LoopEnds ==
    /\ looping /\ ~running
    /\ looping' = FALSE
    /\ UNCHANGED <<chain, store, status, disk, lock, fill, fcu, running, remote, announced,
                   events, restarts, faults>>

------------------------------------------------------------------------------
(* The engine API: newPayload and forkchoiceUpdated.                        *)

(* newPayload of a block whose parent is not executed stashes it and hands  *)
(* it over.                                                                 *)
NewPayload(b) ==
    /\ IF HasBlock(b) THEN Event ELSE UNCHANGED events
    /\ ~Booting /\ b # Genesis
    /\ remote' = remote \cup {b}
    /\ SetHead(b, FALSE, FALSE)
    /\ UNCHANGED <<chain, fill, syncer, announced, restarts>>

(* The stash, the skeleton by number, the chain: a block that the skeleton  *)
(* knows by its hash only is not found.                                     *)
FindsHead(b) == b \in remote \cup {sk[n] : n \in DOMAIN sk} \cup known

ForkchoiceUpdate(b) ==
    /\ fcu.pc = "idle" /\ FindsHead(b)
    /\ SetHead(b, TRUE, FALSE)
    /\ announced' = b
    /\ UNCHANGED <<chain, fill, syncer, remote, restarts>>

(* Genesis is announced only until a block is. *)
NewForkchoice(b) ==
    /\ Event
    /\ status.subs # <<>> /\ First(status).head > 0 => b # Genesis
    /\ ForkchoiceUpdate(b)

(* The consensus client announces its head again and again. *)
SameForkchoice ==
    /\ announced # Genesis
    /\ ForkchoiceUpdate(announced)
    /\ UNCHANGED events

(* blockingTailBackfillWithCutoff: parents that are known by hash. *)
FcuBackfill ==
    /\ fcu.pc = "head" /\ lock = Free
    /\ fcu' = [fcu EXCEPT !.pc = "fill"]
    /\ UNCHANGED <<syncer, remote, announced, events, restarts, faults>>
    /\ IF ~status.linked /\ status.subs # <<>> /\ HasBlock(First(status).next)
       THEN PutBlockOf(First(status).next, FALSE)
       ELSE UNCHANGED <<chain, store, status, disk, lock, fill>>

(* The call ends here without a subchain, or when the safe or the finalized *)
(* block does not pass its checks.                                          *)
FcuFill ==
    /\ fcu.pc = "fill" /\ lock = Free
    /\ \/ /\ status.subs # <<>>
          /\ fcu' = IF fcu.reorged THEN [pc |-> "restart"] ELSE NoFcu
          /\ fill' = IF status.linked THEN FillBegun(status) ELSE fill
          /\ UNCHANGED events
       \/ /\ IF status.subs = <<>> THEN UNCHANGED events ELSE Event
          /\ fcu' = NoFcu
          /\ UNCHANGED fill
    /\ UNCHANGED <<chain, store, status, disk, lock, syncer, remote, announced, restarts, faults>>

(* reorged: the synchroniser is stopped and started, but only for a reorg.  *)
(* The head is not executed, so that the call then returns SYNCING.         *)
FcuRestart ==
    /\ fcu.pc = "restart" /\ lock = Free
    /\ fcu' = NoFcu
    /\ Start
    /\ UNCHANGED <<chain, store, status, disk, lock, remote, announced, events, restarts, faults>>

FcuStep == FcuBackfill \/ FcuFill \/ FcuRestart

------------------------------------------------------------------------------
(* The fetchers.                                                            *)

(* syncWithPeer makes a fetcher: a tail at the chain's height or below it   *)
(* is followed for skeletonSubchainMergeMinimum blocks, never to genesis.   *)
Fetching ==
    /\ looping /\ ~Booting /\ lock = Free
    /\ status.subs # <<>> /\ ~status.linked
    /\ First(status).tail > 1
    /\ First(status).tail > Height + 1 \/ MergeMinimum > 0

(* A peer delivers the block the tail asks for. *)
Fetch ==
    /\ Fetching
    /\ PutBlockOf(First(status).next, TRUE)
    /\ UNCHANGED <<fcu, syncer, remote, announced, events, restarts, faults>>

(* A late or wrong answer. *)
FetchOther(b) ==
    /\ Event
    /\ looping /\ ~Booting /\ lock = Free
    /\ status.subs # <<>> /\ b # First(status).next
    /\ PutBlockOf(b, TRUE)
    /\ UNCHANGED <<fcu, syncer, remote, announced, restarts, faults>>

(* The next block of the batch; backfill knows only some. *)
PutMore ==
    /\ lock.by = "put" /\ lock.more # NoBlock
    /\ lock.fills \/ HasBlock(lock.more)
    /\ PutBlockOf(lock.more, lock.fills)
    /\ UNCHANGED <<fcu, syncer, remote, announced, events, restarts, faults>>

------------------------------------------------------------------------------
(* Restarts.                                                                *)

(* The process dies and comes back; what was not written is lost. *)
Restart ==
    /\ Event
    /\ restarts < MaxRestarts /\ restarts' = restarts + 1
    /\ faults' = faults \cup {f \in {"torn"} : lock # Free}
    /\ status' = [subs |-> [i \in DOMAIN disk.subs |-> i], obj |-> disk.subs,
                  linked |-> disk.linked, reset |-> disk.reset]
    /\ lock' = Free
    /\ fill' = NoFill
    /\ fcu' = [pc |-> IF disk.subs = <<>> THEN "start" ELSE "open"]
    /\ running' = FALSE /\ looping' = FALSE
    /\ remote' = {}
    /\ UNCHANGED <<chain, store, disk, announced>>

(* BeaconSynchronizer.open: go on from the head that was saved, or forget.  *)
Open ==
    /\ fcu.pc = "open"
    /\ LET head == GetCanonicalBlock(First(status).head, sk, status.linked) IN
        IF head # NoBlock
        THEN SetHead(head, TRUE, TRUE) /\ UNCHANGED <<chain, fill>>
        ELSE /\ status' = [subs |-> <<>>, obj |-> <<>>, linked |-> FALSE, reset |-> FALSE]
             /\ disk' = Encoded(status')
             /\ fcu' = [pc |-> "start"]
             /\ UNCHANGED <<chain, store, lock, fill, faults>>
    /\ UNCHANGED <<syncer, remote, announced, events, restarts>>

(* open starts the synchroniser, and then the node does so once more. *)
BootStart ==
    /\ fcu.pc \in {"init", "start"} /\ lock = Free
    /\ fcu' = IF fcu.pc = "init" THEN [pc |-> "start"] ELSE NoFcu
    /\ IF running THEN UNCHANGED <<fill, syncer>> ELSE Start
    /\ UNCHANGED <<chain, store, status, disk, lock, remote, announced, events, restarts, faults>>

Next ==
    \/ \E b \in Heads : NewPayload(b) \/ NewForkchoice(b)
    \/ \E b \in Blocks : FetchOther(b)
    \/ SameForkchoice
    \/ FcuStep
    \/ Fetch
    \/ PutMore
    \/ WriteSyncStatus
    \/ FillStep
    \/ LoopEnds
    \/ Restart
    \/ Open
    \/ BootStart

(* The event loop comes back to every pending call, a peer answers a        *)
(* fetcher sooner or later, while there is one, and the consensus client    *)
(* repeats its head.                                                        *)
Spec ==
    /\ Init
    /\ [][Next]_vars
    /\ SF_vars(FillStep)
    /\ SF_vars(FcuStep)
    /\ WF_vars(WriteSyncStatus \/ Open \/ BootStart)
    /\ SF_vars(Fetch)
    /\ SF_vars(SameForkchoice)

------------------------------------------------------------------------------
(* Properties.                                                              *)

(* The blocks of the first subchain, from its tail to its head, are a chain *)
(* that the skeleton or the chain's database still has, and its next is the *)
(* parent of its tail: whatever setHead, putBlocks, merges, back steps and  *)
(* deletions did to it. There are three exceptions: the status and the      *)
(* blocks parted in a crash ("torn"); a fill cleared the flag that setHead  *)
(* had set for a newer subchain ("flag"); setHead put its head on a block   *)
(* above the first subchain's head, left by an older one and not connected  *)
(* to the first one's blocks ("stale", skeleton.ts:474).                    *)
Backed ==
    faults = {} /\ status.subs # <<>> =>
        LET c == First(status) IN
        \E h \in Blocks :
            /\ Number[h] = c.head
            /\ \A n \in c.tail .. c.head :
                    Path[h][n] \in known \/ (n \in DOMAIN sk /\ sk[n] = Path[h][n])
            /\ c.next = ParentHash(Path[h][c.tail])

(* fillCanonicalChain never throws, neither on a tail above the chain nor   *)
(* from resetCanonicalHead: filling would stay true, and no fill would ever *)
(* run again. The one other way to throw is a start on a status that was    *)
(* saved as linked when a back step gave the subchains up (NoSubchain): it  *)
(* takes a cleared flag and then a restart before the next forkchoice.      *)
FillNotStuck == fill.pc # "thrown"

(* deleteBlock drops a block by its hash only when the chain has it, so     *)
(* that the backfill of a forkchoice goes on finding it.                    *)
NothingLost ==
    [][\A b \in byHash : b \in byHash' \cup known]_vars

(* The canonical chain comes to contain the head that the consensus client  *)
(* keeps announcing, after reorgs during a fill and restarts during it,     *)
(* unless a fill stepped back when no loop of the synchroniser was left:    *)
(* then nothing is fetched until the client announces another branch, and   *)
(* the repeated head does not start the synchroniser. A crash that tore the *)
(* status from the blocks, and a cleared flag, are left out as in Backed; a *)
(* stale parent is made up for.                                             *)
Filled == <>[](faults \cap {"torn", "flag"} # {} \/ Stranded \/ IsAncestor(announced, tip))

(* A block that cannot be filled makes the fill "back step and fetch again" *)
(* (skeleton.ts:1318), and a skeleton that lost its link is fetched anew    *)
(* until it is linked, if the status and the blocks did not part before.    *)
FetchesAgain ==
    faults = {} /\ status.subs # <<>> /\ ~status.linked ~> faults # {} \/ status.linked

==============================================================================
