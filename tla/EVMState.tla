------------------------------ MODULE EVMState ------------------------------
(***************************************************************************)
(* The execution of blocks over the state: runBlock, runTx and runCall     *)
(* with the checkpoints they open and close in the state manager, the      *)
(* journal and the transient storage, and what the code of a contract can  *)
(* do to the state in between.                                             *)
(*                                                                         *)
(* Gas, nonces and amounts are left out: a transfer has a value or not, a  *)
(* contract does whatever it likes.  The sender's account, which exists    *)
(* throughout, is not among the addresses.                                 *)
(***************************************************************************)
EXTENDS StateManager, FiniteSets

CONSTANTS
    Genesis,      \* the accounts of the genesis state
    Creatable,    \* the addresses a creation may come to
    Miner,        \* the coinbase
    Withdrawers,  \* the addresses withdrawals go to
    Ripemd,
    EIP6780,      \* SELFDESTRUCT deletes only what the transaction created
    MaxDepth,     \* bounds: calls within a call,
    MaxOps,       \* and in all messages and operations,
    MaxTxs,       \* transactions
    MaxBlocks,    \* and blocks,
    MaxSteps      \* and of these three together

ASSUME EVMAssumption ==
    /\ Genesis \in [Address -> Stored]
    /\ Creatable \subseteq Address
    /\ Miner \in Address
    /\ Withdrawers \subseteq Address
    /\ EIP6780 \in BOOLEAN
    /\ {MaxDepth, MaxOps, MaxTxs, MaxBlocks, MaxSteps} \subseteq Nat

VARIABLES
    journalHeight, journalDiff, touched, warm, warmSlots,
    transient, changeJournal, indices,
    originals,   \* OriginalStorageCache.map
    frames,      \* the messages being run, the outermost first
    pc,          \* where the execution is
    ret,         \* where it goes after journal.cleanup
    todo,        \* the addresses a loop still has to go over
    ops, txs, blocks

J == INSTANCE Journal
T == INSTANCE TransientStorage

journalVars == <<journalHeight, journalDiff, touched, warm, warmSlots>>
transientVars == <<transient, changeJournal, indices>>
countVars == <<ops, txs, blocks>>
evmVars == <<journalVars, transientVars, originals>>
controlVars == <<frames, pc, ret, todo, countVars>>
vars == <<stateVars, evmVars, controlVars>>

-----------------------------------------------------------------------------

Frame == frames[Len(frames)]
Self == Frame.to
Outermost == Len(frames) = 1

(* getAccount, with a new account for one that does not exist. *)
AccountOrNew(a) ==
    IF Current(a) = NoAccount THEN [data |-> "empty", storageRoot |-> EmptyTrie]
                              ELSE Current(a)

Paid(a, value) ==
    [AccountOrNew(a) EXCEPT !.data = IF value > 0 /\ @ = "empty" THEN "funded" ELSE @]

IsEmpty(a) == Current(a) = NoAccount \/ AccountOrNew(a).data = "empty"

Init ==
    /\ StateInit /\ trie = Genesis
    /\ J!Init /\ T!Init
    /\ originals = NoSlots
    /\ frames = <<>> /\ pc = "idle" /\ ret = "idle" /\ todo = {}
    /\ ops = 0 /\ txs = 0 /\ blocks = 0

Goto(label) == pc' = label

(* A bound: another message, operation, transaction or block may begin. *)
MayBegin == ops + txs + blocks < MaxSteps

-----------------------------------------------------------------------------
(* runBlock. *)

(* The block gets an EVM of its own.  The root is the parent's, or, after  *)
(* a reorg, the one of another block.                                      *)
RunBlock ==
    /\ pc = "idle" /\ blocks < MaxBlocks /\ MayBegin
    /\ \E root \in {trie, Genesis}, clearCache \in BOOLEAN :
           StateSetRoot(root, clearCache)
    /\ J!CleanJournal /\ T!Fresh
    /\ blocks' = blocks + 1
    /\ Goto("rooted")
    /\ UNCHANGED <<originals, frames, ret, todo, ops, txs>>

BlockCheckpoint ==
    /\ pc = "rooted"
    /\ StateCheckpoint /\ J!Checkpoint
    /\ Goto("block")
    /\ UNCHANGED <<transientVars, originals, frames, ret, todo, countVars>>

(* A withdrawal; journal.cleanup follows. *)
Reward(a, value) ==
    /\ pc = "block"
    /\ StatePut(a, Paid(a, value))
    /\ J!Record({a}, {}, {})
    /\ Goto("cleanup") /\ ret' = "rewarded" /\ todo' = touched \cup {a}
    /\ UNCHANGED <<transientVars, originals, frames, countVars>>

BlockCommit ==
    /\ pc \in {"block", "rewarded"}
    /\ StateCommit /\ J!Commit
    /\ Goto("flush")
    /\ UNCHANGED <<transientVars, originals, frames, ret, todo, countVars>>

(* applyBlock failed. *)
BlockRevert ==
    /\ pc \in {"block", "rewarded"}
    /\ StateRevert /\ J!Revert
    /\ Goto("flush")
    /\ UNCHANGED <<transientVars, originals, frames, ret, todo, countVars>>

FlushSlots ==
    /\ pc = "flush"
    /\ \E a \in Address : FlushStorage(a)
    /\ UNCHANGED <<evmVars, controlVars>>

FlushEnd ==
    /\ pc = "flush"
    /\ FlushAccounts
    /\ originals' = NoSlots
    /\ Goto("idle")
    /\ UNCHANGED <<journalVars, transientVars, frames, ret, todo, countVars>>

-----------------------------------------------------------------------------
(* runTx. *)

RunTx ==
    /\ pc = "block" /\ txs < MaxTxs /\ MayBegin
    /\ txs' = txs + 1
    /\ Goto("cleanup") /\ ret' = "tx" /\ todo' = touched
    /\ UNCHANGED <<stateVars, evmVars, frames, ops, blocks>>

TxCheckpoint ==
    /\ pc = "tx"
    /\ StateCheckpoint /\ J!Checkpoint
    /\ Goto("message")
    /\ UNCHANGED <<transientVars, originals, frames, ret, todo, countVars>>

(* The transaction is not valid: revert, and then cleanJournal. *)
TxFail ==
    /\ pc = "message"
    /\ StateRevert /\ J!CleanJournal
    /\ originals' = NoSlots
    /\ Goto("block")
    /\ UNCHANGED <<transientVars, frames, ret, todo, countVars>>

PayMiner(value) ==
    /\ pc = "miner"
    /\ StatePut(Miner, Paid(Miner, value))
    /\ J!Record({Miner}, {}, {})
    /\ Goto("destroy")
    /\ UNCHANGED <<transientVars, originals, frames, ret, todo, countVars>>

(* The accounts that destroyed themselves. *)
Destroy ==
    /\ pc = "destroy" /\ todo # {}
    /\ LET a == CHOOSE x \in todo : TRUE
       IN  /\ StateDelete(a)
           /\ J!Record({a}, {}, {})
           /\ todo' = todo \ {a}
    /\ UNCHANGED <<transientVars, originals, frames, pc, ret, countVars>>

DestroyEnd ==
    /\ pc = "destroy" /\ todo = {}
    /\ Goto("cleanup") /\ ret' = "commit" /\ todo' = touched
    /\ UNCHANGED <<stateVars, evmVars, frames, countVars>>

(* journal.cleanup, and with it the end of a transaction. *)
Cleanup ==
    /\ pc = "cleanup" /\ todo # {}
    /\ LET a == CHOOSE x \in todo : TRUE
       IN  /\ \/ IsEmpty(a) /\ StateDelete(a)
              \/ ~ IsEmpty(a) /\ GetAccount(a) /\ UNCHANGED storageVars
           /\ todo' = todo \ {a}
    /\ UNCHANGED <<evmVars, frames, pc, ret, countVars>>

CleanupEnd ==
    /\ pc = "cleanup" /\ todo = {}
    /\ J!CleanJournal
    /\ originals' = IF ret = "commit" THEN NoSlots ELSE originals
    /\ Goto(ret)
    /\ UNCHANGED <<stateVars, transientVars, frames, ret, todo, countVars>>

(* commit, and then cleanJournal. *)
TxCommit ==
    /\ pc = "commit"
    /\ StateCommit /\ J!CleanJournal
    /\ originals' = NoSlots
    /\ Goto("block")
    /\ UNCHANGED <<transientVars, frames, ret, todo, countVars>>

-----------------------------------------------------------------------------
(* runCall. *)

(* The sets a message starts with are copies of its caller's. *)
Message(to, kind) ==
    /\ ops < MaxOps /\ MayBegin /\ ops' = ops + 1
    /\ kind = "create" => to \in Creatable
    /\ \/ /\ pc = "message"
          /\ frames' = <<[to |-> to, kind |-> kind, destructed |-> {}, created |-> {}]>>
          /\ J!Record({}, IF kind = "create" THEN {to} ELSE {}, {})
          /\ UNCHANGED stateVars
       \/ /\ pc = "run" /\ Len(frames) <= MaxDepth
          /\ frames' = Append(frames, [Frame EXCEPT !.to = to, !.kind = kind])
          /\ J!Record({}, {to}, {})
          /\ IF kind = "create" THEN StatePut(Self, Current(Self))
                                ELSE UNCHANGED stateVars
    /\ Goto("new")
    /\ UNCHANGED <<transientVars, originals, ret, todo, txs, blocks>>

Enter ==
    /\ pc = "new"
    /\ StateCheckpoint /\ J!Checkpoint /\ T!Checkpoint
    /\ Goto("start")
    /\ UNCHANGED <<originals, frames, ret, todo, countVars>>

(* Code runs, without code the call is over; a precompile may fail, and so  *)
(* may a value that overflows the balance.                                  *)
CallGoesTo(a) == {IF AccountOrNew(a).data = "contract" THEN "run" ELSE "halt", "fail"}

(* Mutation: the account that is called is not touched. *)
CallUntouched(value) ==
    /\ pc = "start" /\ Frame.kind = "call"
    /\ StatePut(Self, Paid(Self, value))
    /\ J!Record({}, {}, {})
    /\ \E label \in CallGoesTo(Self) : Goto(label)
    /\ UNCHANGED <<transientVars, originals, frames, ret, todo, countVars>>

ExecuteCall(value) ==
    /\ pc = "start" /\ Frame.kind = "call"
    /\ StatePut(Self, Paid(Self, value))
    /\ J!Record({Self}, {}, {})
    /\ \E label \in CallGoesTo(Self) : Goto(label)
    /\ UNCHANGED <<transientVars, originals, frames, ret, todo, countVars>>

Collides(a) ==
    AccountOrNew(a).data = "contract" \/ AccountOrNew(a).storageRoot # EmptyTrie

ExecuteCreate ==
    /\ pc = "start" /\ Frame.kind = "create"
    /\ frames' = [frames EXCEPT ![Len(frames)].created = @ \cup {Self}]
    /\ \/ /\ Collides(Self)
          /\ GetAccount(Self) /\ UNCHANGED <<storageVars, journalVars>>
          /\ Goto("fail")
       \/ /\ ~ Collides(Self)
          /\ StateCreate(Self)
          /\ J!Record({Self}, {}, {})
          /\ Goto("run")
    /\ UNCHANGED <<transientVars, originals, ret, todo, countVars>>

(* The interpreter is done; at depth 0 the transient storage is cleared. *)
Stop(ok) ==
    /\ \/ pc = "run"
       \/ pc = "stop" /\ ok
    /\ IF Outermost THEN T!Clear ELSE UNCHANGED transientVars
    /\ Goto(IF ok THEN "halt" ELSE "fail")
    /\ UNCHANGED <<stateVars, journalVars, originals, frames, ret, todo, countVars>>

(* What a transaction deletes. *)
Doomed == IF EIP6780 THEN Frame.destructed \cap Frame.created ELSE Frame.destructed

(* Without its last message, whose sets its caller takes over or not. *)
Popped(keep) ==
    [i \in 1..(Len(frames) - 1) |->
        IF keep /\ i = Len(frames) - 1
        THEN [frames[i] EXCEPT !.destructed = Frame.destructed, !.created = Frame.created]
        ELSE frames[i]]

Return ==
    /\ pc = "halt"
    /\ StateCommit /\ J!Commit /\ T!Commit
    /\ frames' = Popped(TRUE)
    /\ todo' = IF Outermost THEN Doomed ELSE {}
    /\ Goto(IF Outermost THEN "miner" ELSE "run")
    /\ UNCHANGED <<originals, ret, countVars>>

(* Mutation: a call that fails does not close its checkpoint in the state. *)
ThrowUnreverted ==
    /\ pc = "fail"
    /\ UNCHANGED stateVars /\ J!Revert /\ T!Revert
    /\ frames' = Popped(FALSE)
    /\ Goto(IF Outermost THEN "miner" ELSE "run")
    /\ UNCHANGED <<originals, ret, todo, countVars>>

Throw ==
    /\ pc = "fail"
    /\ StateRevert /\ J!Revert /\ T!Revert
    /\ frames' = Popped(FALSE)
    /\ Goto(IF Outermost THEN "miner" ELSE "run")
    /\ UNCHANGED <<originals, ret, todo, countVars>>

-----------------------------------------------------------------------------
(* What the code of a contract does. *)

Operation ==
    /\ pc = "run"
    /\ ops < MaxOps /\ MayBegin /\ ops' = ops + 1
    /\ UNCHANGED <<ret, todo, txs, blocks>>

SLoad(k) ==
    /\ Operation
    /\ GetStorage(Self, k)
    /\ J!Record({}, {}, {<<Self, k>>})
    /\ UNCHANGED <<transientVars, originals, frames, pc>>

(* Mutation: every SSTORE takes what it finds for the original value. *)
SStoreAnew(k, v) ==
    /\ Operation
    /\ PutStorage(Self, k, v)
    /\ J!Record({}, {}, {<<Self, k>>})
    /\ originals' = [originals EXCEPT ![<<Self, k>>] = StorageOf(Self, k)]
    /\ UNCHANGED <<transientVars, frames, pc>>

(* The gas of SSTORE depends on the original value, which is kept. *)
SStore(k, v) ==
    /\ Operation
    /\ PutStorage(Self, k, v)
    /\ J!Record({}, {}, {<<Self, k>>})
    /\ originals' = [originals EXCEPT ![<<Self, k>>] =
                        IF @ = NotCached THEN StorageOf(Self, k) ELSE @]
    /\ UNCHANGED <<transientVars, frames, pc>>

TStore(k, v) ==
    /\ Operation
    /\ T!Put(Self, k, v)
    /\ UNCHANGED <<stateVars, journalVars, originals, frames, pc>>

(* The beneficiary gets the balance, if there is one. *)
SelfDestruct(to, value) ==
    /\ Operation
    /\ frames' = [frames EXCEPT ![Len(frames)].destructed = @ \cup {Self}]
    /\ IF to = Self THEN UNCHANGED stateVars ELSE StatePut(to, Paid(to, value))
    /\ J!Record({to} \ {Self}, {to}, {})
    /\ Goto("stop")
    /\ UNCHANGED <<transientVars, originals>>

Next ==
    \/ RunBlock \/ BlockCheckpoint \/ BlockCommit \/ BlockRevert
    \/ FlushSlots \/ FlushEnd
    \/ RunTx \/ TxCheckpoint \/ TxFail
    \/ Destroy \/ DestroyEnd \/ Cleanup \/ CleanupEnd \/ TxCommit
    \/ Enter \/ ExecuteCreate \/ Return \/ Throw
    \/ \E value \in {0, 1} : PayMiner(value) \/ ExecuteCall(value)
    \/ \E a \in Withdrawers, value \in {0, 1} : Reward(a, value)
    \/ \E a \in Address, value \in {0, 1} : SelfDestruct(a, value)
    \/ \E a \in Address, kind \in {"call", "create"} : Message(a, kind)
    \/ \E ok \in BOOLEAN : Stop(ok)
    \/ \E k \in Slot : SLoad(k)
    \/ \E k \in Slot, v \in Value : SStore(k, v) \/ TStore(k, v)

Spec == Init /\ [][Next]_vars

-----------------------------------------------------------------------------
(* Properties. *)

(* The state, the journal and the transient storage have their types, and  *)
(* the checkpoints of the state manager are those of the block, of the     *)
(* transaction and of the messages that are being run.                     *)
TypeOK ==
    /\ StateTypeOK /\ J!TypeOK /\ T!TypeOK
    /\ originals \in [AllSlots -> Value \cup {NotCached}]
    /\ todo \subseteq Address
    /\ CheckpointCount =
           CASE pc \in {"idle", "rooted", "flush"} -> 0
             [] pc = "block" \/ pc = "rewarded" \/ pc = "tx" -> 1
             [] pc = "cleanup" -> IF ret = "commit" THEN 2 ELSE 1
             [] pc = "new" -> 1 + Len(frames)
             [] OTHER -> 2 + Len(frames)

(* A call that fails leaves the touched addresses and the warm addresses   *)
(* and slots as they were when it was made, whatever calls it made and     *)
(* whichever of these returned (Journal).                                  *)
JournalCheckpoints == J!JournalCheckpoints

(* A call that fails leaves the transient slots as they were when it was   *)
(* made, also those its own calls wrote and returned, and a transaction    *)
(* begins without any (TransientStorage).                                  *)
TransientCheckpoints == T!TransientCheckpoints

(* Whatever blocks, transactions, contracts and flushes do, to the         *)
(* accounts in the cache and to the transient storage it comes as the      *)
(* operations of AccountCache and TransientStorage, each where these allow *)
(* it: a revert has its checkpoint, a flush and a clear come when none is  *)
(* left to restore.  So what is proved of the two holds under the EVM.     *)
ComponentSteps == CacheSpec /\ T!Spec

(* The original value of a slot is the one it had when the transaction     *)
(* began, also after calls that wrote it and failed, and also for a        *)
(* contract that this block created or destroyed before.                   *)
OriginalIsTxStart ==
    CheckpointCount > 1 =>
        \A a \in Address, k \in Slot :
            originals[<<a, k>>] \in {NotCached, SavedSlot(2, a, k)}

(* No block leaves an empty account in the state: whatever creates one     *)
(* touches it, and is undone together with the touch.                      *)
NoEmptyAccounts ==
    pc = "idle" => \A a \in Address : trie[a] # NoAccount => trie[a].data # "empty"

(* An account that is not a contract has no storage in the state: what a   *)
(* contract stored goes when the contract is deleted.                      *)
StorageGoneWithAccount ==
    \A a \in Address :
        trie[a] # NoAccount /\ trie[a].data # "contract" =>
            trie[a].storageRoot = EmptyTrie

=============================================================================
