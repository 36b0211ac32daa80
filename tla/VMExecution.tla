----------------------------- MODULE VMExecution -----------------------------
(***************************************************************************)
(* VMExecution (execution-client/src/execution/vmexecution.ts) on top of   *)
(* the block store: run() executes canonical blocks from the iterator,     *)
(* runWithoutSetHead() executes a block ahead of the chain, setHead() puts *)
(* executed blocks and moves the vm head, stop() ends it all.              *)
(*                                                                         *)
(* The four take turns under a lock that hands over first come, first      *)
(* served, while the sync service keeps putting and resetting blocks under *)
(* the store's own lock only.  At most one call of each is pending.        *)
(***************************************************************************)
EXTENDS Blockchain, Sequences

CONSTANTS
    Faulty,     \* blocks whose execution does not give what the header says
    SkipLower,  \* the syncer skips blocks below the known height (skeleton)
    MaxEvents   \* bound: how many calls, puts, resets and restarts come in

ASSUME VMExecutionAssumption ==
    /\ "vm" \in Names
    /\ Faulty \subseteq Blocks \ {Genesis}
    /\ SkipLower \in BOOLEAN
    /\ MaxEvents \in Nat

VARIABLES
    started,    \* this.started
    queue,      \* this._lock: the holder and those waiting, in order
    run, exec, set, stop,  \* the pending call of each method
    status,     \* this.chainStatus
    states,     \* blocks whose state root the state manager has
    height,     \* chain.headers.height, as of the last chain.update()
    updating,   \* the sync service has not come to its chain.update() yet
    events      \* how many events came in

execVars == <<started, queue, run, exec, set, stop, status, states, height,
             updating, events>>

outside == <<updating, events>>

allVars == <<vars, execVars>>

NoCall == [at |-> "idle"]

NoRun == [at |-> "idle", batched |-> FALSE, start |-> Genesis,
          parent |-> NoBlock, count |-> 0]

(* count is numExecuted; MaxBlocks keeps the loop going.                    *)
Run == [at : {"idle", "queued", "loop", "iterate", "callback", "executed", "after"},
        batched : BOOLEAN, start : Blocks, parent : Blocks \cup {NoBlock},
        count : Nat]

(* ahead is skipBlockchain. *)
Execution == [at : {"queued", "busy", "executed"}, block : Blocks, ahead : BOOLEAN]

VMTypeOK ==
    /\ started \in BOOLEAN
    /\ queue \in Seq({"run", "exec", "set", "stop"})
    /\ run \in Run
    /\ exec \in Execution \cup {NoCall}
    /\ set \in [at : {"queued", "putting", "update", "check", "commit"},
                block : Blocks, next : Nat] \cup {NoCall}
    /\ stop \in {"idle", "queued", "flipped", "closing", "closed"}
    /\ status \in [block : Blocks, valid : BOOLEAN]
    /\ states \subseteq Blocks
    /\ height \in Nat
    /\ updating \in BOOLEAN
    /\ events \in 0 .. MaxEvents

VMInit ==
    /\ Init
    /\ started = TRUE
    /\ queue = <<>>
    /\ run = NoRun
    /\ exec = NoCall
    /\ set = NoCall
    /\ stop = "idle"
    /\ status = [block |-> Genesis, valid |-> TRUE]
    /\ states = {Genesis}
    /\ height = 0
    /\ updating = FALSE
    /\ events = 0

------------------------------------------------------------------------------
Event == events < MaxEvents /\ events' = events + 1

Enqueue(call) == queue' = Append(queue, call)

Holds(call) == queue # <<>> /\ Head(queue) = call

Release == queue' = Tail(queue)

(* this.running: set and cleared by the holder of the lock. *)
Running == run.at \notin {"idle", "queued"} \/ exec.at \in {"busy", "executed"}

(* Mutation: an unset head is not taken for genesis. *)
StatusOfUnset(head) ==
    IF Number[head] > Number[status.block] \/ head = status.block
    THEN status ELSE [block |-> heads["vm"], valid |-> TRUE]

(* checkAndReset: the status follows the vm head unless that went up. *)
StatusAfterReset(head) ==
    IF \/ Number[head] > Number[status.block]
       \/ head = status.block
    THEN status ELSE [block |-> head, valid |-> TRUE]

VmHead == HeadOf("vm")

------------------------------------------------------------------------------
(* The sync service: putBlocks or resetCanonicalHead, then chain.update().  *)

(* fillCanonicalChain skips blocks below the height it knows. *)
Skips(b) == SkipLower /\ Number[b] < height

SyncPut(b) ==
    /\ Event
    /\ ~updating /\ ~Skips(b)
    /\ PutBlock(b)
    /\ updating' = TRUE
    /\ UNCHANGED <<started, queue, run, exec, set, stop, status, states, height>>

SyncReset(n) ==
    /\ Event
    /\ ~updating
    /\ ResetCanonicalHead(n)
    /\ updating' = TRUE
    /\ UNCHANGED <<started, queue, run, exec, set, stop, status, states, height>>

SyncUpdate ==
    /\ updating
    /\ updating' = FALSE
    /\ height' = Number[headBlock]
    /\ UNCHANGED <<vars, started, queue, run, exec, set, stop, status, states, events>>

------------------------------------------------------------------------------
(* run.                                                                     *)

RunCall(batched) ==
    /\ Event
    /\ ~Running /\ started
    /\ run.at = "idle"
    /\ run' = [NoRun EXCEPT !.at = "queued", !.batched = batched]
    /\ Enqueue("run")
    /\ UNCHANGED <<vars, started, exec, set, stop, status, states, height, updating>>

RunBegin ==
    /\ run.at = "queued" /\ Holds("run")
    /\ run' = [run EXCEPT !.at = "loop", !.start = VmHead]
    /\ status' = StatusAfterReset(VmHead)
    /\ UNCHANGED <<vars, started, queue, exec, set, stop, states, height, outside>>

(* The condition of the while loop; a first pass has count MaxBlocks.       *)
RunContinues(first) ==
    /\ started
    /\ run.batched => Number[headBlock] >= Number[run.start] + MaxBlocks
    /\ first \/ run.count = MaxBlocks
    /\ run.start # headBlock

RunIterate ==
    /\ run.at = "loop" \/ run.at = "after"
    /\ RunContinues(run.at = "loop")
    /\ run' = [run EXCEPT !.at = "iterate", !.parent = NoBlock]
    /\ UNCHANGED <<vars, started, queue, exec, set, stop, status, states, height, outside>>

RunReturn ==
    /\ run.at = "loop" \/ run.at = "after"
    /\ ~RunContinues(run.at = "loop")
    /\ run' = NoRun
    /\ Release
    /\ UNCHANGED <<vars, started, exec, set, stop, status, states, height, outside>>

(* Where run is once the iterator has moved: in its next callback, or with  *)
(* the iterator's result, after rereading the head and the height.          *)
AfterIterator(ran) ==
    IF it'["vm"] = Idle
    THEN /\ run' = [run EXCEPT !.at = "after", !.start = VmHead', !.count = ran]
         /\ height' = IF ran > 0 THEN Number[headBlock] ELSE height
    ELSE /\ run' = [run EXCEPT !.at = "callback"]
         /\ UNCHANGED height

RunIteratorStart ==
    /\ run.at = "iterate"
    /\ IteratorStart("vm")
    /\ AfterIterator(0)
    /\ UNCHANGED <<started, queue, exec, set, stop, status, states, outside>>

(* The state a block is executed on: the header's parent at the start of a  *)
(* run and after a reorg, else the block executed before.                   *)
StateBefore(call, parent) ==
    IF parent = NoBlock \/ call.reorg THEN Parent(call.blk) ELSE parent

(* runBlock: sets the state root, executes, compares with the header.       *)
Executes(b, root) == root \in states /\ root = Parent(b) /\ b \notin Faulty

(* A block that fails on its parent's state was committed before its header *)
(* was compared: its state root may be there if it is not what differed.    *)
StatesAfterFailure(b, root) ==
    {states} \cup
        IF root \in states /\ root = Parent(b) THEN {states \cup {b}} ELSE {}

RunExecute ==
    /\ run.at = "callback"
    /\ LET call == it["vm"] IN
        /\ Executes(call.blk, StateBefore(call, run.parent))
        /\ states' = states \cup {call.blk}
        /\ run' = [run EXCEPT !.at = "executed", !.parent = call.blk]
    /\ UNCHANGED <<vars, started, queue, exec, set, stop, status, height, outside>>

RunNextBlock ==
    /\ run.at = "executed"
    /\ IteratorAdvance("vm") \/ IteratorReorged("vm")
    /\ AfterIterator(it["vm"].ran + 1)
    /\ UNCHANGED <<started, queue, exec, set, stop, status, states, outside>>

(* Mutation: a failed batch counts as a full one. *)
CountOfFailed(b) == MaxBlocks

(* What the failure handler returns as the number of executed blocks. *)
CountUpTo(b) ==
    IF Number[b] >= Number[run.start] THEN Number[b] - Number[run.start] ELSE 0

(* The catch handler: the block is marked invalid, except above number 1    *)
(* when its parent state is missing.  That branch steps the vm head back    *)
(* only if it has the very state whose absence was the error: never.        *)
RunFail ==
    /\ run.at = "callback"
    /\ LET call == it["vm"]
           root == StateBefore(call, run.parent)
       IN  /\ ~Executes(call.blk, root)
           /\ IteratorThrow("vm")
           /\ states' \in StatesAfterFailure(call.blk, root)
           /\ status' = IF root \notin states /\ Number[call.blk] > 1
                        THEN status ELSE [block |-> call.blk, valid |-> FALSE]
           /\ LET count == CountUpTo(call.blk) IN
              /\ run' = [run EXCEPT !.at = "after", !.start = VmHead, !.count = count]
              /\ height' = IF count > 0 THEN Number[headBlock] ELSE height
    /\ UNCHANGED <<started, queue, exec, set, stop, outside>>

RunStep ==
    \/ RunBegin \/ RunIterate \/ RunReturn \/ RunIteratorStart
    \/ RunExecute \/ RunNextBlock \/ RunFail

------------------------------------------------------------------------------
(* runWithoutSetHead, as newPayload calls it: with the parent's state root. *)

ExecCall(b) ==
    /\ Event
    /\ ~Running /\ started
    /\ exec.at = "idle" /\ b # Genesis
    /\ exec' = [at |-> "queued", block |-> b, ahead |-> FALSE]
    /\ Enqueue("exec")
    /\ UNCHANGED <<vars, started, run, set, stop, status, states, height, updating>>

ExecBegin ==
    /\ exec.at = "queued" /\ Holds("exec")
    /\ exec' = [exec EXCEPT !.at = "busy"]
    /\ status' = StatusAfterReset(VmHead)
    /\ UNCHANGED <<vars, started, queue, run, set, stop, states, height, outside>>

(* A block too far above the chain is executed without its header being     *)
(* validated, and is not stored: that is settled before it is executed.     *)
TooFarAhead(b) == height + 1 < Number[b]

HeaderAccepted(b) == TooFarAhead(b) \/ Parent(b) \in Stored

ExecOk(b) == HeaderAccepted(b) /\ Executes(b, Parent(b))

ExecRun ==
    /\ exec.at = "busy"
    /\ ExecOk(exec.block)
    /\ states' = states \cup {exec.block}
    /\ exec' = [exec EXCEPT !.at = "executed", !.ahead = TooFarAhead(exec.block)]
    /\ UNCHANGED <<vars, started, queue, run, set, stop, status, height, outside>>

(* Mutation: the lock is not released when execution throws. *)
ExecFailKeepsLock ==
    /\ exec.at = "busy"
    /\ ~ExecOk(exec.block)
    /\ exec' = NoCall
    /\ UNCHANGED <<vars, started, queue, run, set, stop, status, states,
                   height, outside>>

ExecFail ==
    /\ exec.at = "busy"
    /\ ~ExecOk(exec.block)
    /\ states' \in IF HeaderAccepted(exec.block)
                   THEN StatesAfterFailure(exec.block, Parent(exec.block))
                   ELSE {states}
    /\ exec' = NoCall
    /\ Release
    /\ UNCHANGED <<vars, started, run, set, stop, status, height, outside>>

(* The block goes to the database directly, past the store and its lock.    *)
ExecReturn ==
    /\ exec.at = "executed"
    /\ IF exec.ahead THEN UNCHANGED <<td, bodies>> ELSE Store(exec.block, TRUE)
    /\ exec' = NoCall
    /\ Release
    /\ UNCHANGED <<index, heads, headHeader, headBlock, disk, deletedBlocks,
                   emitted, it, started, run, set, stop, status, states,
                   height, outside>>

ExecStep == ExecBegin \/ ExecRun \/ ExecFail \/ ExecReturn

------------------------------------------------------------------------------
(* setHead, as forkchoiceUpdated calls it.                                  *)

(* putBlock does not throw. *)
CanPut(b) ==
    /\ Accepted(b, TRUE)
    /\ BecomesCanonical(b) =>
        HasCommonAncestor(b) /\ CanDelete(Number[b] + 1)

(* The number of the first block forkchoiceUpdated passes: b alone unless   *)
(* it is above the chain; else everything from the vm head up, or from      *)
(* genesis if the vm head is not an ancestor.  The walk starts at b's       *)
(* parent and cannot start at genesis.                                      *)
FirstToPut(b) ==
    IF height >= Number[b] \/ Parent(b) = VmHead THEN Number[b]
    ELSE IF IsAncestor(VmHead, b) THEN Number[VmHead]
    ELSE 0

SetCall(b) ==
    /\ Event
    /\ started
    /\ set.at = "idle"
    /\ Number[b] = 1 => FirstToPut(b) = 1
    /\ \A n \in FirstToPut(b) .. Number[b] - 1 : Path[b][n] \in bodies
    /\ set' = [at |-> "queued", block |-> b, next |-> FirstToPut(b)]
    /\ Enqueue("set")
    /\ UNCHANGED <<vars, started, run, exec, stop, status, states, height, updating>>

(* Mutation: whether the new head was executed is not asked. *)
SetBeginUnchecked ==
    /\ set.at = "queued" /\ Holds("set")
    /\ set' = [set EXCEPT !.at = "putting"]
    /\ UNCHANGED <<vars, started, queue, run, exec, stop, status, states, height, outside>>

(* It is checked that the new head was executed. *)
SetBegin ==
    /\ set.at = "queued" /\ Holds("set")
    /\ set.block \in states
    /\ set' = [set EXCEPT !.at = "putting"]
    /\ UNCHANGED <<vars, started, queue, run, exec, stop, status, states, height, outside>>

(* putBlocks: one block, then chain.update(), until the last. *)
NextToPut == Path[set.block][set.next]

SetPut ==
    /\ set.at = "putting"
    /\ IF NextToPut = Genesis THEN PutGenesis ELSE PutBlock(NextToPut)
    /\ set' = [set EXCEPT !.at = "update"]
    /\ UNCHANGED <<started, queue, run, exec, stop, status, states, height, outside>>

SetUpdate ==
    /\ set.at = "update"
    /\ height' = Number[headBlock]
    /\ set' = IF set.next = Number[set.block]
              THEN [set EXCEPT !.at = "check"]
              ELSE [set EXCEPT !.at = "putting", !.next = set.next + 1]
    /\ UNCHANGED <<vars, started, queue, run, exec, stop, status, states, outside>>

SetCheck ==
    /\ set.at = "check"
    /\ OnChain(set.block)
    /\ status' = StatusAfterReset(VmHead)
    /\ set' = [set EXCEPT !.at = "commit"]
    /\ UNCHANGED <<vars, started, queue, run, exec, stop, states, height, outside>>

SetCommit ==
    /\ set.at = "commit"
    /\ SetIteratorHead("vm", set.block)
    /\ status' = [block |-> set.block, valid |-> TRUE]
    /\ height' = Number[headBlock]
    /\ set' = NoCall
    /\ Release
    /\ UNCHANGED <<started, run, exec, stop, states, outside>>

(* Not executed, rejected by the store, or no longer canonical: it throws.  *)
SetThrow ==
    /\ \/ set.at = "queued" /\ Holds("set") /\ set.block \notin states
       \/ set.at = "putting" /\ NextToPut # Genesis /\ ~CanPut(NextToPut)
       \/ set.at = "check" /\ ~OnChain(set.block)
    /\ set' = NoCall
    /\ Release
    /\ UNCHANGED <<vars, started, run, exec, stop, status, states, height, outside>>

SetStep == SetBegin \/ SetPut \/ SetUpdate \/ SetCheck \/ SetCommit \/ SetThrow

------------------------------------------------------------------------------
(* stop.                                                                    *)

StopCall ==
    /\ Event
    /\ stop = "idle"
    /\ stop' = "queued"
    /\ Enqueue("stop")
    /\ UNCHANGED <<vars, started, run, exec, set, status, states, height, updating>>

StopFlip ==
    /\ stop = "queued" /\ Holds("stop")
    /\ started' = FALSE
    /\ stop' = "flipped"
    /\ Release
    /\ UNCHANGED <<vars, run, exec, set, status, states, height, outside>>

(* Mutation: the database is closed without taking the lock again. *)
StopWithoutLock ==
    /\ stop = "flipped"
    /\ stop' = "closed"
    /\ UNCHANGED <<vars, started, queue, run, exec, set, status, states, height, outside>>

(* vmPromise is awaited outside the lock, then the lock taken again. *)
StopAwait ==
    /\ stop = "flipped"
    /\ run.at \notin {"iterate", "callback", "executed"}
    /\ stop' = "closing"
    /\ Enqueue("stop")
    /\ UNCHANGED <<vars, started, run, exec, set, status, states, height, outside>>

StopClose ==
    /\ stop = "closing" /\ Holds("stop")
    /\ stop' = "closed"
    /\ Release
    /\ UNCHANGED <<vars, started, run, exec, set, status, states, height, outside>>

StopStep == StopFlip \/ StopAwait \/ StopClose

------------------------------------------------------------------------------
(* The process dies and is opened again: the database and the states stay.  *)
VMRestart ==
    /\ Event
    /\ Restart
    /\ started' = TRUE
    /\ queue' = <<>>
    /\ run' = NoRun
    /\ exec' = NoCall
    /\ set' = NoCall
    /\ stop' = "idle"
    /\ status' = [block |-> VmHead', valid |-> TRUE]
    /\ height' = Number[headBlock']
    /\ updating' = FALSE
    /\ UNCHANGED states

VMNext ==
    \/ \E b \in Blocks : SyncPut(b) \/ ExecCall(b) \/ SetCall(b)
    \/ \E n \in ResetTargets : SyncReset(n)
    \/ \E batched \in BOOLEAN : RunCall(batched)
    \/ StopCall
    \/ VMRestart
    \/ SyncUpdate
    \/ RunStep
    \/ ExecStep
    \/ SetStep
    \/ StopStep

(* The event loop comes back to every call whose promise has resolved; it   *)
(* owes no call from outside.                                               *)
VMFairness ==
    /\ WF_allVars(RunStep)
    /\ WF_allVars(ExecStep)
    /\ WF_allVars(SetStep)
    /\ WF_allVars(StopStep)

VMSpec == VMInit /\ [][VMNext]_allVars /\ VMFairness

------------------------------------------------------------------------------
(* Properties.                                                              *)

(* The vm head is the last executed block: the node has its state, in       *)
(* memory and as a restart would load it, whatever was put, reset or        *)
(* reorganised while it was executed. A vm head without a state can never   *)
(* be executed on again.                                                    *)
VmHeadExecuted ==
    /\ VmHead \in states
    /\ disk.heads["vm"] # NoBlock => disk.heads["vm"] \in states

(* Nothing is executed and the head is not moved by an execution once stop  *)
(* closed the state database, though calls made before it flipped started   *)
(* are still served.                                                        *)
ClosedIsQuiet ==
    [][stop = "closed" /\ stop' = "closed" => UNCHANGED <<states, status, queue>>]_allVars

(* Every run returns, once no more events come in: no call waits for        *)
(* another in a circle, and no failing block is tried for ever. That takes  *)
(* a batch of more than one block: with numBlocksPerIteration = 1, which    *)
(* nothing forbids, a failing block counts as a full batch (CountUpTo), and *)
(* the loop tries it again without end (vmexecution.ts:612, 860).           *)
RunReturns == MaxBlocks > 1 => (run.at # "idle" ~> run.at = "idle")

(* Every stop gets to close the state database, under the same condition:   *)
(* it waits for the lock that a looping run holds.                          *)
StopCloses == MaxBlocks > 1 => (stop = "queued" ~> stop \in {"closed", "idle"})

(* The chain status says whether execution of the canonical chain ran into  *)
(* an invalid block: a block it reports is one that fails on its parent.    *)
OnlyFaultyInvalid == ~status.valid => status.block \in Faulty

==============================================================================
