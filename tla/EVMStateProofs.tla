--------------------------- MODULE EVMStateProofs ---------------------------
(***************************************************************************)
(* The EVM drives the transient storage, the accounts and the journal as   *)
(* these allow, so that what is proved of the three holds of every run of  *)
(* blocks, transactions and calls; the state keeps its types, and no block *)
(* leaves an empty account.                                                *)
(***************************************************************************)
EXTENDS EVMState, StateManagerProofs

TP == INSTANCE TransientStorageProofs
JP == INSTANCE JournalProofs

-----------------------------------------------------------------------------
(* The two instances of the transient storage are the same.                *)

(* EVMState and the proofs name the same initial states of the transient   *)
(* storage                                                                 *)
LEMMA SameInit == T!Init <=> TP!Init
BY DEF T!Init, TP!Init, T!NoValues, TP!NoValues, T!AllSlots, TP!AllSlots

(* They name the same steps too. *)
LEMMA SameNext == [T!Next]_(T!transientVars) <=> [TP!Next]_(TP!transientVars)
BY DEF T!Next, TP!Next, T!transientVars, TP!transientVars,
       T!Put, TP!Put, T!Checkpoint, TP!Checkpoint, T!Commit, TP!Commit,
       T!Revert, TP!Revert, T!Clear, TP!Clear, T!Fresh, TP!Fresh,
       T!NoValues, TP!NoValues, T!AllSlots, TP!AllSlots,
       T!Before, TP!Before, T!ValueBefore, TP!ValueBefore,
       T!ChangesOf, TP!ChangesOf, T!Least, TP!Least

-----------------------------------------------------------------------------
(* The inductive invariant. *)

InMessage == {"new", "start", "run", "stop", "halt", "fail"}

Msg == [to : Address, kind : {"call", "create"},
        destructed : SUBSET Address, created : SUBSET Address]

(* A message is being run when there are frames, and every frame that was  *)
(* entered has an index.  The first message of a transaction finds no      *)
(* changes, and between transactions there are none.                       *)
MessagesOK ==
    /\ frames \in Seq(Msg)
    /\ ret \notin InMessage
    /\ pc \in InMessage <=> Len(frames) > 0
    /\ Len(indices) = IF pc = "new" THEN Len(frames) ELSE Len(frames) + 1
    /\ \A i \in 1..Len(indices) : i <= 2 => indices[i] = 0
    /\ Len(frames) <= 1 /\ pc \notin {"run", "stop"} => changeJournal = <<>>

EInv == TP!IInv /\ MessagesOK

(* What the invariant says of the lengths.                                 *)
LEMMA InvFacts ==
    ASSUME EInv
    PROVE  /\ frames \in Seq(Msg) /\ Len(frames) \in Nat
           /\ indices \in Seq(Nat) /\ Len(indices) \in Nat \ {0}
           /\ changeJournal \in Seq(TP!Change) /\ Len(changeJournal) \in Nat
<1>1. /\ indices \in Seq(Nat) /\ Len(indices) \in Nat \ {0}
      /\ changeJournal \in Seq(TP!Change) /\ Len(changeJournal) \in Nat
  BY TP!InvFacts DEF EInv
<1>2. frames \in Seq(Msg)
  BY DEF EInv, MessagesOK
<1>3. Len(frames) \in Nat
  BY <1>2
<1> QED BY <1>1, <1>2, <1>3

(* It holds in the initial state.                                          *)
LEMMA MessagesInit == Init => EInv
<1> SUFFICES ASSUME Init PROVE EInv
  OBVIOUS
<1>1. T!Init
  BY DEF Init
<1>2. TP!IInv
  BY <1>1, SameInit, StateAssumption, TP!InitInv
<1>3. MessagesOK
  BY <1>1 DEF Init, MessagesOK, InMessage, T!Init
<1> QED BY <1>2, <1>3 DEF EInv

(* Between the messages nothing happens to the transient storage.          *)
LEMMA QuietStep ==
    ASSUME EInv, UNCHANGED transientVars, frames' = frames,
           pc \notin InMessage, pc' \notin InMessage, ret' \notin InMessage
    PROVE  MessagesOK'
BY DEF EInv, MessagesOK, InMessage, transientVars

(* Nor does anything but a put when the code of a contract runs, or ends.  *)
LEMMA RunStep ==
    ASSUME EInv, UNCHANGED transientVars,
           frames' \in Seq(Msg), Len(frames') = Len(frames),
           pc \in InMessage \ {"new"}, pc' \in InMessage \ {"new"}, ret' = ret,
           pc \in {"run", "stop"} => pc' \in {"run", "stop"} \/ Len(frames) > 1
    PROVE  MessagesOK'
BY DEF EInv, MessagesOK, InMessage, transientVars

(* The last frame, whatever it becomes.                                    *)
LEMMA FrameFacts ==
    ASSUME EInv, pc \in InMessage
    PROVE  /\ Len(frames) \in Nat /\ Len(frames) > 0 /\ Len(frames) \in 1..Len(frames)
           /\ Frame \in Msg /\ Self \in Address
<1>1. Len(frames) \in Nat /\ Len(frames) > 0 /\ frames \in Seq(Msg)
  BY InvFacts DEF EInv, MessagesOK
<1>2. Len(frames) \in 1..Len(frames)
  BY <1>1
<1>3. frames[Len(frames)] \in Msg
  <2> HIDE DEF Msg
  <2> QED BY <1>1, <1>2, ElementOfSeq
<1> QED BY <1>1, <1>2, <1>3 DEF Frame, Self, Msg

-----------------------------------------------------------------------------
(* The steps. *)

Quiet ==
    \/ BlockCheckpoint \/ BlockCommit \/ BlockRevert
    \/ FlushSlots \/ FlushEnd
    \/ RunTx \/ TxCheckpoint \/ TxFail
    \/ Destroy \/ DestroyEnd \/ Cleanup \/ CleanupEnd \/ TxCommit
    \/ \E value \in {0, 1} : PayMiner(value)
    \/ \E a \in Withdrawers, value \in {0, 1} : Reward(a, value)

(* Blocks and transactions leave the transient storage alone.              *)
LEMMA QuietRefines ==
    ASSUME EInv, Quiet
    PROVE  UNCHANGED transientVars /\ MessagesOK'
<1>1. /\ UNCHANGED transientVars /\ frames' = frames
      /\ pc \notin InMessage /\ pc' \notin InMessage /\ ret' \notin InMessage
  <2> USE DEF Goto, InMessage, evmVars, controlVars, countVars
  <2>1. ret \notin InMessage
    BY DEF EInv, MessagesOK
  <2>2. CASE BlockCheckpoint \/ BlockCommit \/ BlockRevert
    BY <2>1, <2>2 DEF BlockCheckpoint, BlockCommit, BlockRevert
  <2>3. CASE FlushSlots \/ FlushEnd
    BY <2>1, <2>3 DEF FlushSlots, FlushEnd
  <2>4. CASE RunTx \/ TxCheckpoint \/ TxFail \/ TxCommit
    BY <2>1, <2>4 DEF RunTx, TxCheckpoint, TxFail, TxCommit
  <2>5. CASE Destroy \/ DestroyEnd
    BY <2>1, <2>5 DEF Destroy, DestroyEnd
  <2>6. CASE Cleanup \/ CleanupEnd
    BY <2>1, <2>6 DEF Cleanup, CleanupEnd
  <2>7. ASSUME NEW value, PayMiner(value)
        PROVE  /\ UNCHANGED transientVars /\ frames' = frames
               /\ pc \notin InMessage /\ pc' \notin InMessage /\ ret' \notin InMessage
    BY <2>1, <2>7 DEF PayMiner
  <2>8. ASSUME NEW a, NEW value, Reward(a, value)
        PROVE  /\ UNCHANGED transientVars /\ frames' = frames
               /\ pc \notin InMessage /\ pc' \notin InMessage /\ ret' \notin InMessage
    BY <2>1, <2>8 DEF Reward
  <2> QED BY <2>2, <2>3, <2>4, <2>5, <2>6, <2>7, <2>8 DEF Quiet
<1> QED BY <1>1, QuietStep

(* The code of a contract reads and writes storage and destroys itself.    *)
LEMMA CodeRefines ==
    ASSUME EInv,
           \/ \E k \in Slot : SLoad(k)
           \/ \E k \in Slot, v \in Value : SStore(k, v)
           \/ \E to \in Address, value \in {0, 1} : SelfDestruct(to, value)
    PROVE  UNCHANGED transientVars /\ MessagesOK'
<1>1. pc = "run" /\ ret' = ret /\ UNCHANGED transientVars
  BY DEF SLoad, SStore, SelfDestruct, Operation
<1>2. pc \in InMessage
  BY <1>1 DEF InMessage
<1>3. CASE frames' = frames /\ pc' = pc
  BY <1>1, <1>3, InvFacts, RunStep DEF InMessage
<1>4. ASSUME NEW to, NEW value, SelfDestruct(to, value)
      PROVE  MessagesOK'
  <2>1. /\ frames' = [frames EXCEPT ![Len(frames)].destructed = @ \cup {Self}]
        /\ pc' = "stop"
    BY <1>4 DEF SelfDestruct, Goto
  <2> DEFINE f == [Frame EXCEPT !.destructed = @ \cup {Self}]
  <2>2. f \in Msg
    BY <1>2, FrameFacts DEF Msg
  <2>3. frames' = [frames EXCEPT ![Len(frames)] = f]
    BY <2>1 DEF Frame
  <2> HIDE DEF f, Msg
  <2>4. frames' \in Seq(Msg) /\ Len(frames') = Len(frames)
    BY <1>2, <2>2, <2>3, FrameFacts, InvFacts, ExceptSeq
  <2> QED BY <1>1, <2>1, <2>4, RunStep DEF InMessage
<1> QED BY <1>1, <1>3, <1>4 DEF SLoad, SStore

(* A message begins: with a first frame, or one more.                      *)
LEMMA MessageRefines ==
    ASSUME EInv, NEW to \in Address, NEW kind \in {"call", "create"}, Message(to, kind)
    PROVE  UNCHANGED transientVars /\ MessagesOK'
<1>1. UNCHANGED transientVars /\ pc' = "new" /\ ret' = ret
  BY DEF Message, Goto
<1>2. CASE pc = "message" /\ frames' = <<[to |-> to, kind |-> kind,
                                          destructed |-> {}, created |-> {}]>>
  <2>1. frames' \in Seq(Msg) /\ Len(frames') = 1
    BY <1>2 DEF Msg
  <2>2. Len(frames) = 0
    BY <1>2, InvFacts DEF EInv, MessagesOK, InMessage
  <2>3. Len(indices) = 1 /\ changeJournal = <<>>
    BY <1>2, <2>2 DEF EInv, MessagesOK
  <2>4. ret \notin InMessage /\ \A i \in 1..Len(indices) : i <= 2 => indices[i] = 0
    BY DEF EInv, MessagesOK
  <2>5. indices' = indices /\ changeJournal' = <<>>
    BY <1>1, <2>3 DEF transientVars
  <2>6. /\ frames' \in Seq(Msg)
        /\ ret' \notin InMessage
        /\ pc' \in InMessage <=> Len(frames') > 0
        /\ Len(indices') = IF pc' = "new" THEN Len(frames') ELSE Len(frames') + 1
    BY <1>1, <2>1, <2>3, <2>4, <2>5 DEF InMessage
  <2>7. \A i \in 1..Len(indices') : i <= 2 => indices'[i] = 0
    BY <2>4, <2>5
  <2>8. MessagesOK'
    BY <2>5, <2>6, <2>7 DEF MessagesOK
  <2> QED BY <1>1, <2>8
<1>3. CASE pc = "run" /\ frames' = Append(frames, [Frame EXCEPT !.to = to, !.kind = kind])
  <2> DEFINE f == [Frame EXCEPT !.to = to, !.kind = kind]
  <2>1. pc \in InMessage
    BY <1>3 DEF InMessage
  <2>2. f \in Msg
    BY <2>1, FrameFacts DEF Msg
  <2> HIDE DEF f, Msg
  <2>3. frames' = Append(frames, f)
    BY <1>3 DEF f
  <2>4. frames' \in Seq(Msg) /\ Len(frames') = Len(frames) + 1 /\ Len(frames) > 0
    BY <2>1, <2>2, <2>3, InvFacts, FrameFacts
  <2> QED BY <1>1, <1>3, <2>4, InvFacts DEF EInv, MessagesOK, InMessage, transientVars
<1> QED BY <1>2, <1>3 DEF Message

(* Entering it makes the checkpoint: the first one, with no changes yet.   *)
LEMMA EnterRefines ==
    ASSUME EInv, Enter
    PROVE  T!Checkpoint /\ MessagesOK'
<1>1. /\ T!Checkpoint /\ pc = "new" /\ pc' = "start" /\ frames' = frames /\ ret' = ret
      /\ changeJournal' = changeJournal
      /\ indices' = Append(indices, Len(changeJournal))
  BY DEF Enter, Goto, T!Checkpoint
<1>2. Len(indices) = Len(frames) /\ Len(frames) > 0
  BY <1>1 DEF EInv, MessagesOK, InMessage
<1>3. /\ Len(indices') = Len(indices) + 1
      /\ \A i \in 1..Len(indices) : indices'[i] = indices[i]
      /\ indices'[Len(indices) + 1] = Len(changeJournal)
  BY <1>1, InvFacts
<1>4. Len(frames) <= 1 => changeJournal = <<>>
  BY <1>1 DEF EInv, MessagesOK
<1>5. ASSUME NEW i \in 1..Len(indices'), i <= 2
      PROVE  indices'[i] = 0
  <2>1. CASE i \in 1..Len(indices)
    BY <1>3, <1>5, <2>1 DEF EInv, MessagesOK
  <2>2. CASE i = Len(indices) + 1
    <3>1. Len(changeJournal) = 0
      BY <1>2, <1>4, <1>5, <2>2, InvFacts
    <3> QED BY <1>3, <2>2, <3>1
  <2> QED BY <1>3, <2>1, <2>2, InvFacts
<1> QED BY <1>1, <1>2, <1>3, <1>4, <1>5, InvFacts DEF EInv, MessagesOK, InMessage

(* A message that is not the outermost has one above it.                   *)
LEMMA NotOne == \A n \in Nat : n > 0 /\ n # 1 => n > 1
OBVIOUS

(* Closing a message drops the last index.                                 *)
LEMMA CloseStep ==
    ASSUME EInv, pc \in {"halt", "fail"}, NEW keep \in BOOLEAN,
           frames' = Popped(keep), ret' = ret,
           indices' = SubSeq(indices, 1, Len(indices) - 1),
           pc' = IF Outermost THEN "miner" ELSE "run",
           changeJournal = <<>> => changeJournal' = <<>>
    PROVE  MessagesOK' /\ Len(indices) > 1
<1>1. pc \in InMessage /\ pc # "new"
  BY DEF InMessage
<1>2. Len(frames) \in Nat /\ Len(frames) > 0 /\ Len(indices) = Len(frames) + 1
  BY <1>1, InvFacts DEF EInv, MessagesOK
<1>3. /\ Len(indices') = Len(indices) - 1
      /\ \A i \in 1..(Len(indices) - 1) : indices'[i] = indices[i]
  <2>1. Len(indices) - 1 \in 0..Len(indices)
    BY <1>2
  <2> QED BY <2>1, InvFacts, TP!FrontFacts
<1>4. frames' \in Seq(Msg) /\ Len(frames') = Len(frames) - 1
  <2> DEFINE n == Len(frames) - 1
  <2>1. n \in Nat
    BY <1>2
  <2>2. ASSUME NEW i \in 1..n
        PROVE  Popped(keep)[i] \in Msg
    <3>1. i \in 1..Len(frames)
      BY <1>2
    <3>2. frames[i] \in Msg
      BY <3>1, InvFacts, ElementOfSeq
    <3>3. Frame \in Msg
      BY <1>1, FrameFacts
    <3>4. [frames[i] EXCEPT !.destructed = Frame.destructed, !.created = Frame.created] \in Msg
      BY <3>2, <3>3 DEF Msg
    <3> HIDE DEF Msg
    <3> QED BY <3>2, <3>4 DEF Popped
  <2>3. Popped(keep) \in [1..n -> Msg]
    <3> HIDE DEF Msg
    <3> QED BY <2>2 DEF Popped
  <2> HIDE DEF Msg, n
  <2>4. frames' \in Seq(Msg) /\ DOMAIN frames' = 1..n
    BY <2>1, <2>3, IsASeq
  <2> QED BY <2>1, <2>4 DEF n
<1>5. CASE Outermost
  <2>1. Len(frames) = 1 /\ changeJournal = <<>>
    BY <1>5 DEF Outermost, EInv, MessagesOK
  <2> QED BY <1>2, <1>3, <1>4, <1>5, <2>1 DEF EInv, MessagesOK, InMessage
<1>6. CASE ~ Outermost
  <2>1. Len(frames) > 1
    BY <1>2, <1>6, NotOne DEF Outermost
  <2> QED BY <1>2, <1>3, <1>4, <1>6, <2>1 DEF EInv, MessagesOK, InMessage
<1> QED BY <1>5, <1>6

(* A message that returns commits.                                         *)
LEMMA ReturnRefines ==
    ASSUME EInv, Return
    PROVE  Len(indices) > 1 /\ T!Commit /\ MessagesOK'
<1>1. /\ T!Commit /\ pc \in {"halt", "fail"} /\ frames' = Popped(TRUE) /\ ret' = ret
      /\ pc' = IF Outermost THEN "miner" ELSE "run"
  BY DEF Return, Goto
<1>2. indices' = SubSeq(indices, 1, Len(indices) - 1) /\ changeJournal' = changeJournal
  BY <1>1 DEF T!Commit
<1> QED BY <1>1, <1>2, CloseStep

(* A message that fails reverts.                                           *)
LEMMA ThrowRefines ==
    ASSUME EInv, Throw
    PROVE  Len(indices) > 1 /\ T!Revert /\ MessagesOK'
<1>1. /\ T!Revert /\ pc \in {"halt", "fail"} /\ frames' = Popped(FALSE) /\ ret' = ret
      /\ pc' = IF Outermost THEN "miner" ELSE "run"
  BY DEF Throw, Goto
<1>2. /\ indices' = SubSeq(indices, 1, Len(indices) - 1)
      /\ changeJournal' = SubSeq(changeJournal, 1, indices[Len(indices)])
  BY <1>1 DEF T!Revert
<1>3. ASSUME changeJournal = <<>> PROVE changeJournal' = <<>>
  <2>1. indices[Len(indices)] \in 0..Len(changeJournal)
    BY TP!LastIndex DEF EInv
  <2>2. indices[Len(indices)] = 0
    BY <1>3, <2>1
  <2> QED BY <1>2, <2>2, SubSeqEmpty
<1> QED BY <1>1, <1>2, <1>3, CloseStep

(* Message calls and creations start, or collide.                          *)
LEMMA StartRefines ==
    ASSUME EInv, ExecuteCreate \/ \E value \in {0, 1} : ExecuteCall(value)
    PROVE  UNCHANGED transientVars /\ MessagesOK'
<1>1. /\ UNCHANGED transientVars /\ pc = "start" /\ ret' = ret
      /\ pc' \in {"run", "halt", "fail"}
  BY DEF ExecuteCreate, ExecuteCall, CallGoesTo, Goto
<1>2. pc \in InMessage
  BY <1>1 DEF InMessage
<1>3. CASE frames' = frames
  BY <1>1, <1>3, InvFacts, RunStep DEF InMessage
<1>4. CASE ExecuteCreate
  <2>1. frames' = [frames EXCEPT ![Len(frames)].created = @ \cup {Self}]
    BY <1>4 DEF ExecuteCreate
  <2> DEFINE f == [Frame EXCEPT !.created = @ \cup {Self}]
  <2>2. f \in Msg
    BY <1>2, FrameFacts DEF Msg
  <2>3. frames' = [frames EXCEPT ![Len(frames)] = f]
    BY <2>1 DEF Frame
  <2> HIDE DEF f, Msg
  <2>4. frames' \in Seq(Msg) /\ Len(frames') = Len(frames)
    BY <1>2, <2>2, <2>3, FrameFacts, InvFacts, ExceptSeq
  <2> QED BY <1>1, <2>4, RunStep DEF InMessage
<1> QED BY <1>3, <1>4 DEF ExecuteCall

(* The code ends; the outermost message clears, and then no index is above *)
(* 0.                                                                      *)
LEMMA StopRefines ==
    ASSUME EInv, NEW ok \in BOOLEAN, Stop(ok)
    PROVE  /\ \/ UNCHANGED transientVars
              \/ (\A i \in 1..Len(indices) : indices[i] = 0) /\ T!Clear
           /\ MessagesOK'
<1>1. /\ pc \in {"run", "stop"} /\ frames' = frames /\ ret' = ret
      /\ pc' \in {"halt", "fail"}
  BY DEF Stop, Goto
<1>2. pc \in InMessage /\ Len(indices) = Len(frames) + 1 /\ Len(frames) > 0
  BY <1>1 DEF EInv, MessagesOK, InMessage
<1>3. CASE Outermost
  <2>1. T!Clear /\ Len(indices) = 2
    BY <1>2, <1>3 DEF Stop, Outermost
  <2>2. changeJournal' = <<>> /\ indices' = indices
    BY <2>1 DEF T!Clear
  <2>3. \A i \in 1..Len(indices) : i <= 2 => indices[i] = 0
    BY DEF EInv, MessagesOK
  <2>4. MessagesOK'
    BY <1>1, <1>2, <2>2 DEF EInv, MessagesOK, InMessage
  <2>5. \A i \in 1..Len(indices) : indices[i] = 0
    BY <2>1, <2>3
  <2> QED BY <2>1, <2>4, <2>5
<1>4. CASE ~ Outermost
  <2>1. UNCHANGED transientVars
    BY <1>4 DEF Stop
  <2>2. Len(frames) > 1
    BY <1>2, <1>4, InvFacts, NotOne DEF Outermost
  <2> QED BY <1>1, <1>2, <2>1, <2>2, InvFacts, RunStep DEF InMessage
<1> QED BY <1>3, <1>4

(* TSTORE is the only put.                                                 *)
LEMMA TStoreRefines ==
    ASSUME EInv, NEW k \in Slot, NEW v \in Value, TStore(k, v)
    PROVE  Self \in Address /\ T!Put(Self, k, v) /\ MessagesOK'
<1>1. /\ pc = "run" /\ pc' = pc /\ frames' = frames /\ ret' = ret
      /\ T!Put(Self, k, v)
  BY DEF TStore, Operation
<1>2. pc \in InMessage /\ indices' = indices
  BY <1>1 DEF InMessage, T!Put
<1>3. Self \in Address
  BY <1>2, FrameFacts
<1>4. MessagesOK'
  BY <1>1, <1>2 DEF EInv, MessagesOK, InMessage
<1> QED BY <1>1, <1>3, <1>4

(* A block begins with a new transient storage.                            *)
LEMMA BlockRefines ==
    ASSUME EInv, RunBlock
    PROVE  T!Fresh /\ MessagesOK'
<1>1. /\ T!Fresh /\ pc = "idle" /\ pc' = "rooted" /\ frames' = frames /\ ret' = ret
  BY DEF RunBlock, Goto
<1> QED BY <1>1 DEF T!Fresh, EInv, MessagesOK, InMessage

(* Every step is one of the transient storage.                             *)
LEMMA TransientStep ==
    ASSUME EInv, [Next]_vars
    PROVE  [T!Next]_(T!transientVars) /\ MessagesOK'
<1> USE DEF T!Next, T!transientVars, transientVars
<1>1. CASE UNCHANGED vars
  BY <1>1 DEF vars, evmVars, controlVars, EInv, MessagesOK
<1>2. CASE Quiet
  BY <1>2, QuietRefines
<1>3. CASE \/ \E k \in Slot : SLoad(k)
           \/ \E k \in Slot, v \in Value : SStore(k, v)
           \/ \E to \in Address, value \in {0, 1} : SelfDestruct(to, value)
  BY <1>3, CodeRefines
<1>4. CASE \E a \in Address, kind \in {"call", "create"} : Message(a, kind)
  BY <1>4, MessageRefines
<1>5. CASE ExecuteCreate \/ \E value \in {0, 1} : ExecuteCall(value)
  BY <1>5, StartRefines
<1>6. CASE Enter \/ RunBlock
  BY <1>6, EnterRefines, BlockRefines
<1>7. CASE Return
  BY <1>7, ReturnRefines
<1>8. CASE Throw
  BY <1>8, ThrowRefines
<1>9. CASE \E ok \in BOOLEAN : Stop(ok)
  BY <1>9, StopRefines
<1>10. CASE \E k \in Slot, v \in Value : TStore(k, v)
  BY <1>10, TStoreRefines
<1> HIDE DEF T!Next, T!transientVars, transientVars
<1> QED BY <1>1, <1>2, <1>3, <1>4, <1>5, <1>6, <1>7, <1>8, <1>9, <1>10 DEF Next, Quiet

(* And keeps the invariant.                                                *)
LEMMA MessagesStep ==
    ASSUME EInv, [Next]_vars
    PROVE  EInv'
<1>1. [TP!Next]_(TP!transientVars) /\ MessagesOK'
  BY TransientStep, SameNext
<1>2. TP!IInv'
  BY <1>1, StateAssumption, TP!StepInv DEF EInv
<1> QED BY <1>1, <1>2 DEF EInv

-----------------------------------------------------------------------------
(* Theorems. *)

(* Between messages no transient slot has a change to undo, every entered  *)
(* message has one index, and the outermost one's is 0, so that clear()    *)
(* leaves nothing a revert could still undo.                               *)
THEOREM MessagesInductive == Spec => []EInv
<1>1. EInv /\ [Next]_vars => EInv'
  BY MessagesStep
<1> QED BY <1>1, MessagesInit, PTL DEF Spec

(* Blocks, transactions and calls use the transient storage only by its    *)
(* operations, each where it is allowed: no commit or revert without a     *)
(* checkpoint, and no clear() while an open message has changes.           *)
THEOREM TransientSteps == Spec => T!Spec
<1>1. Init => T!Init
  BY DEF Init
<1>2. EInv /\ [Next]_vars => [T!Next]_(T!transientVars)
  BY TransientStep
<1> QED BY <1>1, <1>2, MessagesInductive, PTL DEF Spec, T!Spec

(* Whatever blocks, transactions and calls do, a call that fails puts      *)
(* every transient slot back to what it was when the call was made: the    *)
(* transient storage under the EVM is a stack of checkpoints.              *)
THEOREM TransientRollback == Spec => TransientCheckpoints
<1>1. TP!Spec => TP!TransientCheckpoints
  BY StateAssumption, TP!TransientRefinement
<1>2. TP!SavedValues = T!SavedValues
  BY DEF T!SavedValues, TP!SavedValues, T!AllSlots, TP!AllSlots,
         T!Before, TP!Before, T!ValueBefore, TP!ValueBefore,
         T!ChangesOf, TP!ChangesOf, T!Least, TP!Least
<1>3. TP!SavedValues' = T!SavedValues'
  BY DEF T!SavedValues, TP!SavedValues, T!AllSlots, TP!AllSlots,
         T!Before, TP!Before, T!ValueBefore, TP!ValueBefore,
         T!ChangesOf, TP!ChangesOf, T!Least, TP!Least
<1>4. TP!Stack!Init => T!Stack!Init
  BY <1>2 DEF T!Stack!Init, TP!Stack!Init, T!AllSlots, TP!AllSlots
<1>5. [TP!Stack!Next]_(TP!Stack!vars) => [T!Stack!Next]_(T!Stack!vars)
  BY <1>2, <1>3
     DEF T!Stack!Next, TP!Stack!Next, T!Stack!vars, TP!Stack!vars,
         T!Stack!Write, TP!Stack!Write, T!Stack!Load, TP!Stack!Load,
         T!Stack!Checkpoint, TP!Stack!Checkpoint, T!Stack!Commit, TP!Stack!Commit,
         T!Stack!Revert, TP!Stack!Revert, T!Stack!Clear, TP!Stack!Clear,
         T!NoValues, TP!NoValues, T!AllSlots, TP!AllSlots
<1> QED BY <1>1, <1>4, <1>5, SameInit, SameNext, TransientSteps, PTL
      DEF T!Spec, TP!Spec, TransientCheckpoints,
          T!TransientCheckpoints, TP!TransientCheckpoints, T!Stack!Spec, TP!Stack!Spec

-----------------------------------------------------------------------------
(* The accounts. *)

(* What is touched, and what a loop goes over, are addresses.              *)
AddressesOK == touched \subseteq Address /\ todo \subseteq Address

AInv == EInv /\ IInv /\ AddressesOK

AccountStep == [CacheNext]_cacheVars /\ AddressesOK'

(* An operation on an account is one of the cache.                         *)
LEMMA AccountOps ==
    ASSUME NEW a \in Address
    PROVE  /\ GetAccount(a) => CacheNext
           /\ \A v : PutAccount(a, v) => CacheNext
           /\ \A v : StatePut(a, v) => CacheNext
           /\ StateDelete(a) => CacheNext
           /\ StateCreate(a) => CacheNext
<1>1. \A v : PutAccount(a, v) => CacheNext
  BY DEF PutAccount, CacheNext
<1>2. StateCreate(a) => CacheNext
  <2> DEFINE v == [data |-> "contract", storageRoot |-> EmptyTrie]
  <2>1. v \in Account
    BY StateAssumption DEF EmptyTrie, StorageRoot
  <2> HIDE DEF v
  <2>2. StateCreate(a) => PutAccount(a, v)
    BY <2>1 DEF StateCreate, PutAccount, v
  <2> QED BY <1>1, <2>2
<1> QED BY <1>1, <1>2 DEF StatePut, StateDelete, CacheNext

(* Closing and opening checkpoints are operations of the cache.            *)
LEMMA CheckpointOps ==
    /\ StateCheckpoint => CacheNext
    /\ StateCommit => CacheNext
    /\ StateRevert => CacheNext
    /\ FlushAccounts => CacheNext
BY DEF StateCheckpoint, StateCommit, StateRevert, FlushAccounts, CacheNext

(* The journal touches what it is given, and a revert nothing.             *)
LEMMA JournalTouches ==
    ASSUME touched \subseteq Address
    PROVE  /\ \A S \in SUBSET Address : \A A, W : J!Record(S, A, W) => touched' \subseteq Address
           /\ J!Checkpoint \/ J!Commit \/ J!Revert \/ J!CleanJournal
                 => touched' \subseteq Address
BY DEF J!Record, J!Checkpoint, J!Commit, J!Begin, J!Revert, J!TouchedBefore, J!CleanJournal

(* The steps of a block.                                                   *)
LEMMA BlockAccounts ==
    ASSUME AInv,
           \/ RunBlock \/ BlockCheckpoint \/ BlockCommit \/ BlockRevert
           \/ FlushSlots \/ FlushEnd
           \/ \E a \in Withdrawers, value \in {0, 1} : Reward(a, value)
    PROVE  AccountStep
<1> USE DEF AInv, AddressesOK
<1>1. CASE RunBlock
  <2>1. PICK root \in {trie, Genesis}, clearCache \in BOOLEAN : SetStateRoot(root, clearCache)
    BY <1>1 DEF RunBlock, StateSetRoot
  <2>2. root \in [Address -> Stored]
    BY EVMAssumption DEF IInv, CacheTypeOK
  <2>3. CacheNext
    BY <2>1, <2>2 DEF CacheNext
  <2>4. AddressesOK'
    BY <1>1, JournalTouches DEF RunBlock
  <2> QED BY <2>3, <2>4 DEF AccountStep
<1>2. CASE BlockCheckpoint \/ BlockCommit \/ BlockRevert
  BY <1>2, CheckpointOps, JournalTouches
     DEF BlockCheckpoint, BlockCommit, BlockRevert, AccountStep
<1>3. CASE FlushSlots
  <2>1. PICK a \in Address : FlushStorage(a)
    BY <1>3 DEF FlushSlots
  <2>2. CacheNext
    BY <2>1, AccountOps DEF FlushStorage
  <2>3. AddressesOK'
    BY <1>3 DEF FlushSlots, evmVars, journalVars, controlVars
  <2> QED BY <2>2, <2>3 DEF AccountStep
<1>4. CASE FlushEnd
  BY <1>4, CheckpointOps DEF FlushEnd, journalVars, AccountStep
<1>5. ASSUME NEW a \in Withdrawers, NEW value, Reward(a, value)
      PROVE  AccountStep
  <2>1. a \in Address
    BY EVMAssumption
  <2>2. CacheNext
    BY <1>5, <2>1, AccountOps DEF Reward
  <2>3. AddressesOK'
    BY <1>5, <2>1, JournalTouches DEF Reward
  <2> QED BY <2>2, <2>3 DEF AccountStep
<1> QED BY <1>1, <1>2, <1>3, <1>4, <1>5

(* The steps of a transaction around its message.                          *)
LEMMA TxAccounts ==
    ASSUME AInv,
           \/ RunTx \/ TxCheckpoint \/ TxFail \/ TxCommit
           \/ Destroy \/ DestroyEnd \/ Cleanup \/ CleanupEnd
           \/ \E value \in {0, 1} : PayMiner(value)
    PROVE  AccountStep
<1> USE DEF AInv, AddressesOK
<1>1. CASE RunTx \/ DestroyEnd
  BY <1>1 DEF RunTx, DestroyEnd, evmVars, journalVars, stateVars, AccountStep
<1>2. CASE TxCheckpoint
  BY <1>2, CheckpointOps, JournalTouches DEF TxCheckpoint, AccountStep
<1>3. CASE TxFail \/ TxCommit
  BY <1>3, CheckpointOps, JournalTouches DEF TxFail, TxCommit, AccountStep
<1>4. CASE CleanupEnd
  BY <1>4, JournalTouches DEF CleanupEnd, stateVars, AccountStep
<1>5. CASE Destroy
  <2> DEFINE a == CHOOSE x \in todo : TRUE
  <2>1. a \in todo
    BY <1>5 DEF Destroy
  <2>2. a \in Address /\ {a} \subseteq Address
    BY <2>1
  <2>3. StateDelete(a) /\ J!Record({a}, {}, {}) /\ todo' = todo \ {a}
    BY <1>5 DEF Destroy
  <2> HIDE DEF a
  <2>4. touched' \subseteq Address
    BY <2>2, <2>3, JournalTouches
  <2> QED BY <2>2, <2>3, <2>4, AccountOps DEF AccountStep
<1>6. CASE Cleanup
  <2> DEFINE a == CHOOSE x \in todo : TRUE
  <2>1. a \in todo
    BY <1>6 DEF Cleanup
  <2>2. a \in Address
    BY <2>1
  <2>3. StateDelete(a) \/ GetAccount(a)
    BY <1>6 DEF Cleanup
  <2>4. todo' = todo \ {a} /\ touched' = touched
    BY <1>6 DEF Cleanup, evmVars, journalVars
  <2> HIDE DEF a
  <2> QED BY <2>2, <2>3, <2>4, AccountOps DEF AccountStep
<1>7. ASSUME NEW value, PayMiner(value) PROVE AccountStep
  BY <1>7, AccountOps, EVMAssumption, JournalTouches DEF PayMiner, AccountStep
<1> QED BY <1>1, <1>2, <1>3, <1>4, <1>5, <1>6, <1>7

(* The steps of a message.                                                 *)
LEMMA MessageAccounts ==
    ASSUME AInv,
           \/ Enter \/ ExecuteCreate \/ Return \/ Throw
           \/ \E value \in {0, 1} : ExecuteCall(value)
           \/ \E a \in Address, kind \in {"call", "create"} : Message(a, kind)
           \/ \E ok \in BOOLEAN : Stop(ok)
    PROVE  AccountStep
<1> USE DEF AInv, AddressesOK
<1>1. CASE Enter
  BY <1>1, CheckpointOps, JournalTouches DEF Enter, AccountStep
<1>2. ASSUME pc \in InMessage PROVE Self \in Address /\ Doomed \subseteq Address
  BY <1>2, FrameFacts DEF Doomed, Msg
<1>3. CASE ExecuteCreate
  <2>1. Self \in Address
    BY <1>2, <1>3 DEF ExecuteCreate, InMessage
  <2>2. CacheNext
    BY <1>3, <2>1, AccountOps DEF ExecuteCreate
  <2>3. touched' \subseteq Address /\ todo' = todo
    BY <1>3, <2>1, JournalTouches DEF ExecuteCreate, journalVars
  <2> QED BY <2>2, <2>3 DEF AccountStep
<1>4. CASE Return
  <2>1. todo' \subseteq Address
    BY <1>2, <1>4 DEF Return, InMessage
  <2>2. CacheNext /\ touched' \subseteq Address
    BY <1>4, CheckpointOps, JournalTouches DEF Return
  <2> QED BY <2>1, <2>2 DEF AccountStep
<1>5. CASE Throw
  BY <1>5, CheckpointOps, JournalTouches DEF Throw, AccountStep
<1>6. ASSUME NEW value, ExecuteCall(value) PROVE AccountStep
  <2>1. Self \in Address
    BY <1>2, <1>6 DEF ExecuteCall, InMessage
  <2>2. CacheNext
    BY <1>6, <2>1, AccountOps DEF ExecuteCall
  <2>3. touched' \subseteq Address /\ todo' = todo
    BY <1>6, <2>1, JournalTouches DEF ExecuteCall
  <2> QED BY <2>2, <2>3 DEF AccountStep
<1>7. ASSUME NEW a, NEW kind, Message(a, kind) PROVE AccountStep
  <2>1. touched' \subseteq Address /\ todo' = todo
    BY <1>7, JournalTouches DEF Message
  <2>2. CASE UNCHANGED stateVars
    BY <2>1, <2>2 DEF stateVars, AccountStep
  <2>3. CASE pc = "run" /\ StatePut(Self, Current(Self))
    <3>1. Self \in Address
      BY <1>2, <2>3 DEF InMessage
    <3> QED BY <2>1, <2>3, <3>1, AccountOps DEF AccountStep
  <2> QED BY <1>7, <2>2, <2>3 DEF Message
<1>8. ASSUME NEW ok, Stop(ok) PROVE AccountStep
  BY <1>8 DEF Stop, stateVars, journalVars, AccountStep
<1> QED BY <1>1, <1>3, <1>4, <1>5, <1>6, <1>7, <1>8

(* The steps of a contract's code.                                         *)
LEMMA CodeAccounts ==
    ASSUME AInv,
           \/ \E k \in Slot : SLoad(k)
           \/ \E k \in Slot, v \in Value : SStore(k, v) \/ TStore(k, v)
           \/ \E to \in Address, value \in {0, 1} : SelfDestruct(to, value)
    PROVE  AccountStep
<1> USE DEF AInv, AddressesOK
<1>1. pc = "run" /\ todo' = todo
  BY DEF SLoad, SStore, TStore, SelfDestruct, Operation
<1>2. Self \in Address
  BY <1>1, FrameFacts DEF InMessage
<1>3. ASSUME NEW k, SLoad(k) PROVE AccountStep
  BY <1>1, <1>2, <1>3, AccountOps, JournalTouches DEF SLoad, GetStorage, AccountStep
<1>4. ASSUME NEW k, NEW v, SStore(k, v) PROVE AccountStep
  BY <1>1, <1>2, <1>4, AccountOps, JournalTouches DEF SStore, PutStorage, AccountStep
<1>5. ASSUME NEW k, NEW v, TStore(k, v) PROVE AccountStep
  BY <1>1, <1>5 DEF TStore, stateVars, journalVars, AccountStep
<1>6. ASSUME NEW to \in Address, NEW value, SelfDestruct(to, value) PROVE AccountStep
  <2>1. [CacheNext]_cacheVars
    BY <1>6, AccountOps DEF SelfDestruct, stateVars
  <2>2. touched' \subseteq Address
    BY <1>6, JournalTouches DEF SelfDestruct
  <2> QED BY <1>1, <2>1, <2>2 DEF AccountStep
<1> QED BY <1>3, <1>4, <1>5, <1>6

(* Every step is one of the cache, and keeps the addresses.                *)
LEMMA AccountsStep ==
    ASSUME AInv, [Next]_vars
    PROVE  AccountStep
<1>1. CASE UNCHANGED vars
  BY <1>1 DEF vars, stateVars, evmVars, journalVars, controlVars, AccountStep,
              AInv, AddressesOK
<1>2. CASE Next
  BY <1>2, BlockAccounts, TxAccounts, MessageAccounts, CodeAccounts DEF Next
<1> QED BY <1>1, <1>2

(* The accounts begin as the cache does.                                   *)
LEMMA AccountsInit == Init => CacheInit /\ AddressesOK
BY DEF Init, StateInit, J!Init, AddressesOK

-----------------------------------------------------------------------------
(* Theorems about the accounts. *)

(* Blocks, transactions, calls and flushes use the accounts only by the    *)
(* operations of the cache, each where it is allowed: no commit or revert  *)
(* without a checkpoint, no flush and no other root while one is open.     *)
THEOREM AccountSteps == Spec => CacheSpec
<1>1. Init => AInv
  BY AccountsInit, MessagesInit, InitInv DEF AInv
<1>2. AInv /\ [Next]_vars => AInv'
  <2> SUFFICES ASSUME AInv, [Next]_vars PROVE AInv'
    OBVIOUS
  <2>1. AccountStep /\ EInv'
    BY AccountsStep, MessagesStep DEF AInv
  <2>2. IInv'
    BY <2>1, StepInv DEF AInv, AccountStep
  <2> QED BY <2>1, <2>2 DEF AInv, AccountStep
<1>3. AInv /\ [Next]_vars => [CacheNext]_cacheVars
  BY AccountsStep DEF AccountStep
<1>4. Init => CacheInit
  BY AccountsInit
<1> QED BY <1>1, <1>2, <1>3, <1>4, PTL DEF Spec, CacheSpec

(* The EVM keeps to the operations of both the account cache and the       *)
(* transient storage.                                                      *)
THEOREM Composition == Spec => ComponentSteps
BY AccountSteps, TransientSteps, PTL DEF ComponentSteps

(* Under the EVM, too, what the cache held before the first change since   *)
(* the last flush is what the trie has.                                    *)
THEOREM StateCoherent == Spec => []Coherent
BY AccountSteps, CacheCoherent, PTL

(* However blocks, transactions and calls end, what a revert brings back   *)
(* is what getAccount returned when the checkpoint was made.               *)
THEOREM AccountRollback == Spec => ImplementsStack
BY AccountSteps, Refinement, PTL

-----------------------------------------------------------------------------
(* The journal. *)

(* The two instances of the journal are the same.                          *)
LEMMA SameJournal ==
    /\ J!Init <=> JP!Init
    /\ \A S, A, W : J!Record(S, A, W) <=> JP!Record(S, A, W)
    /\ J!Checkpoint <=> JP!Checkpoint
    /\ J!Commit <=> JP!Commit
    /\ J!Revert <=> JP!Revert
    /\ J!CleanJournal <=> JP!CleanJournal
    /\ J!TypeOK <=> JP!TypeOK
    /\ journalVars = JP!journalVars
BY DEF J!Init, JP!Init, J!Record, JP!Record, J!Checkpoint, JP!Checkpoint, J!Begin, JP!Begin,
       J!Commit, JP!Commit, J!Revert, JP!Revert, J!CleanJournal, JP!CleanJournal,
       J!TypeOK, JP!TypeOK, J!Diff, JP!Diff, J!TouchedBefore, JP!TouchedBefore,
       J!WarmBefore, JP!WarmBefore, J!WarmSlotsBefore, JP!WarmSlotsBefore,
       J!Undone, JP!Undone, J!LastBelow, JP!LastBelow, J!Max, JP!Max,
       journalVars, JP!journalVars

Labels == {"idle", "rooted", "block", "rewarded", "flush", "tx", "message", "miner",
           "destroy", "cleanup", "commit"} \cup InMessage

JournalEmpty == touched = {} /\ warm = {} /\ warmSlots = {}

(* Each message that was entered has its height, as it has its index.      *)
(* Between transactions the journal is clean; a block that has had none,   *)
(* and no withdrawal, has the height of its own checkpoint, any other is   *)
(* closed one height too low, which the next block's clean makes good.     *)
JournalOK ==
    /\ pc \in Labels
    /\ ret \in {"idle", "rewarded", "tx", "commit"} /\ (pc = "cleanup" => ret # "idle")
    /\ pc \in {"idle", "flush"} => JP!TypeOK /\ journalHeight <= 0
    /\ pc \notin {"idle", "flush"} => JP!IInv
    /\ pc \in {"idle", "rooted", "block", "rewarded", "tx", "flush"} => JournalEmpty
    /\ pc \in {"rooted", "rewarded", "tx"} => journalHeight = 0
    /\ pc = "block" => journalHeight <= 1
    /\ pc = "message" => journalHeight = 1
    /\ pc \in InMessage => journalHeight = Len(indices)

KInv == AInv /\ JournalOK

JournalStep == [JP!Stack!Next]_(JP!Stack!vars) /\ JournalOK'

(* An operation where the journal's own theorem applies.                   *)
LEMMA JournalOps ==
    ASSUME JP!IInv
    PROVE  /\ UNCHANGED journalVars =>
                  JP!IInv' /\ journalHeight' = journalHeight /\ (JournalEmpty => JournalEmpty')
           /\ \A S, A \in SUBSET Address, W \in SUBSET (Address \X Slot) :
                  J!Record(S, A, W) => /\ [JP!Stack!Next]_(JP!Stack!vars)
                                       /\ JP!IInv' /\ journalHeight' = journalHeight
           /\ J!Checkpoint => /\ [JP!Stack!Next]_(JP!Stack!vars)
                              /\ JP!IInv' /\ journalHeight' = journalHeight + 1
                              /\ JournalEmpty => JournalEmpty'
           /\ journalHeight > 0 /\ J!Commit => /\ [JP!Stack!Next]_(JP!Stack!vars)
                                               /\ JP!IInv' /\ journalHeight' = journalHeight - 1
                                               /\ JournalEmpty => JournalEmpty'
           /\ journalHeight > 0 /\ J!Revert => /\ [JP!Stack!Next]_(JP!Stack!vars)
                                               /\ JP!IInv' /\ journalHeight' = journalHeight - 1
                                               /\ JournalEmpty => JournalEmpty'
           /\ journalHeight \in Nat
<1>1. [JP!Next]_(JP!journalVars) /\ JP!IInv' => [JP!Stack!Next]_(JP!Stack!vars)
  BY JP!StepRefines
<1>2. UNCHANGED journalVars =>
          JP!IInv' /\ journalHeight' = journalHeight /\ (JournalEmpty => JournalEmpty')
  <2>1. UNCHANGED journalVars => UNCHANGED JP!journalVars
    BY DEF journalVars, JP!journalVars
  <2>2. UNCHANGED journalVars => journalHeight' = journalHeight /\ (JournalEmpty => JournalEmpty')
    BY DEF journalVars, JournalEmpty
  <2>3. UNCHANGED JP!journalVars => JP!IInv'
    BY JP!OpFacts
  <2> QED BY <2>1, <2>2, <2>3
<1>3. ASSUME NEW S \in SUBSET Address, NEW A \in SUBSET Address,
             NEW W \in SUBSET (Address \X Slot), J!Record(S, A, W)
      PROVE  [JP!Stack!Next]_(JP!Stack!vars) /\ JP!IInv' /\ journalHeight' = journalHeight
  <2>1. JP!Record(S, A, W)
    BY <1>3, SameJournal
  <2>2. JP!Next
    BY <2>1 DEF JP!Next
  <2> QED BY <1>1, <2>1, <2>2, JP!OpFacts
<1>4. J!Checkpoint => JP!Next /\ JP!Checkpoint /\ (JournalEmpty => JournalEmpty')
  BY SameJournal DEF JP!Next, J!Checkpoint, J!Begin, JournalEmpty
<1>5. journalHeight > 0 /\ J!Commit => JP!Next /\ JP!Commit /\ (JournalEmpty => JournalEmpty')
  BY SameJournal DEF JP!Next, J!Commit, J!Begin, JournalEmpty
<1>6. journalHeight > 0 /\ J!Revert => JP!Next /\ JP!Revert /\ (JournalEmpty => JournalEmpty')
  BY SameJournal DEF JP!Next, J!Revert, JournalEmpty, J!TouchedBefore, J!WarmBefore,
                     J!WarmSlotsBefore
<1>7. journalHeight \in Nat
  BY JP!OpFacts
<1> QED BY <1>1, <1>2, <1>3, <1>4, <1>5, <1>6, <1>7, JP!OpFacts

(* Cleaning needs nothing.                                                 *)
LEMMA JournalClean ==
    ASSUME J!CleanJournal
    PROVE  /\ [JP!Stack!Next]_(JP!Stack!vars)
           /\ JP!IInv' /\ journalHeight' = 0 /\ JournalEmpty'
<1>1. JP!CleanJournal
  BY SameJournal
<1>2. JP!Init'
  BY <1>1 DEF JP!CleanJournal, JP!Init
<1>3. JP!IInv'
  BY <1>2, JP!InitInv, PTL
<1>4. JP!Stack!Clear
  BY <1>1, JP!CleanRefines
<1> QED BY <1>1, <1>3, <1>4 DEF JP!Stack!Next, JP!CleanJournal, JournalEmpty

(* A step that leaves the journal alone leaves its stack of contents alone. *)
LEMMA JournalQuiet ==
    ASSUME UNCHANGED journalVars
    PROVE  UNCHANGED JP!Stack!vars
<1>1. UNCHANGED JP!journalVars
  BY SameJournal DEF journalVars, JP!journalVars
<1> QED BY <1>1, JP!StutterRefines

(* A block closed with its checkpoint in the journal, or without one.      *)
LEMMA JournalClose ==
    ASSUME KInv, pc \in {"block", "rewarded"}, J!Commit \/ J!Revert
    PROVE  /\ [JP!Stack!Next]_(JP!Stack!vars)
           /\ JP!TypeOK' /\ journalHeight' <= 0 /\ JournalEmpty'
<1>1. JP!IInv /\ JournalEmpty /\ journalHeight <= 1
  BY DEF KInv, JournalOK
<1>2. journalHeight \in Nat
  BY <1>1, JP!OpFacts
<1>3. JP!Commit \/ JP!Revert
  BY SameJournal
<1>4. CASE journalHeight = 0
  <2>1. JP!TypeOK' /\ journalHeight' = -1
    BY <1>1, <1>3, <1>4, JP!CloseEmpty DEF JournalEmpty
  <2>2. touched' = {} /\ warm' = {} /\ warmSlots' = {}
    BY <1>1, <1>3, <1>4, JP!CloseEmpty DEF JournalEmpty
  <2>3. /\ journalHeight \in Int /\ journalHeight <= 0
        /\ journalHeight' \in Int /\ journalHeight' <= 0
        /\ touched' = touched /\ warm' = warm /\ warmSlots' = warmSlots
    BY <1>1, <1>4, <2>1, <2>2 DEF JournalEmpty
  <2>4. UNCHANGED JP!Stack!vars
    BY <2>3, JP!ClosedRefines
  <2> QED BY <2>1, <2>2, <2>3, <2>4 DEF JournalEmpty
<1>5. CASE journalHeight = 1
  <2>1. [JP!Stack!Next]_(JP!Stack!vars) /\ JP!IInv' /\ journalHeight' = 0 /\ JournalEmpty'
    BY <1>1, <1>5, JournalOps
  <2>2. JP!IInv' => JP!TypeOK'
    BY DEF JP!IInv
  <2> QED BY <2>1, <2>2
<1> QED BY <1>1, <1>2, <1>4, <1>5

(* The steps of a block.                                                   *)
LEMMA BlockJournal ==
    ASSUME KInv,
           \/ RunBlock \/ BlockCheckpoint \/ BlockCommit \/ BlockRevert
           \/ FlushSlots \/ FlushEnd
           \/ \E a \in Withdrawers, value \in {0, 1} : Reward(a, value)
    PROVE  JournalStep
<1> USE DEF Goto, InMessage, Labels
<1>1. ret \in {"idle", "rewarded", "tx", "commit"}
  BY DEF KInv, JournalOK
<1>2. CASE RunBlock
  <2>1. J!CleanJournal /\ pc' = "rooted" /\ ret' = ret
    BY <1>2 DEF RunBlock
  <2> QED BY <1>1, <2>1, JournalClean DEF JournalStep, JournalOK
<1>3. CASE BlockCheckpoint
  <2>1. J!Checkpoint /\ pc = "rooted" /\ pc' = "block" /\ ret' = ret
    BY <1>3 DEF BlockCheckpoint
  <2>2. JP!IInv /\ journalHeight = 0 /\ JournalEmpty
    BY <2>1 DEF KInv, JournalOK
  <2> QED BY <1>1, <2>1, <2>2, JournalOps DEF JournalStep, JournalOK
<1>4. CASE BlockCommit \/ BlockRevert
  <2>1. /\ J!Commit \/ J!Revert
        /\ pc \in {"block", "rewarded"} /\ pc' = "flush" /\ ret' = ret
    BY <1>4 DEF BlockCommit, BlockRevert
  <2> QED BY <1>1, <2>1, JournalClose DEF JournalStep, JournalOK
<1>5. CASE FlushSlots \/ FlushEnd
  <2>1. /\ UNCHANGED journalVars
        /\ pc = "flush" /\ pc' \in {"flush", "idle"} /\ ret' = ret
    BY <1>5 DEF FlushSlots, FlushEnd, evmVars, controlVars
  <2>2. JP!TypeOK /\ journalHeight <= 0 /\ JournalEmpty
    BY <2>1 DEF KInv, JournalOK
  <2>3. JP!TypeOK' /\ journalHeight' <= 0 /\ JournalEmpty'
    BY <2>1, <2>2 DEF journalVars, JP!TypeOK, JournalEmpty
  <2>4. UNCHANGED JP!Stack!vars
    BY <2>1, JournalQuiet
  <2> QED BY <1>1, <2>1, <2>3, <2>4 DEF JournalStep, JournalOK
<1>6. ASSUME NEW a \in Withdrawers, NEW value, Reward(a, value)
      PROVE  JournalStep
  <2>1. J!Record({a}, {}, {}) /\ pc = "block" /\ pc' = "cleanup" /\ ret' = "rewarded"
    BY <1>6 DEF Reward
  <2>2. JP!IInv
    BY <2>1 DEF KInv, JournalOK
  <2>3. {a} \in SUBSET Address /\ {} \in SUBSET Address /\ {} \in SUBSET (Address \X Slot)
    BY EVMAssumption
  <2>4. [JP!Stack!Next]_(JP!Stack!vars) /\ JP!IInv'
    BY <2>1, <2>2, <2>3, JournalOps
  <2> QED BY <2>1, <2>4 DEF JournalStep, JournalOK
<1> QED BY <1>2, <1>3, <1>4, <1>5, <1>6

(* The steps of a transaction around its message.                          *)
LEMMA TxJournal ==
    ASSUME KInv,
           \/ RunTx \/ TxCheckpoint \/ TxFail \/ TxCommit
           \/ Destroy \/ DestroyEnd \/ Cleanup \/ CleanupEnd
           \/ \E value \in {0, 1} : PayMiner(value)
    PROVE  JournalStep
<1> USE DEF Goto, InMessage, Labels
<1>1. /\ ret \in {"idle", "rewarded", "tx", "commit"}
      /\ pc = "cleanup" => ret \in {"rewarded", "tx", "commit"}
      /\ pc \notin {"idle", "flush"} => JP!IInv
  BY DEF KInv, JournalOK
<1>2. CASE RunTx \/ DestroyEnd \/ Cleanup
  <2>1. /\ UNCHANGED journalVars
        /\ pc \in {"block", "destroy", "cleanup"} /\ pc' = "cleanup"
        /\ ret' \in {"tx", "commit"} \/ (pc = "cleanup" /\ ret' = ret)
    BY <1>2 DEF RunTx, DestroyEnd, Cleanup, evmVars
  <2>2. JP!IInv'
    BY <1>1, <2>1, JournalOps
  <2>3. UNCHANGED JP!Stack!vars
    BY <2>1, JournalQuiet
  <2> QED BY <1>1, <2>1, <2>2, <2>3 DEF JournalStep, JournalOK
<1>3. CASE TxCheckpoint
  <2>1. J!Checkpoint /\ pc = "tx" /\ pc' = "message" /\ ret' = ret
    BY <1>3 DEF TxCheckpoint
  <2>2. journalHeight = 0
    BY <2>1 DEF KInv, JournalOK
  <2> QED BY <1>1, <2>1, <2>2, JournalOps DEF JournalStep, JournalOK
<1>4. CASE TxFail \/ TxCommit \/ CleanupEnd
  <2>1. /\ J!CleanJournal /\ ret' = ret
        /\ pc' = "block" \/ (pc = "cleanup" /\ pc' = ret)
    BY <1>4 DEF TxFail, TxCommit, CleanupEnd
  <2>2. pc' \in {"block", "rewarded", "tx", "commit"}
    BY <1>1, <2>1
  <2> QED BY <1>1, <2>1, <2>2, JournalClean DEF JournalStep, JournalOK
<1>5. CASE Destroy
  <2> DEFINE a == CHOOSE x \in todo : TRUE
  <2>1. a \in todo
    BY <1>5 DEF Destroy
  <2>2. J!Record({a}, {}, {}) /\ pc = "destroy" /\ pc' = pc /\ ret' = ret
    BY <1>5 DEF Destroy
  <2> HIDE DEF a
  <2>3. {a} \in SUBSET Address /\ {} \in SUBSET Address /\ {} \in SUBSET (Address \X Slot)
    BY <2>1 DEF KInv, AInv, AddressesOK
  <2>4. [JP!Stack!Next]_(JP!Stack!vars) /\ JP!IInv'
    BY <1>1, <2>2, <2>3, JournalOps
  <2> QED BY <1>1, <2>2, <2>4 DEF JournalStep, JournalOK
<1>6. ASSUME NEW value, PayMiner(value) PROVE JournalStep
  <2>1. J!Record({Miner}, {}, {}) /\ pc = "miner" /\ pc' = "destroy" /\ ret' = ret
    BY <1>6 DEF PayMiner
  <2>2. {Miner} \in SUBSET Address /\ {} \in SUBSET Address /\ {} \in SUBSET (Address \X Slot)
    BY EVMAssumption
  <2>3. [JP!Stack!Next]_(JP!Stack!vars) /\ JP!IInv'
    BY <1>1, <2>1, <2>2, JournalOps
  <2> QED BY <1>1, <2>1, <2>3 DEF JournalStep, JournalOK
<1> QED BY <1>2, <1>3, <1>4, <1>5, <1>6

(* The steps of a message.                                                 *)
LEMMA MessageJournal ==
    ASSUME KInv,
           \/ Enter \/ ExecuteCreate \/ Return \/ Throw
           \/ \E value \in {0, 1} : ExecuteCall(value)
           \/ \E a \in Address, kind \in {"call", "create"} : Message(a, kind)
           \/ \E ok \in BOOLEAN : Stop(ok)
    PROVE  JournalStep
<1> USE DEF Goto, InMessage, Labels
<1>1. /\ ret \in {"idle", "rewarded", "tx", "commit"}
      /\ pc \notin {"idle", "flush"} => JP!IInv
      /\ pc \in InMessage => journalHeight = Len(indices)
      /\ EInv
  BY DEF KInv, AInv, JournalOK
<1>2. pc \in InMessage => Self \in Address /\ Len(frames) > 0
  BY <1>1, FrameFacts
<1>3. Len(indices) \in Nat \ {0}
  BY <1>1, InvFacts
<1>4. CASE Enter
  <2>1. J!Checkpoint /\ Enter /\ pc = "new" /\ pc' = "start" /\ ret' = ret
    BY <1>4 DEF Enter
  <2>2. Len(indices') = Len(indices) + 1
    <3>1. indices' = Append(indices, Len(changeJournal))
      BY <1>4 DEF Enter, T!Checkpoint
    <3> QED BY <1>1, <3>1, InvFacts
  <2>3. /\ [JP!Stack!Next]_(JP!Stack!vars)
        /\ JP!IInv' /\ journalHeight' = journalHeight + 1
    BY <1>1, <2>1, JournalOps
  <2> QED BY <1>1, <2>1, <2>2, <2>3 DEF JournalStep, JournalOK
<1>5. CASE ExecuteCreate /\ UNCHANGED journalVars
  <2>1. /\ pc = "start" /\ pc' \in {"fail", "run"} /\ ret' = ret
        /\ UNCHANGED <<transientVars, journalVars>>
    BY <1>5 DEF ExecuteCreate
  <2>2. JP!IInv' /\ journalHeight' = journalHeight
    BY <1>1, <2>1, JournalOps
  <2>3. UNCHANGED JP!Stack!vars
    BY <2>1, JournalQuiet
  <2> QED BY <1>1, <2>1, <2>2, <2>3 DEF JournalStep, JournalOK, transientVars
<1>6. ASSUME NEW value, ExecuteCall(value) \/ (ExecuteCreate /\ ~ UNCHANGED journalVars)
      PROVE  JournalStep
  <2>1. /\ J!Record({Self}, {}, {}) /\ pc = "start" /\ pc' \in {"run", "halt", "fail"} /\ ret' = ret
        /\ UNCHANGED transientVars
    BY <1>6 DEF ExecuteCreate, ExecuteCall, CallGoesTo, Goto
  <2>2. {Self} \in SUBSET Address /\ {} \in SUBSET Address /\ {} \in SUBSET (Address \X Slot)
    BY <1>2, <2>1
  <2>3. [JP!Stack!Next]_(JP!Stack!vars) /\ JP!IInv' /\ journalHeight' = journalHeight
    BY <1>1, <2>1, <2>2, JournalOps
  <2> QED BY <1>1, <2>1, <2>3 DEF JournalStep, JournalOK, transientVars
<1>7. ASSUME NEW to \in Address, NEW kind, Message(to, kind)
      PROVE  JournalStep
  <2>1. /\ pc' = "new" /\ ret' = ret /\ pc \in {"message", "run"}
        /\ UNCHANGED transientVars
    BY <1>7 DEF Message
  <2>2. PICK A \in SUBSET Address : J!Record({}, A, {})
    BY <1>7 DEF Message
  <2>3. {} \in SUBSET Address /\ {} \in SUBSET (Address \X Slot)
    OBVIOUS
  <2>4. [JP!Stack!Next]_(JP!Stack!vars) /\ JP!IInv' /\ journalHeight' = journalHeight
    BY <1>1, <2>1, <2>2, <2>3, JournalOps
  <2>5. journalHeight = Len(indices)
    <3>1. CASE pc = "message"
      <4>1. ~ Len(frames) > 0 /\ Len(indices) = Len(frames) + 1
        BY <1>1, <3>1 DEF EInv, MessagesOK
      <4> QED BY <1>1, <3>1, <4>1, InvFacts DEF KInv, JournalOK
    <3> QED BY <1>1, <2>1, <3>1
  <2> QED BY <1>1, <2>1, <2>4, <2>5 DEF JournalStep, JournalOK, transientVars
<1>8. ASSUME NEW ok \in BOOLEAN, Stop(ok) PROVE JournalStep
  <2>1. /\ pc \in {"run", "stop"} /\ pc' \in {"halt", "fail"} /\ ret' = ret
        /\ UNCHANGED journalVars /\ indices' = indices
    BY <1>8 DEF Stop, T!Clear, transientVars
  <2>2. JP!IInv' /\ journalHeight' = journalHeight
    BY <1>1, <2>1, JournalOps
  <2>3. UNCHANGED JP!Stack!vars
    BY <2>1, JournalQuiet
  <2> QED BY <1>1, <2>1, <2>2, <2>3 DEF JournalStep, JournalOK
<1>9. CASE Return \/ Throw
  <2>1. /\ J!Commit \/ J!Revert
        /\ pc \in {"halt", "fail"} /\ pc' \in {"miner", "run"} /\ ret' = ret
        /\ indices' = SubSeq(indices, 1, Len(indices) - 1)
    BY <1>9 DEF Return, Throw, T!Commit, T!Revert
  <2>2. Len(indices) > 1
    BY <1>1, <1>9, ReturnRefines, ThrowRefines
  <2>3. Len(indices') = Len(indices) - 1
    <3>1. Len(indices) - 1 \in 0..Len(indices)
      BY <1>3
    <3> QED BY <1>1, <2>1, <3>1, InvFacts, TP!FrontFacts
  <2>4. [JP!Stack!Next]_(JP!Stack!vars) /\ JP!IInv' /\ journalHeight' = journalHeight - 1
    BY <1>1, <2>1, <2>2, JournalOps
  <2> QED BY <1>1, <2>1, <2>3, <2>4 DEF JournalStep, JournalOK
<1> QED BY <1>4, <1>5, <1>6, <1>7, <1>8, <1>9

(* The steps of a contract's code.                                         *)
LEMMA CodeJournal ==
    ASSUME KInv,
           \/ \E k \in Slot : SLoad(k)
           \/ \E k \in Slot, v \in Value : SStore(k, v) \/ TStore(k, v)
           \/ \E to \in Address, value \in {0, 1} : SelfDestruct(to, value)
    PROVE  JournalStep
<1> USE DEF Goto, InMessage, Labels
<1>1. pc = "run" /\ ret' = ret
  BY DEF SLoad, SStore, TStore, SelfDestruct, Operation
<1>2. /\ ret \in {"idle", "rewarded", "tx", "commit"}
      /\ JP!IInv /\ journalHeight = Len(indices) /\ Self \in Address
  BY <1>1, FrameFacts DEF KInv, AInv, JournalOK
<1>3. ASSUME NEW S \in SUBSET Address, NEW A \in SUBSET Address,
             NEW W \in SUBSET (Address \X Slot), J!Record(S, A, W),
             UNCHANGED transientVars, pc' \in {"run", "stop"}
      PROVE  JournalStep
  <2>1. [JP!Stack!Next]_(JP!Stack!vars) /\ JP!IInv' /\ journalHeight' = journalHeight
    BY <1>2, <1>3, JournalOps
  <2> QED BY <1>1, <1>2, <1>3, <2>1 DEF JournalStep, JournalOK, transientVars
<1>4. ASSUME NEW k \in Slot, NEW v, SLoad(k) \/ SStore(k, v) PROVE JournalStep
  <2>1. /\ J!Record({}, {}, {<<Self, k>>}) /\ UNCHANGED transientVars /\ pc' = pc
    BY <1>4 DEF SLoad, SStore
  <2>2. {} \in SUBSET Address /\ {<<Self, k>>} \in SUBSET (Address \X Slot)
    BY <1>2
  <2> QED BY <1>1, <1>3, <2>1, <2>2
<1>5. ASSUME NEW k, NEW v, TStore(k, v) PROVE JournalStep
  <2>1. UNCHANGED journalVars /\ indices' = indices /\ pc' = pc
    BY <1>5 DEF TStore, T!Put
  <2>2. JP!IInv' /\ journalHeight' = journalHeight
    BY <1>2, <2>1, JournalOps
  <2>3. UNCHANGED JP!Stack!vars
    BY <2>1, JournalQuiet
  <2> QED BY <1>1, <1>2, <2>1, <2>2, <2>3 DEF JournalStep, JournalOK
<1>6. ASSUME NEW to \in Address, NEW value, SelfDestruct(to, value) PROVE JournalStep
  <2>1. J!Record({to} \ {Self}, {to}, {}) /\ UNCHANGED transientVars /\ pc' = "stop"
    BY <1>6 DEF SelfDestruct
  <2>2. /\ {to} \ {Self} \in SUBSET Address /\ {to} \in SUBSET Address
        /\ {} \in SUBSET (Address \X Slot)
    OBVIOUS
  <2> QED BY <1>3, <2>1, <2>2
<1> QED BY <1>4, <1>5, <1>6

(* Every step is one of the journal's stack, and keeps the heights.        *)
LEMMA JournalsStep ==
    ASSUME KInv, [Next]_vars
    PROVE  JournalStep /\ KInv'
<1>1. ASSUME UNCHANGED vars PROVE JournalStep
  <2>1. UNCHANGED <<journalVars, indices, pc, ret>>
    BY <1>1 DEF vars, evmVars, transientVars, controlVars
  <2>2. UNCHANGED JP!Stack!vars
    BY <2>1, JournalQuiet
  <2>3. JP!IInv' <=> JP!IInv
    BY <2>1 DEF journalVars, JP!IInv, JP!TypeOK, JP!Heights, JP!Apart
  <2>4. JournalOK'
    BY <2>1, <2>3 DEF KInv, JournalOK, JournalEmpty, JP!TypeOK, journalVars
  <2> QED BY <2>2, <2>4 DEF JournalStep
<1>2. ASSUME Next PROVE JournalStep
  BY <1>2, BlockJournal, TxJournal, MessageJournal, CodeJournal DEF Next
<1>3. AInv'
  <2>1. AccountStep /\ EInv'
    BY AccountsStep, MessagesStep DEF KInv, AInv
  <2>2. IInv'
    BY <2>1, StepInv DEF KInv, AInv, AccountStep
  <2> QED BY <2>1, <2>2 DEF AInv, AccountStep
<1> QED BY <1>1, <1>2, <1>3 DEF KInv, JournalStep

(* The journal begins clean.                                               *)
LEMMA JournalsInit == Init => KInv
<1> SUFFICES ASSUME Init PROVE KInv
  OBVIOUS
<1>1. AInv
  BY AccountsInit, MessagesInit, InitInv DEF AInv
<1>2. JP!Init
  BY SameJournal DEF Init
<1>3. JP!IInv
  BY <1>2, JP!InitInv
<1>4. JournalOK
  BY <1>2, <1>3 DEF Init, JournalOK, JournalEmpty, Labels, InMessage, JP!IInv, JP!Init
<1> QED BY <1>1, <1>4 DEF KInv

-----------------------------------------------------------------------------
(* Theorems about the journal. *)

(* The height of the journal in a message is the number of messages being  *)
(* run, and between transactions the journal is empty.                     *)
THEOREM JournalInductive == Spec => []KInv
<1>1. KInv /\ [Next]_vars => KInv'
  BY JournalsStep
<1> QED BY <1>1, JournalsInit, PTL DEF Spec

(* However transactions and calls end, what a call that fails leaves       *)
(* touched and warm is what was so when it was made: the journal under the *)
(* EVM is a stack of checkpoints, also where a block closes it one height  *)
(* too low.                                                                *)
THEOREM JournalRollback == Spec => JournalCheckpoints
<1>1. Init => JP!Stack!Init
  BY SameJournal, JP!InitRefines DEF Init
<1>2. KInv /\ [Next]_vars => [JP!Stack!Next]_(JP!Stack!vars)
  BY JournalsStep DEF JournalStep
<1> DEFINE S == [h \in 1..journalHeight |->
                   J!Content(J!TouchedBefore(h), J!WarmBefore(h), J!WarmSlotsBefore(h))]
           SP == [h \in 1..journalHeight |->
                   JP!Content(JP!TouchedBefore(h), JP!WarmBefore(h), JP!WarmSlotsBefore(h))]
           C == J!Content(touched, warm, warmSlots)
           CP == JP!Content(touched, warm, warmSlots)
<1>3. S = SP /\ C = CP /\ J!Item = JP!Item
  BY DEF J!Item, JP!Item, J!Content, JP!Content, J!TouchedBefore, JP!TouchedBefore,
         J!WarmBefore, JP!WarmBefore, J!WarmSlotsBefore, JP!WarmSlotsBefore,
         J!Undone, JP!Undone, J!LastBelow, JP!LastBelow, J!Max, JP!Max
<1>4. S' = SP' /\ C' = CP'
  BY DEF J!Item, JP!Item, J!Content, JP!Content, J!TouchedBefore, JP!TouchedBefore,
         J!WarmBefore, JP!WarmBefore, J!WarmSlotsBefore, JP!WarmSlotsBefore,
         J!Undone, JP!Undone, J!LastBelow, JP!LastBelow, J!Max, JP!Max
<1>5. JP!Stack!Init => J!Stack!Init
  BY <1>3 DEF J!Stack!Init, JP!Stack!Init
<1>6. [JP!Stack!Next]_(JP!Stack!vars) => [J!Stack!Next]_(J!Stack!vars)
  BY <1>3, <1>4
     DEF J!Stack!Next, JP!Stack!Next, J!Stack!vars, JP!Stack!vars,
         J!Stack!Write, JP!Stack!Write, J!Stack!Load, JP!Stack!Load,
         J!Stack!Checkpoint, JP!Stack!Checkpoint, J!Stack!Commit, JP!Stack!Commit,
         J!Stack!Revert, JP!Stack!Revert, J!Stack!Clear, JP!Stack!Clear
<1> QED BY <1>1, <1>2, <1>5, <1>6, JournalInductive, PTL
      DEF Spec, JournalCheckpoints, J!JournalCheckpoints, J!Stack!Spec

-----------------------------------------------------------------------------
(* Types, and the number of checkpoints. *)

(* The checkpoints open are that of the block, that of the transaction,    *)
(* and those of the messages that were entered.                            *)
CountOK ==
    /\ pc \in {"idle", "rooted", "flush"} => Len(roots) = 0
    /\ pc \in {"block", "rewarded", "tx"} => Len(roots) = 1
    /\ pc = "cleanup" => Len(roots) = IF ret = "commit" THEN 2 ELSE 1
    /\ pc \in {"message", "miner", "destroy", "commit"} => Len(roots) = 2
    /\ pc = "new" => Len(roots) = 1 + Len(frames)
    /\ pc \in InMessage \ {"new"} => Len(roots) = 2 + Len(frames)

OriginalsTyped == originals \in [AllSlots -> Value \cup {NotCached}]

TyInv == KInv /\ TypedState /\ CountOK /\ OriginalsTyped

TyStep == TypedState' /\ CountOK' /\ OriginalsTyped'

(* What the invariants before this one give.                               *)
LEMMA TyFacts ==
    ASSUME TyInv
    PROVE  /\ IInv /\ EInv /\ TypedState /\ pc \in Labels
           /\ ret \in {"idle", "rewarded", "tx", "commit"}
           /\ pc = "cleanup" => ret # "idle"
           /\ Len(roots) \in Nat /\ Len(frames) \in Nat
           /\ pc \in InMessage <=> Len(frames) > 0
           /\ pc \in InMessage => Self \in Address
           /\ touched \subseteq Address /\ todo \subseteq Address
<1>1. /\ IInv /\ EInv /\ TypedState /\ pc \in Labels
      /\ ret \in {"idle", "rewarded", "tx", "commit"}
      /\ pc = "cleanup" => ret # "idle"
      /\ touched \subseteq Address /\ todo \subseteq Address
  BY DEF TyInv, KInv, AInv, JournalOK, AddressesOK
<1>2. Len(frames) \in Nat /\ (pc \in InMessage <=> Len(frames) > 0)
  BY <1>1, InvFacts DEF EInv, MessagesOK
<1> QED BY <1>1, <1>2, AccountTypes, FrameFacts

(* The steps of a block.                                                   *)
LEMMA BlockTyped ==
    ASSUME TyInv,
           \/ RunBlock \/ BlockCheckpoint \/ BlockCommit \/ BlockRevert
           \/ FlushSlots \/ FlushEnd
           \/ \E a \in Withdrawers, value \in {0, 1} : Reward(a, value)
    PROVE  TyStep
<1> USE DEF Goto, InMessage, TyStep
<1>1. IInv /\ TypedState /\ CountOK /\ OriginalsTyped /\ Len(roots) \in Nat
  BY TyFacts DEF TyInv
<1>2. CASE RunBlock
  <2>1. PICK root, clearCache : StateSetRoot(root, clearCache)
    BY <1>2 DEF RunBlock
  <2>2. TypedState' /\ Len(roots') = 0
    BY <1>1, <2>1, TypedRoots
  <2> QED BY <1>1, <1>2, <2>2 DEF RunBlock, CountOK, OriginalsTyped
<1>3. CASE BlockCheckpoint
  <2>1. TypedState' /\ Len(roots') = Len(roots) + 1 /\ pc = "rooted" /\ pc' = "block"
        /\ originals' = originals
    BY <1>1, <1>3, TypedCheckpoints DEF BlockCheckpoint
  <2> QED BY <1>1, <2>1 DEF CountOK, OriginalsTyped
<1>4. CASE BlockCommit \/ BlockRevert
  <2>1. /\ StateCommit \/ StateRevert
        /\ pc \in {"block", "rewarded"} /\ pc' = "flush" /\ originals' = originals
    BY <1>4 DEF BlockCommit, BlockRevert
  <2>2. TypedState' /\ Len(roots') = Len(roots) - 1
    BY <1>1, <2>1, TypedCheckpoints
  <2> QED BY <1>1, <2>1, <2>2 DEF CountOK, OriginalsTyped
<1>5. CASE FlushSlots
  <2>1. PICK a \in Address : FlushStorage(a)
    BY <1>5 DEF FlushSlots
  <2>2. TypedState' /\ Len(roots') = 0
    BY <1>1, <2>1, TypedRoots
  <2>3. pc = "flush" /\ pc' = pc /\ originals' = originals
    BY <1>5 DEF FlushSlots, evmVars, controlVars
  <2> QED BY <1>1, <2>2, <2>3 DEF CountOK, OriginalsTyped
<1>6. CASE FlushEnd
  <2>1. TypedState' /\ Len(roots') = 0 /\ pc' = "idle" /\ originals' = NoSlots
    BY <1>1, <1>6, TypedRoots DEF FlushEnd
  <2> QED BY <1>1, <2>1 DEF CountOK, OriginalsTyped, NoSlots
<1>7. ASSUME NEW a \in Withdrawers, NEW value, Reward(a, value) PROVE TyStep
  <2>1. /\ StatePut(a, Paid(a, value)) /\ a \in Address
        /\ pc = "block" /\ pc' = "cleanup" /\ ret' = "rewarded" /\ originals' = originals
    BY <1>7, EVMAssumption DEF Reward
  <2>2. TypedState' /\ roots' = roots
    BY <1>1, <2>1, TypedAccess
  <2> QED BY <1>1, <2>1, <2>2 DEF CountOK, OriginalsTyped
<1> QED BY <1>2, <1>3, <1>4, <1>5, <1>6, <1>7

(* The steps of a transaction around its message.                          *)
LEMMA TxTyped ==
    ASSUME TyInv,
           \/ RunTx \/ TxCheckpoint \/ TxFail \/ TxCommit
           \/ Destroy \/ DestroyEnd \/ Cleanup \/ CleanupEnd
           \/ \E value \in {0, 1} : PayMiner(value)
    PROVE  TyStep
<1> USE DEF Goto, InMessage, TyStep
<1>1. /\ IInv /\ TypedState /\ CountOK /\ OriginalsTyped /\ Len(roots) \in Nat
      /\ ret \in {"idle", "rewarded", "tx", "commit"} /\ (pc = "cleanup" => ret # "idle")
      /\ todo \subseteq Address
  BY TyFacts DEF TyInv
<1>2. CASE RunTx \/ DestroyEnd
  <2>1. UNCHANGED stateVars /\ originals' = originals
    BY <1>2 DEF RunTx, DestroyEnd, evmVars
  <2>2. TypedState' /\ roots' = roots
    BY <1>1, <2>1 DEF stateVars, cacheVars, storageVars, TypedState, SlotTypeOK, Top
  <2> QED BY <1>1, <1>2, <2>1, <2>2 DEF RunTx, DestroyEnd, CountOK, OriginalsTyped
<1>3. CASE CleanupEnd
  <2>1. UNCHANGED stateVars /\ originals' \in {originals, NoSlots}
    BY <1>3 DEF CleanupEnd
  <2>2. TypedState' /\ roots' = roots
    BY <1>1, <2>1 DEF stateVars, cacheVars, storageVars, TypedState, SlotTypeOK, Top
  <2>3. OriginalsTyped'
    BY <1>1, <2>1 DEF OriginalsTyped, NoSlots
  <2>4. pc = "cleanup" /\ pc' = ret /\ ret' = ret
    BY <1>3 DEF CleanupEnd
  <2> QED BY <1>1, <2>2, <2>3, <2>4 DEF CountOK
<1>4. CASE TxCheckpoint
  <2>1. TypedState' /\ Len(roots') = Len(roots) + 1 /\ pc = "tx" /\ pc' = "message"
        /\ originals' = originals
    BY <1>1, <1>4, TypedCheckpoints DEF TxCheckpoint
  <2>2. Len(roots) = 1
    <3>1. pc \in {"block", "rewarded", "tx"} => Len(roots) = 1
      BY <1>1 DEF CountOK
    <3> QED BY <2>1, <3>1
  <2>3. Len(roots') = 2
    BY <2>1, <2>2
  <2>4. CountOK'
    BY <2>1, <2>3 DEF CountOK
  <2> QED BY <1>1, <2>1, <2>4 DEF OriginalsTyped
<1>5. CASE TxFail \/ TxCommit
  <2>1. /\ StateCommit \/ StateRevert
        /\ pc \in {"message", "commit"} /\ pc' = "block" /\ originals' = NoSlots
    BY <1>5 DEF TxFail, TxCommit
  <2>2. TypedState' /\ Len(roots') = Len(roots) - 1
    BY <1>1, <2>1, TypedCheckpoints
  <2> QED BY <1>1, <2>1, <2>2 DEF CountOK, OriginalsTyped, NoSlots
<1>6. CASE Destroy \/ Cleanup
  <2> DEFINE a == CHOOSE x \in todo : TRUE
  <2>1. todo # {}
    BY <1>6 DEF Destroy, Cleanup
  <2>2. a \in Address
    BY <1>1, <2>1
  <2>3. /\ StateDelete(a) \/ (GetAccount(a) /\ UNCHANGED storageVars)
        /\ originals' = originals /\ pc' = pc /\ ret' = ret
        /\ pc \in {"destroy", "cleanup"}
    BY <1>6 DEF Destroy, Cleanup, evmVars
  <2> HIDE DEF a
  <2>4. TypedState' /\ roots' = roots
    BY <1>1, <2>2, <2>3, TypedAccess
  <2> QED BY <1>1, <2>3, <2>4 DEF CountOK, OriginalsTyped
<1>7. ASSUME NEW value, PayMiner(value) PROVE TyStep
  <2>1. /\ StatePut(Miner, Paid(Miner, value)) /\ Miner \in Address
        /\ pc = "miner" /\ pc' = "destroy" /\ originals' = originals
    BY <1>7, EVMAssumption DEF PayMiner
  <2>2. TypedState' /\ roots' = roots
    BY <1>1, <2>1, TypedAccess
  <2> QED BY <1>1, <2>1, <2>2 DEF CountOK, OriginalsTyped
<1> QED BY <1>2, <1>3, <1>4, <1>5, <1>6, <1>7

(* Frames that are pushed, replaced or popped.                             *)
LEMMA FrameLengths ==
    ASSUME frames \in Seq(Msg), Len(frames) \in Nat
    PROVE  /\ \A f : Len(Append(frames, f)) = Len(frames) + 1
           /\ \A f, i : Len([frames EXCEPT ![i] = f]) = Len(frames)
           /\ Len(frames) > 0 => \A keep : Len(Popped(keep)) = Len(frames) - 1
<1> HIDE DEF Msg
<1>1. \A f, i : Len([frames EXCEPT ![i] = f]) = Len(frames)
  OBVIOUS
<1>2. ASSUME Len(frames) > 0, NEW keep PROVE Len(Popped(keep)) = Len(frames) - 1
  <2>1. Len(frames) - 1 \in Nat
    BY <1>2
  <2> QED BY <2>1 DEF Popped
<1> QED BY <1>1, <1>2

(* The steps of a message.                                                 *)
LEMMA MessageTyped ==
    ASSUME TyInv,
           \/ Enter \/ ExecuteCreate \/ Return \/ Throw
           \/ \E value \in {0, 1} : ExecuteCall(value)
           \/ \E a \in Address, kind \in {"call", "create"} : Message(a, kind)
           \/ \E ok \in BOOLEAN : Stop(ok)
    PROVE  TyStep
<1> USE DEF Goto, InMessage, TyStep
<1>1. /\ IInv /\ TypedState /\ CountOK /\ OriginalsTyped
      /\ Len(roots) \in Nat /\ Len(frames) \in Nat /\ frames \in Seq(Msg)
      /\ pc \in InMessage => Self \in Address /\ Len(frames) > 0
      /\ pc = "message" => Len(frames) = 0
  BY TyFacts DEF TyInv, EInv, MessagesOK
<1>2. CASE Enter
  <2>1. TypedState' /\ Len(roots') = Len(roots) + 1 /\ pc = "new" /\ pc' = "start"
        /\ originals' = originals /\ frames' = frames
    BY <1>1, <1>2, TypedCheckpoints DEF Enter
  <2> QED BY <1>1, <2>1 DEF CountOK, OriginalsTyped
<1>3. ASSUME TypedState', roots' = roots, originals' = originals,
             pc \in InMessage \ {"new"}, pc' \in InMessage \ {"new"}, Len(frames') = Len(frames)
      PROVE  TyStep
  BY <1>1, <1>3 DEF CountOK, OriginalsTyped
<1>4. ASSUME UNCHANGED stateVars PROVE TypedState' /\ roots' = roots
  BY <1>1, <1>4 DEF stateVars, cacheVars, storageVars, TypedState, SlotTypeOK, Top
<1>5. CASE ExecuteCreate
  <2>1. /\ Self \in Address /\ pc = "start" /\ pc' \in {"run", "fail"} /\ originals' = originals
        /\ StateCreate(Self) \/ (GetAccount(Self) /\ UNCHANGED storageVars)
        /\ \E f : frames' = [frames EXCEPT ![Len(frames)] = f]
    BY <1>1, <1>5 DEF ExecuteCreate
  <2>2. TypedState' /\ roots' = roots
    BY <1>1, <2>1, TypedAccess
  <2>3. Len(frames') = Len(frames)
    BY <1>1, <2>1, FrameLengths
  <2> QED BY <1>3, <2>1, <2>2, <2>3
<1>6. ASSUME NEW value, ExecuteCall(value) PROVE TyStep
  <2>1. /\ StatePut(Self, Paid(Self, value)) /\ Self \in Address
        /\ pc = "start" /\ pc' \in {"run", "halt", "fail"} /\ originals' = originals /\ frames' = frames
    BY <1>1, <1>6 DEF ExecuteCall, CallGoesTo
  <2>2. TypedState' /\ roots' = roots
    BY <1>1, <2>1, TypedAccess
  <2> QED BY <1>3, <2>1, <2>2
<1>7. ASSUME NEW ok, Stop(ok) PROVE TyStep
  <2>1. /\ UNCHANGED stateVars /\ pc \in {"run", "stop"} /\ pc' \in {"halt", "fail"}
        /\ originals' = originals /\ frames' = frames
    BY <1>7 DEF Stop
  <2> QED BY <1>3, <1>4, <2>1
<1>8. ASSUME NEW to, NEW kind, Message(to, kind) PROVE TyStep
  <2>1. originals' = originals /\ pc' = "new"
    BY <1>8 DEF Message
  <2>2. CASE pc = "message" /\ Len(frames') = 1 /\ UNCHANGED stateVars
    BY <1>1, <1>4, <2>1, <2>2 DEF CountOK, OriginalsTyped
  <2>3. CASE /\ pc = "run" /\ frames' = Append(frames, [Frame EXCEPT !.to = to, !.kind = kind])
             /\ UNCHANGED stateVars \/ StatePut(Self, Current(Self))
    <3>1. TypedState' /\ roots' = roots
      BY <1>1, <1>4, <2>3, TypedAccess
    <3>2. Len(frames') = Len(frames) + 1
      BY <1>1, <2>3, FrameLengths
    <3> QED BY <1>1, <2>1, <2>3, <3>1, <3>2 DEF CountOK, OriginalsTyped
  <2> QED BY <1>8, <2>2, <2>3 DEF Message
<1>9. CASE Return \/ Throw
  <2>1. /\ StateCommit \/ StateRevert
        /\ pc \in {"halt", "fail"} /\ pc' = (IF Outermost THEN "miner" ELSE "run")
        /\ originals' = originals /\ \E keep : frames' = Popped(keep)
    BY <1>9 DEF Return, Throw
  <2>2. TypedState' /\ Len(roots') = Len(roots) - 1
    BY <1>1, <2>1, TypedCheckpoints
  <2>3. Len(frames) > 0 /\ Len(frames') = Len(frames) - 1
    BY <1>1, <2>1, FrameLengths
  <2>4. Len(roots) = 2 + Len(frames)
    BY <1>1, <2>1 DEF CountOK
  <2>5. Len(roots') = 2 + Len(frames')
    BY <1>1, <2>2, <2>3, <2>4
  <2>6. IF Len(frames) = 1 THEN pc' = "miner" ELSE pc' = "run"
    BY <2>1 DEF Outermost
  <2>7. CountOK'
    <3>1. CASE Len(frames) = 1
      <4>1. Len(roots') = 2 /\ pc' = "miner"
        BY <2>3, <2>5, <2>6, <3>1
      <4> QED BY <4>1 DEF CountOK
    <3>2. CASE Len(frames) # 1
      <4>1. Len(roots') = 2 + Len(frames') /\ pc' = "run"
        BY <2>5, <2>6, <3>2
      <4> QED BY <4>1 DEF CountOK
    <3> QED BY <3>1, <3>2
  <2> QED BY <1>1, <2>1, <2>2, <2>7 DEF OriginalsTyped
<1> QED BY <1>2, <1>5, <1>6, <1>7, <1>8, <1>9

(* The steps of a contract's code.                                         *)
LEMMA CodeTyped ==
    ASSUME TyInv,
           \/ \E k \in Slot : SLoad(k)
           \/ \E k \in Slot, v \in Value : SStore(k, v) \/ TStore(k, v)
           \/ \E to \in Address, value \in {0, 1} : SelfDestruct(to, value)
    PROVE  TyStep
<1> USE DEF Goto, InMessage, TyStep
<1>1. /\ IInv /\ TypedState /\ CountOK /\ OriginalsTyped
      /\ Len(roots) \in Nat /\ Len(frames) \in Nat /\ frames \in Seq(Msg)
      /\ pc = "run" /\ Self \in Address
  <2>1. pc = "run"
    BY DEF SLoad, SStore, TStore, SelfDestruct, Operation
  <2> QED BY <2>1, TyFacts DEF TyInv, EInv, MessagesOK
<1>2. ASSUME TypedState', roots' = roots, OriginalsTyped', pc' \in {"run", "stop"},
             Len(frames') = Len(frames)
      PROVE  TyStep
  BY <1>1, <1>2 DEF CountOK
<1>3. ASSUME UNCHANGED stateVars PROVE TypedState' /\ roots' = roots
  BY <1>1, <1>3 DEF stateVars, cacheVars, storageVars, TypedState, SlotTypeOK, Top
<1>4. ASSUME NEW k \in Slot, SLoad(k) PROVE TyStep
  <2>1. GetStorage(Self, k) /\ originals' = originals /\ frames' = frames /\ pc' = pc
    BY <1>4 DEF SLoad
  <2>2. TypedState' /\ roots' = roots
    BY <1>1, <2>1, TypedAccess
  <2> QED BY <1>1, <1>2, <2>1, <2>2 DEF OriginalsTyped
<1>5. ASSUME NEW k \in Slot, NEW v \in Value, SStore(k, v) PROVE TyStep
  <2>1. /\ PutStorage(Self, k, v) /\ frames' = frames /\ pc' = pc
        /\ originals' = [originals EXCEPT ![<<Self, k>>] =
                            IF @ = NotCached THEN StorageOf(Self, k) ELSE @]
    BY <1>5 DEF SStore
  <2>2. TypedState' /\ roots' = roots
    BY <1>1, <2>1, TypedAccess
  <2>3. StorageOf(Self, k) \in Value
    BY <1>1, TypedFacts
  <2>4. OriginalsTyped'
    BY <1>1, <2>1, <2>3 DEF OriginalsTyped, AllSlots
  <2> QED BY <1>1, <1>2, <2>1, <2>2, <2>4
<1>6. ASSUME NEW k, NEW v, TStore(k, v) PROVE TyStep
  <2>1. UNCHANGED stateVars /\ originals' = originals /\ frames' = frames /\ pc' = pc
    BY <1>6 DEF TStore
  <2> QED BY <1>1, <1>2, <1>3, <2>1 DEF OriginalsTyped
<1>7. ASSUME NEW to \in Address, NEW value, SelfDestruct(to, value) PROVE TyStep
  <2>1. /\ UNCHANGED stateVars \/ StatePut(to, Paid(to, value))
        /\ originals' = originals /\ pc' = "stop"
        /\ \E f : frames' = [frames EXCEPT ![Len(frames)] = f]
    BY <1>7 DEF SelfDestruct
  <2>2. TypedState' /\ roots' = roots
    BY <1>1, <1>3, <2>1, TypedAccess
  <2>3. Len(frames') = Len(frames)
    BY <1>1, <2>1, FrameLengths
  <2> QED BY <1>1, <1>2, <2>1, <2>2, <2>3 DEF OriginalsTyped
<1> QED BY <1>4, <1>5, <1>6, <1>7

(* Every step keeps the types and the number of checkpoints.               *)
LEMMA TypesStep ==
    ASSUME TyInv, [Next]_vars
    PROVE  TyInv'
<1>1. KInv'
  BY JournalsStep DEF TyInv
<1>2. CASE UNCHANGED vars
  <2>1. TypedState' /\ CountOK' /\ OriginalsTyped'
    BY <1>2 DEF TyInv, vars, stateVars, cacheVars, storageVars, evmVars, controlVars,
                TypedState, SlotTypeOK, Top, CountOK, OriginalsTyped
  <2> QED BY <1>1, <2>1 DEF TyInv
<1>3. CASE Next
  <2>1. TyStep
    BY <1>3, BlockTyped, TxTyped, MessageTyped, CodeTyped DEF Next
  <2> QED BY <1>1, <2>1 DEF TyStep, TyInv
<1> QED BY <1>2, <1>3

(* Before the first block all types hold. *)
LEMMA TypesInit == Init => TyInv
<1> SUFFICES ASSUME Init PROVE TyInv
  OBVIOUS
<1>1. KInv /\ StateInit /\ pc = "idle" /\ originals = NoSlots
  BY JournalsInit DEF Init
<1>2. /\ roots = <<>> /\ slots = NoSlots /\ slotDiff = <<NoSlotDiff>>
      /\ storageTries = NoStorageTries /\ diffCache = <<NoDiff>>
  BY <1>1 DEF StateInit, CacheInit
<1>3. slotDiff \in Seq(SlotDiffMap) /\ Len(slotDiff) = 1
  <2> HIDE DEF SlotDiffMap
  <2> QED BY <1>2, NoSlotDiffType
<1>4. TypedState
  BY <1>2, <1>3 DEF TypedState, SlotTypeOK, Top, NoSlots, NoStorageTries
<1>5. CountOK /\ OriginalsTyped
  BY <1>1, <1>2 DEF CountOK, OriginalsTyped, NoSlots, InMessage
<1> QED BY <1>1, <1>4, <1>5 DEF TyInv

(* The types are those the runs check.                                     *)
LEMMA TypesHold == TyInv => TypeOK
<1> SUFFICES ASSUME TyInv PROVE TypeOK
  OBVIOUS
<1>1. StateTypeOK /\ originals \in [AllSlots -> Value \cup {NotCached}] /\ todo \subseteq Address
  BY TyFacts, TypedFacts DEF TyInv, OriginalsTyped
<1>2. J!TypeOK
  <2>1. JP!TypeOK
    BY DEF TyInv, KInv, JournalOK, JP!IInv
  <2> QED BY <2>1, SameJournal
<1>3. T!TypeOK
  <2>1. TP!TypeOK
    BY TyFacts DEF EInv, TP!IInv
  <2>2. T!TypeOK <=> TP!TypeOK
    BY DEF T!TypeOK, TP!TypeOK, T!AllSlots, TP!AllSlots, T!Change, TP!Change
  <2> QED BY <2>1, <2>2
<1>4. CheckpointCount =
          CASE pc \in {"idle", "rooted", "flush"} -> 0
            [] pc = "block" \/ pc = "rewarded" \/ pc = "tx" -> 1
            [] pc = "cleanup" -> IF ret = "commit" THEN 2 ELSE 1
            [] pc = "new" -> 1 + Len(frames)
            [] OTHER -> 2 + Len(frames)
  <2>1. CountOK /\ CheckpointCount = Len(roots) /\ pc \in Labels /\ Len(frames) \in Nat
        /\ (pc \notin InMessage => Len(frames) = 0)
    BY TyFacts, AccountTypes DEF TyInv
  <2>2. CASE pc \in {"idle", "rooted", "flush", "block", "rewarded", "tx", "cleanup", "new"}
    BY <2>1, <2>2 DEF CountOK
  <2>3. CASE pc \in {"message", "miner", "destroy", "commit"}
    <3>1. Len(roots) = 2 /\ Len(frames) = 0
      BY <2>1, <2>3 DEF CountOK, InMessage
    <3> QED BY <2>1, <2>3, <3>1
  <2>4. CASE pc \in InMessage \ {"new"}
    BY <2>1, <2>4 DEF CountOK, InMessage
  <2> QED BY <2>1, <2>2, <2>3, <2>4 DEF Labels, InMessage
<1> QED BY <1>1, <1>2, <1>3, <1>4 DEF TypeOK

(* The state, the journal, the transient storage and the original values   *)
(* keep their types, and the open checkpoints are always those of the      *)
(* block, the transaction and the messages being run.                      *)
THEOREM TypeCorrectEVM == Spec => []TypeOK
<1>1. TyInv /\ [Next]_vars => TyInv'
  BY TypesStep
<1> QED BY <1>1, TypesInit, TypesHold, PTL DEF Spec

-----------------------------------------------------------------------------
(* No block leaves an empty account. *)

(* An account that a block has to delete before it ends.                   *)
Void(account) == account # NoAccount /\ account.data = "empty"
VoidIn(S) == \A a \in Address : Void(Current(a)) => a \in S

(* What a checkpoint would bring back that is empty was touched when the   *)
(* checkpoint was made.  Those of block and transaction found none.        *)
TouchedVoid ==
    \A i \in 1..Len(roots), a \in Address :
        Void(SavedAccount(i, a)) => i > 2 /\ a \in JP!TouchedBefore(i - 1)

(* Within a message and after it, what is empty is touched, and while      *)
(* cleanup runs it is on its list; at other times nothing is.              *)
InTouch == {"message", "miner", "destroy"} \cup InMessage

EmptyOK ==
    /\ pc \in {"idle", "rooted", "block", "rewarded", "tx", "flush", "commit"} => VoidIn({})
    /\ pc = "cleanup" => VoidIn(todo)
    /\ pc \in InTouch => VoidIn(touched)
    /\ TouchedVoid
    /\ pc \in {"idle", "rooted"} => diffCache = <<NoDiff>>

NInv == TyInv /\ EmptyOK

(* In a message the journal has a height for each checkpoint but that of   *)
(* the block.                                                              *)
LEMMA HeightFacts ==
    ASSUME TyInv
    PROVE  /\ pc \in {"message"} \cup InMessage =>
                  JP!IInv /\ journalHeight = Len(roots) - 1 /\ journalHeight \in Nat
           /\ pc \notin {"idle", "flush"} => JP!IInv
           /\ Len(roots) \in Nat
<1>1. /\ CountOK /\ EInv /\ JournalOK /\ pc \in Labels /\ Len(roots) \in Nat /\ Len(frames) \in Nat
  BY TyFacts DEF TyInv, KInv
<1>2. /\ pc = "message" => journalHeight = 1
      /\ pc \in InMessage => journalHeight = Len(indices)
      /\ pc \notin {"idle", "flush"} => JP!IInv
  BY <1>1 DEF JournalOK
<1>3. Len(indices) = IF pc = "new" THEN Len(frames) ELSE Len(frames) + 1
  BY <1>1 DEF EInv, MessagesOK
<1>4. /\ pc = "message" => Len(roots) = 2
      /\ pc = "new" => Len(roots) = 1 + Len(frames)
      /\ pc \in InMessage \ {"new"} => Len(roots) = 2 + Len(frames)
  BY <1>1 DEF CountOK
<1>5. pc = "message" => journalHeight = Len(roots) - 1 /\ journalHeight \in Nat
  BY <1>2, <1>4
<1>6. pc = "new" => journalHeight = Len(roots) - 1 /\ journalHeight \in Nat
  BY <1>1, <1>2, <1>3, <1>4 DEF InMessage
<1>7. pc \in InMessage \ {"new"} => journalHeight = Len(roots) - 1 /\ journalHeight \in Nat
  BY <1>1, <1>2, <1>3, <1>4
<1>8. pc \in {"message"} \cup InMessage => JP!IInv
  BY <1>2 DEF InMessage
<1> QED BY <1>1, <1>2, <1>5, <1>6, <1>7, <1>8

(* Records of the journal, under the names of the EVM.                     *)
LEMMA TouchesMove ==
    ASSUME TyInv, pc \notin {"idle", "flush"}
    PROVE  /\ \A S, A \in SUBSET Address, W \in SUBSET (Address \X Slot) : J!Record(S, A, W) =>
                  /\ touched' = touched \cup S
                  /\ \A h \in 1..journalHeight : JP!TouchedBefore(h) \subseteq JP!TouchedBefore(h)'
           /\ J!Checkpoint =>
                  /\ touched' = touched
                  /\ \A h \in 1..journalHeight : JP!TouchedBefore(h) \subseteq JP!TouchedBefore(h)'
                  /\ \A h : h = journalHeight + 1 => JP!TouchedBefore(h)' = touched
           /\ journalHeight > 0 /\ J!Commit =>
                  /\ touched' = touched
                  /\ \A h \in 1..(journalHeight - 1) : JP!TouchedBefore(h) \subseteq JP!TouchedBefore(h)'
           /\ journalHeight > 0 /\ J!Revert =>
                  /\ \A h : h = journalHeight => JP!TouchedBefore(h) \subseteq touched'
                  /\ \A h \in 1..(journalHeight - 1) : JP!TouchedBefore(h) \subseteq JP!TouchedBefore(h)'
           /\ UNCHANGED journalVars =>
                  /\ touched' = touched
                  /\ \A h : JP!TouchedBefore(h)' = JP!TouchedBefore(h)
<1>1. JP!IInv
  BY HeightFacts
<1>2. UNCHANGED journalVars =>
          /\ touched' = touched
          /\ \A h : JP!TouchedBefore(h)' = JP!TouchedBefore(h)
  BY DEF journalVars, JP!TouchedBefore, JP!Undone, JP!LastBelow, JP!Max
<1>3. /\ \A S, A \in SUBSET Address, W \in SUBSET (Address \X Slot) : JP!Record(S, A, W) =>
             /\ touched' = touched \cup S
             /\ \A h \in 1..journalHeight : JP!TouchedBefore(h) \subseteq JP!TouchedBefore(h)'
      /\ JP!Checkpoint =>
             /\ touched' = touched
             /\ \A h \in 1..journalHeight : JP!TouchedBefore(h) \subseteq JP!TouchedBefore(h)'
             /\ \A h : h = journalHeight + 1 => JP!TouchedBefore(h)' = touched
      /\ journalHeight > 0 /\ JP!Commit =>
             /\ touched' = touched
             /\ \A h \in 1..(journalHeight - 1) : JP!TouchedBefore(h) \subseteq JP!TouchedBefore(h)'
      /\ journalHeight > 0 /\ JP!Revert =>
             /\ \A h : h = journalHeight => JP!TouchedBefore(h) \subseteq touched'
             /\ \A h \in 1..(journalHeight - 1) : JP!TouchedBefore(h) \subseteq JP!TouchedBefore(h)'
  BY <1>1, JP!TouchedFacts, Zenon
<1>4. /\ \A S, A, W : J!Record(S, A, W) <=> JP!Record(S, A, W)
      /\ J!Checkpoint <=> JP!Checkpoint
      /\ J!Commit <=> JP!Commit
      /\ J!Revert <=> JP!Revert
  BY SameJournal
<1>5. ASSUME NEW S \in SUBSET Address, NEW A \in SUBSET Address,
             NEW W \in SUBSET (Address \X Slot), J!Record(S, A, W)
      PROVE  /\ touched' = touched \cup S
             /\ \A h \in 1..journalHeight : JP!TouchedBefore(h) \subseteq JP!TouchedBefore(h)'
  <2>1. JP!Record(S, A, W)
    BY <1>4, <1>5, Zenon
  <2> QED BY <1>3, <2>1, Zenon
<1>6. /\ J!Checkpoint =>
             /\ touched' = touched
             /\ \A h \in 1..journalHeight : JP!TouchedBefore(h) \subseteq JP!TouchedBefore(h)'
             /\ \A h : h = journalHeight + 1 => JP!TouchedBefore(h)' = touched
  BY <1>3, <1>4, Zenon
<1>7. journalHeight > 0 /\ J!Commit =>
             /\ touched' = touched
             /\ \A h \in 1..(journalHeight - 1) : JP!TouchedBefore(h) \subseteq JP!TouchedBefore(h)'
  BY <1>3, <1>4, Zenon
<1>8. journalHeight > 0 /\ J!Revert =>
             /\ \A h : h = journalHeight => JP!TouchedBefore(h) \subseteq touched'
             /\ \A h \in 1..(journalHeight - 1) : JP!TouchedBefore(h) \subseteq JP!TouchedBefore(h)'
  BY <1>3, <1>4, Zenon
<1>9. QED
  BY <1>2, <1>5, <1>6, <1>7, <1>8

(* A step that closes and opens no checkpoint, and forgets no touch.       *)
LEMMA SavedVoids ==
    ASSUME TouchedVoid, Len(roots) \in Nat, roots' = roots, SavedKept(Len(roots)),
           \A h \in 2..(Len(roots) - 1) : JP!TouchedBefore(h) \subseteq JP!TouchedBefore(h)'
    PROVE  TouchedVoid'
<1> SUFFICES ASSUME NEW i \in 1..Len(roots), NEW a \in Address, Void(SavedAccount(i, a)')
             PROVE  i > 2 /\ a \in JP!TouchedBefore(i - 1)'
  BY DEF TouchedVoid, Void
<1>1. i > 2 /\ a \in JP!TouchedBefore(i - 1)
  BY DEF TouchedVoid, SavedKept
<1>2. i - 1 \in 2..(Len(roots) - 1)
  BY <1>1
<1> DEFINE h == i - 1
<1>3. h \in 2..(Len(roots) - 1) /\ a \in JP!TouchedBefore(h)
  BY <1>1, <1>2
<1> HIDE DEF h
<1>4. a \in JP!TouchedBefore(h)'
  BY <1>3
<1> QED BY <1>1, <1>4 DEF h

(* A step within a transaction that makes empty only what it touches.      *)
LEMMA WriteVoids ==
    ASSUME NInv, pc \in InTouch, pc' \in InTouch, roots' = roots, SavedKept(Len(roots)),
           \A a \in Address : Void(Current(a)') => Void(Current(a)) \/ a \in touched',
           touched \subseteq touched',
           \A h \in 1..journalHeight : JP!TouchedBefore(h) \subseteq JP!TouchedBefore(h)'
    PROVE  EmptyOK'
<1>1. /\ Len(roots) \in Nat /\ TouchedVoid /\ VoidIn(touched)
      /\ pc \in {"message"} \cup InMessage => journalHeight = Len(roots) - 1
  BY HeightFacts DEF NInv, EmptyOK
<1>2. VoidIn(touched)'
  BY <1>1 DEF VoidIn, Void
<1>3. \A h \in 2..(Len(roots) - 1) : JP!TouchedBefore(h) \subseteq JP!TouchedBefore(h)'
  <2>1. CASE pc \in {"message"} \cup InMessage
    BY <1>1, <2>1
  <2>2. CASE pc \in {"miner", "destroy"}
    <3>1. Len(roots) = 2
      BY <2>2 DEF NInv, TyInv, CountOK
    <3>2. \A h \in 2..(2 - 1) : FALSE
      OBVIOUS
    <3> QED BY <3>1, <3>2
  <2> QED BY <2>1, <2>2 DEF InTouch
<1>4. TouchedVoid'
  BY <1>1, <1>3, SavedVoids
<1> QED BY <1>2, <1>4 DEF EmptyOK, InTouch, InMessage

(* An account that is paid nothing may be empty.                           *)
LEMMA PutVoids ==
    ASSUME IInv, NEW b \in Address, NEW account \in Stored, CachePut(b, account)
    PROVE  /\ roots' = roots /\ SavedKept(Len(roots))
           /\ \A a \in Address : Void(Current(a)') => a = b \/ Void(Current(a))
           /\ Void(Current(b)') => Void(account)
<1>1. /\ roots' = roots /\ SavedKept(Len(roots))
      /\ Current(b)' = account /\ CurrentKept(Address \ {b})
  BY AccountPut
<1> QED BY <1>1 DEF CurrentKept

(* A read leaves what is empty as it was.                                  *)
LEMMA GetVoids ==
    ASSUME IInv, NEW b \in Address, GetAccount(b) \/ UNCHANGED cacheVars
    PROVE  /\ roots' = roots /\ SavedKept(Len(roots))
           /\ \A a \in Address : Void(Current(a)') => Void(Current(a))
<1>1. CASE GetAccount(b)
  BY <1>1, AccountGet DEF CurrentKept
<1>2. CASE UNCHANGED cacheVars
  BY <1>2 DEF cacheVars, SavedKept, SavedAccount, Current
<1> QED BY <1>1, <1>2

(* What the contract's code, the end of a transaction and the start of a   *)
(* message write.                                                          *)
LEMMA CodeVoids ==
    ASSUME NInv,
           \/ \E k \in Slot : SLoad(k)
           \/ \E k \in Slot, v \in Value : SStore(k, v) \/ TStore(k, v)
           \/ \E to \in Address, value \in {0, 1} : SelfDestruct(to, value)
    PROVE  EmptyOK'
<1> USE DEF Goto
<1>1. /\ IInv /\ pc = "run" /\ pc \in InTouch /\ Self \in Address
      /\ {"run", "stop"} \subseteq InTouch
  <2>1. pc = "run"
    BY DEF SLoad, SStore, TStore, SelfDestruct, Operation
  <2> QED BY <2>1, TyFacts DEF NInv, InTouch, InMessage
<1>2. TyInv /\ pc \notin {"idle", "flush"}
  BY <1>1 DEF NInv
<1>3. ASSUME NEW S \in SUBSET Address, NEW A \in SUBSET Address,
             NEW W \in SUBSET (Address \X Slot), J!Record(S, A, W) \/ UNCHANGED journalVars,
             pc' \in {"run", "stop"}, roots' = roots, SavedKept(Len(roots)),
             \A a \in Address : Void(Current(a)') => Void(Current(a)) \/ a \in touched'
      PROVE  EmptyOK'
  <2>1. /\ touched \subseteq touched'
        /\ \A h \in 1..journalHeight : JP!TouchedBefore(h) \subseteq JP!TouchedBefore(h)'
    BY <1>2, <1>3, TouchesMove
  <2> QED BY <1>1, <1>3, <2>1, WriteVoids
<1>4. ASSUME NEW k \in Slot, NEW v, SLoad(k) \/ SStore(k, v) PROVE EmptyOK'
  <2>1. /\ GetAccount(Self) /\ pc' = pc /\ J!Record({}, {}, {<<Self, k>>})
    BY <1>4 DEF SLoad, SStore, GetStorage, PutStorage
  <2>2. /\ roots' = roots /\ SavedKept(Len(roots))
        /\ \A a \in Address : Void(Current(a)') => Void(Current(a))
    BY <1>1, <2>1, GetVoids
  <2>3. {} \in SUBSET Address /\ {<<Self, k>>} \in SUBSET (Address \X Slot)
    BY <1>1
  <2> QED BY <1>1, <1>3, <2>1, <2>2, <2>3
<1>5. ASSUME NEW k, NEW v, TStore(k, v) PROVE EmptyOK'
  <2>1. UNCHANGED cacheVars /\ pc' = pc /\ UNCHANGED journalVars
    BY <1>5 DEF TStore, stateVars
  <2>2. /\ roots' = roots /\ SavedKept(Len(roots))
        /\ \A a \in Address : Void(Current(a)') => Void(Current(a))
    BY <1>1, <2>1, GetVoids
  <2>3. {} \in SUBSET Address /\ {} \in SUBSET (Address \X Slot)
    OBVIOUS
  <2> QED BY <1>1, <1>3, <2>1, <2>2, <2>3
<1>6. ASSUME NEW to \in Address, NEW value, SelfDestruct(to, value) PROVE EmptyOK'
  <2>1. /\ IF to = Self THEN UNCHANGED stateVars ELSE StatePut(to, Paid(to, value))
        /\ J!Record({to} \ {Self}, {to}, {}) /\ pc' = "stop"
    BY <1>6 DEF SelfDestruct
  <2>2. {to} \ {Self} \in SUBSET Address /\ {to} \in SUBSET Address /\ {} \in SUBSET (Address \X Slot)
    OBVIOUS
  <2>3. touched' = touched \cup ({to} \ {Self})
    BY <1>2, <2>1, <2>2, TouchesMove
  <2>4. CASE to = Self
    <3>1. UNCHANGED cacheVars
      BY <2>1, <2>4 DEF stateVars
    <3>2. /\ roots' = roots /\ SavedKept(Len(roots))
          /\ \A a \in Address : Void(Current(a)') => Void(Current(a))
      BY <1>1, <3>1, GetVoids
    <3> QED BY <1>3, <2>1, <2>2, <3>2
  <2>5. CASE to # Self
    <3>1. Paid(to, value) \in Stored /\ CachePut(to, Paid(to, value))
      BY <2>1, <2>5 DEF StatePut, PutAccount, Stored
    <3>2. /\ roots' = roots /\ SavedKept(Len(roots))
          /\ \A a \in Address : Void(Current(a)') => a = to \/ Void(Current(a))
      BY <1>1, <3>1, PutVoids
    <3>3. to \in touched'
      BY <2>3, <2>5
    <3> QED BY <1>3, <2>1, <2>2, <3>2, <3>3
  <2> QED BY <2>4, <2>5
<1> QED BY <1>4, <1>5, <1>6

(* A message begins, runs and ends.                                        *)
LEMMA MessageVoids ==
    ASSUME NInv,
           \/ ExecuteCreate
           \/ \E value \in {0, 1} : ExecuteCall(value)
           \/ \E a \in Address, kind \in {"call", "create"} : Message(a, kind)
           \/ \E ok \in BOOLEAN : Stop(ok)
    PROVE  EmptyOK'
<1> USE DEF Goto
<1>1. /\ TyInv /\ IInv /\ pc \in {"message"} \cup InMessage
      /\ pc \in InMessage => Self \in Address
  <2>1. pc \in {"message"} \cup InMessage
    BY DEF ExecuteCreate, ExecuteCall, Message, Stop, InMessage
  <2> QED BY <2>1, TyFacts DEF NInv
<1>2. pc \notin {"idle", "flush"} /\ pc \in InTouch /\ InMessage \subseteq InTouch
  BY <1>1 DEF InTouch, InMessage
<1>3. ASSUME NEW S \in SUBSET Address, NEW A \in SUBSET Address,
             NEW W \in SUBSET (Address \X Slot), J!Record(S, A, W) \/ UNCHANGED journalVars,
             pc' \in InMessage, roots' = roots, SavedKept(Len(roots)),
             \A a \in Address : Void(Current(a)') => Void(Current(a)) \/ a \in touched'
      PROVE  EmptyOK'
  <2>1. /\ touched \subseteq touched'
        /\ \A h \in 1..journalHeight : JP!TouchedBefore(h) \subseteq JP!TouchedBefore(h)'
    BY <1>1, <1>2, <1>3, TouchesMove
  <2> QED BY <1>2, <1>3, <2>1, WriteVoids
<1>4. {} \in SUBSET Address /\ {} \in SUBSET (Address \X Slot)
  OBVIOUS
<1>5. CASE ExecuteCreate
  <2>1. /\ pc = "start" /\ pc' \in {"run", "fail"} /\ Self \in Address
    BY <1>1, <1>5 DEF ExecuteCreate, InMessage
  <2>2. pc' \in InMessage
    BY <2>1 DEF InMessage
  <2>3. CASE GetAccount(Self) /\ UNCHANGED journalVars
    <3>1. /\ roots' = roots /\ SavedKept(Len(roots))
          /\ \A a \in Address : Void(Current(a)') => Void(Current(a))
      BY <1>1, <2>1, <2>3, GetVoids
    <3> QED BY <1>3, <1>4, <2>2, <2>3, <3>1
  <2>4. CASE StateCreate(Self) /\ J!Record({Self}, {}, {})
    <3> DEFINE made == [data |-> "contract", storageRoot |-> EmptyTrie]
    <3>1. made \in Stored /\ ~ Void(made)
      <4>1. EmptyTrie \in StorageRoot
        BY StateAssumption DEF EmptyTrie, StorageRoot
      <4> QED BY <4>1, StateAssumption DEF Stored, Void
    <3>2. CachePut(Self, made)
      BY <2>4 DEF StateCreate
    <3> HIDE DEF made
    <3>3. /\ roots' = roots /\ SavedKept(Len(roots))
          /\ \A a \in Address : Void(Current(a)') => a = Self \/ Void(Current(a))
          /\ \A b : b = Self => (Void(Current(b)') => Void(made))
      <4>1. PICK b \in Address : b = Self
        BY <2>1
      <4>2. CachePut(b, made)
        BY <3>2, <4>1
      <4>3. /\ roots' = roots /\ SavedKept(Len(roots))
            /\ \A a \in Address : Void(Current(a)') => a = b \/ Void(Current(a))
            /\ Void(Current(b)') => Void(made)
        BY <1>1, <3>1, <4>2, PutVoids
      <4> QED BY <4>1, <4>3
    <3>4. \A a \in Address : Void(Current(a)') => Void(Current(a))
      BY <3>1, <3>3
    <3>5. {Self} \in SUBSET Address
      BY <2>1
    <3> QED BY <1>3, <1>4, <2>2, <2>4, <3>3, <3>4, <3>5
  <2> QED BY <1>5, <2>3, <2>4 DEF ExecuteCreate
<1>6. ASSUME NEW value, ExecuteCall(value) PROVE EmptyOK'
  <2>1. /\ pc = "start" /\ pc' \in {"run", "halt", "fail"} /\ Self \in Address
        /\ StatePut(Self, Paid(Self, value)) /\ J!Record({Self}, {}, {})
    BY <1>1, <1>6 DEF ExecuteCall, CallGoesTo, InMessage
  <2>2. pc' \in InMessage /\ {Self} \in SUBSET Address
    BY <2>1 DEF InMessage
  <2>3. Paid(Self, value) \in Stored /\ CachePut(Self, Paid(Self, value))
    BY <2>1 DEF StatePut, PutAccount, Stored
  <2>4. /\ roots' = roots /\ SavedKept(Len(roots))
        /\ \A a \in Address : Void(Current(a)') => a = Self \/ Void(Current(a))
    BY <1>1, <2>1, <2>3, PutVoids
  <2>5. Self \in touched'
    BY <1>1, <1>2, <1>4, <2>1, <2>2, TouchesMove
  <2> QED BY <1>3, <1>4, <2>1, <2>2, <2>4, <2>5
<1>7. ASSUME NEW to \in Address, NEW kind, Message(to, kind) PROVE EmptyOK'
  <2>1. pc' = "new" /\ pc' \in InMessage
    BY <1>7 DEF Message, InMessage
  <2>2. \E A \in SUBSET Address : J!Record({}, A, {})
    <3>1. \E A \in {{}, {to}} : J!Record({}, A, {})
      BY <1>7 DEF Message
    <3> QED BY <3>1
  <2>3. CASE UNCHANGED stateVars
    <3>1. UNCHANGED cacheVars /\ Miner \in Address
      BY <2>3, EVMAssumption DEF stateVars
    <3>2. /\ roots' = roots /\ SavedKept(Len(roots))
          /\ \A a \in Address : Void(Current(a)') => Void(Current(a))
      BY <1>1, <3>1, GetVoids
    <3> QED BY <1>3, <1>4, <2>1, <2>2, <3>2
  <2>4. CASE pc = "run" /\ StatePut(Self, Current(Self))
    <3>1. /\ Self \in Address /\ Current(Self) \in Stored /\ CachePut(Self, Current(Self))
      BY <1>1, <2>4 DEF InMessage, StatePut, PutAccount, Stored
    <3>2. /\ roots' = roots /\ SavedKept(Len(roots))
          /\ \A a \in Address : Void(Current(a)') => Void(Current(a))
      <4>1. PICK b \in Address : b = Self
        BY <3>1
      <4>2. CachePut(b, Current(b)) /\ Current(b) \in Stored
        BY <3>1, <4>1
      <4>3. /\ roots' = roots /\ SavedKept(Len(roots))
            /\ \A a \in Address : Void(Current(a)') => a = b \/ Void(Current(a))
            /\ Void(Current(b)') => Void(Current(b))
        BY <1>1, <4>2, PutVoids
      <4> QED BY <4>3
    <3> QED BY <1>3, <1>4, <2>1, <2>2, <3>2
  <2> QED BY <1>7, <2>3, <2>4 DEF Message
<1>8. ASSUME NEW ok, Stop(ok) PROVE EmptyOK'
  <2>1. UNCHANGED cacheVars /\ UNCHANGED journalVars /\ pc' \in {"halt", "fail"}
        /\ Miner \in Address
    BY <1>8, EVMAssumption DEF Stop, stateVars
  <2>2. /\ roots' = roots /\ SavedKept(Len(roots))
        /\ \A a \in Address : Void(Current(a)') => Void(Current(a))
    BY <1>1, <2>1, GetVoids
  <2>3. pc' \in InMessage
    BY <2>1 DEF InMessage
  <2> QED BY <1>3, <1>4, <2>1, <2>2, <2>3
<1> QED BY <1>5, <1>6, <1>7, <1>8

(* A checkpoint is made.                                                   *)
LEMMA OpenVoids ==
    ASSUME NInv, Enter \/ TxCheckpoint \/ BlockCheckpoint
    PROVE  EmptyOK'
<1> USE DEF Goto
<1>1. /\ TyInv /\ IInv /\ TouchedVoid /\ Len(roots) \in Nat /\ Len(frames) \in Nat
      /\ pc = "new" => journalHeight = Len(roots) - 1 /\ Len(roots) > 1 /\ VoidIn(touched)
      /\ pc \in {"tx", "rooted"} => Len(roots) < 2 /\ VoidIn({})
  <2>1. TyInv /\ IInv /\ TouchedVoid /\ Len(roots) \in Nat /\ Len(frames) \in Nat /\ CountOK
    BY TyFacts DEF NInv, EmptyOK, TyInv
  <2>2. pc = "new" => journalHeight = Len(roots) - 1 /\ VoidIn(touched)
    BY <2>1, HeightFacts DEF NInv, EmptyOK, InTouch, InMessage
  <2>3. pc \in {"tx", "rooted"} => Len(roots) < 2 /\ VoidIn({})
    <3>1. /\ pc = "tx" => Len(roots) = 1
          /\ pc = "rooted" => Len(roots) = 0
      BY <2>1 DEF CountOK
    <3>2. pc \in {"tx", "rooted"} => VoidIn({})
      BY DEF NInv, EmptyOK
    <3> HIDE DEF VoidIn
    <3> QED BY <3>1, <3>2
  <2>4. pc = "new" => Len(roots) > 1
    <3>1. pc = "new" => Len(roots) = 1 + Len(frames) /\ Len(frames) > 0
      BY <2>1, TyFacts DEF CountOK, InMessage
    <3> QED BY <2>1, <3>1
  <2> QED BY <2>1, <2>2, <2>3, <2>4
<1>2. /\ pc \in {"new", "tx", "rooted"} /\ Checkpoint /\ J!Checkpoint
      /\ pc = "new" => pc' = "start"
      /\ pc = "tx" => pc' = "message"
      /\ pc = "rooted" => pc' = "block"
  BY DEF Enter, TxCheckpoint, BlockCheckpoint, StateCheckpoint
<1>3. /\ Len(roots') = Len(roots) + 1
      /\ \A a \in Address : Current(a)' = Current(a)
      /\ \A i \in 1..Len(roots), a \in Address : SavedAccount(i, a)' = SavedAccount(i, a)
      /\ \A n, a : n = Len(roots) + 1 /\ a \in Address => SavedAccount(n, a)' = Current(a)
  BY <1>1, <1>2, AccountCheckpoint DEF CurrentKept, SavedKept
<1>4. /\ touched' = touched
      /\ \A h \in 1..journalHeight : JP!TouchedBefore(h) \subseteq JP!TouchedBefore(h)'
      /\ \A h : h = journalHeight + 1 => JP!TouchedBefore(h)' = touched
  BY <1>1, <1>2, TouchesMove
<1>5. TouchedVoid'
  <2> SUFFICES ASSUME NEW i \in 1..(Len(roots) + 1), NEW a \in Address, Void(SavedAccount(i, a)')
               PROVE  i > 2 /\ a \in JP!TouchedBefore(i - 1)'
    BY <1>3 DEF TouchedVoid, Void
  <2> DEFINE h == i - 1
  <2>1. CASE i \in 1..Len(roots)
    <3>1. Void(SavedAccount(i, a))
      BY <1>3, <2>1
    <3>2. i > 2 /\ a \in JP!TouchedBefore(h)
      BY <1>1, <2>1, <3>1 DEF TouchedVoid
    <3>3. Len(roots) > 2
      BY <1>1, <2>1, <3>2
    <3>4. journalHeight = Len(roots) - 1
      BY <1>1, <1>2, <3>3
    <3>5. h \in 1..journalHeight
      BY <1>1, <2>1, <3>2, <3>4
    <3> HIDE DEF h
    <3>6. a \in JP!TouchedBefore(h)'
      BY <1>4, <3>2, <3>5
    <3> QED BY <3>2, <3>6 DEF h
  <2>2. CASE i = Len(roots) + 1
    <3>1. Void(Current(a))
      BY <1>3, <2>2
    <3>2. pc = "new" /\ a \in touched
      BY <1>1, <1>2, <3>1 DEF VoidIn
    <3>3. h = journalHeight + 1 /\ i > 2
      BY <1>1, <2>2, <3>2
    <3> HIDE DEF h
    <3>4. a \in JP!TouchedBefore(h)'
      BY <1>4, <3>2, <3>3
    <3> QED BY <3>3, <3>4 DEF h
  <2> QED BY <1>1, <2>1, <2>2
<1>6. VoidIn(touched)' /\ (pc # "new" => VoidIn({})')
  BY <1>1, <1>2, <1>3, <1>4 DEF VoidIn, Void
<1> QED BY <1>2, <1>5, <1>6 DEF EmptyOK, InTouch, InMessage

(* A checkpoint is committed.                                              *)
LEMMA CommitVoids ==
    ASSUME NInv, Return \/ TxCommit \/ BlockCommit
    PROVE  EmptyOK'
<1> USE DEF Goto
<1>1. /\ TyInv /\ IInv /\ TouchedVoid /\ Len(roots) \in Nat /\ Len(frames) \in Nat /\ CountOK
      /\ pc \in Labels
  BY TyFacts DEF NInv, EmptyOK, TyInv
<1>2. Commit
  BY DEF Return, TxCommit, BlockCommit, StateCommit
<1>3. /\ Len(roots) > 0 /\ Len(roots') = Len(roots) - 1
      /\ \A a \in Address : Current(a)' = Current(a)
      /\ \A i \in 1..(Len(roots) - 1), a \in Address : SavedAccount(i, a)' = SavedAccount(i, a)
  BY <1>1, <1>2, AccountCommit DEF CurrentKept, SavedKept
<1>4. CASE Return
  <2>1. pc = "halt" /\ pc' \in {"miner", "run"} /\ J!Commit
    BY <1>4 DEF Return
  <2>2. JP!IInv /\ journalHeight = Len(roots) - 1 /\ VoidIn(touched)
    BY <1>1, <2>1, HeightFacts DEF NInv, EmptyOK, InTouch, InMessage
  <2>3. Len(roots) = 2 + Len(frames) /\ Len(frames) > 0
    BY <1>1, <2>1, TyFacts DEF CountOK, InMessage
  <2>4. journalHeight > 0
    BY <1>1, <2>2, <2>3
  <2>5. /\ touched' = touched
        /\ \A h \in 1..(journalHeight - 1) : JP!TouchedBefore(h) \subseteq JP!TouchedBefore(h)'
    BY <1>1, <2>1, <2>4, TouchesMove
  <2>6. TouchedVoid'
    <3> SUFFICES ASSUME NEW i \in 1..(Len(roots) - 1), NEW a \in Address,
                        Void(SavedAccount(i, a)')
                 PROVE  i > 2 /\ a \in JP!TouchedBefore(i - 1)'
      BY <1>3 DEF TouchedVoid, Void
    <3> DEFINE h == i - 1
    <3>1. i \in 1..Len(roots) /\ Void(SavedAccount(i, a))
      BY <1>1, <1>3
    <3>2. i > 2 /\ a \in JP!TouchedBefore(h)
      BY <1>1, <3>1 DEF TouchedVoid
    <3>3. h \in 1..(journalHeight - 1)
      BY <1>1, <2>2, <3>2
    <3> HIDE DEF h
    <3>4. a \in JP!TouchedBefore(h)'
      BY <2>5, <3>2, <3>3
    <3> QED BY <3>2, <3>4 DEF h
  <2>7. VoidIn(touched)'
    BY <1>3, <2>2, <2>5 DEF VoidIn, Void
  <2> QED BY <2>1, <2>6, <2>7 DEF EmptyOK, InTouch, InMessage
<1>5. CASE TxCommit \/ BlockCommit
  <2>1. /\ pc \in {"commit", "block", "rewarded"} /\ pc' \in {"block", "flush"}
    BY <1>5 DEF TxCommit, BlockCommit
  <2>2. VoidIn({}) /\ Len(roots) < 3
    <3>1. VoidIn({})
      BY <2>1 DEF NInv, EmptyOK
    <3>2. /\ pc \in {"block", "rewarded"} => Len(roots) = 1
          /\ pc = "commit" => Len(roots) = 2
      BY <1>1 DEF CountOK
    <3>3. Len(roots) = 1 \/ Len(roots) = 2
      BY <2>1, <3>2
    <3>4. 1 < 3 /\ 2 < 3
      OBVIOUS
    <3> QED BY <3>1, <3>3, <3>4, Zenon
  <2>3. TouchedVoid'
    <3> SUFFICES ASSUME NEW i \in 1..(Len(roots) - 1), NEW a \in Address,
                        Void(SavedAccount(i, a)')
                 PROVE  FALSE
      BY <1>3 DEF TouchedVoid, Void
    <3>1. i \in 1..Len(roots) /\ Void(SavedAccount(i, a)) /\ i < 3
      BY <1>1, <1>3, <2>2
    <3> QED BY <1>1, <3>1 DEF TouchedVoid
  <2>4. VoidIn({})'
    BY <1>3, <2>2 DEF VoidIn, Void
  <2> QED BY <2>1, <2>3, <2>4 DEF EmptyOK, InTouch, InMessage
<1> QED BY <1>4, <1>5

(* A checkpoint is reverted: what comes back empty was touched then, and   *)
(* so it is again.                                                         *)
LEMMA RevertVoids ==
    ASSUME NInv, Throw \/ TxFail \/ BlockRevert
    PROVE  EmptyOK'
<1> USE DEF Goto
<1>1. /\ TyInv /\ IInv /\ TouchedVoid /\ Len(roots) \in Nat /\ Len(frames) \in Nat /\ CountOK
      /\ pc \in Labels
  BY TyFacts DEF NInv, EmptyOK, TyInv
<1>2. Revert
  BY DEF Throw, TxFail, BlockRevert, StateRevert
<1>3. /\ Len(roots) > 0 /\ Len(roots') = Len(roots) - 1
      /\ \A a \in Address : Current(a)' = SavedAccount(Len(roots), a)
      /\ \A i \in 1..(Len(roots) - 1), a \in Address : SavedAccount(i, a)' = SavedAccount(i, a)
  BY <1>1, <1>2, AccountRevert DEF SavedKept
<1>4. Len(roots) \in 1..Len(roots)
  BY <1>1, <1>3
<1>5. CASE Throw
  <2>1. pc = "fail" /\ pc' \in {"miner", "run"} /\ J!Revert
    BY <1>5 DEF Throw
  <2>2. JP!IInv /\ journalHeight = Len(roots) - 1
    BY <1>1, <2>1, HeightFacts DEF InMessage
  <2>3. Len(roots) = 2 + Len(frames) /\ Len(frames) > 0
    BY <1>1, <2>1, TyFacts DEF CountOK, InMessage
  <2>4. journalHeight > 0
    BY <1>1, <2>2, <2>3
  <2>5. /\ \A h : h = journalHeight => JP!TouchedBefore(h) \subseteq touched'
        /\ \A h \in 1..(journalHeight - 1) : JP!TouchedBefore(h) \subseteq JP!TouchedBefore(h)'
    BY <1>1, <2>1, <2>4, TouchesMove
  <2>6. TouchedVoid'
    <3> SUFFICES ASSUME NEW i \in 1..(Len(roots) - 1), NEW a \in Address,
                        Void(SavedAccount(i, a)')
                 PROVE  i > 2 /\ a \in JP!TouchedBefore(i - 1)'
      BY <1>3 DEF TouchedVoid, Void
    <3> DEFINE h == i - 1
    <3>1. i \in 1..Len(roots) /\ Void(SavedAccount(i, a))
      BY <1>1, <1>3
    <3>2. i > 2 /\ a \in JP!TouchedBefore(h)
      BY <1>1, <3>1 DEF TouchedVoid
    <3>3. h \in 1..(journalHeight - 1)
      BY <1>1, <2>2, <3>2
    <3> HIDE DEF h
    <3>4. a \in JP!TouchedBefore(h)'
      BY <2>5, <3>2, <3>3
    <3> QED BY <3>2, <3>4 DEF h
  <2>7. VoidIn(touched)'
    <3> SUFFICES ASSUME NEW a \in Address, Void(Current(a)') PROVE a \in touched'
      BY DEF VoidIn, Void
    <3> DEFINE h == Len(roots) - 1
    <3>1. Void(SavedAccount(Len(roots), a))
      BY <1>3
    <3>2. a \in JP!TouchedBefore(h)
      BY <1>1, <1>4, <3>1 DEF TouchedVoid
    <3>3. h = journalHeight
      BY <2>2
    <3> HIDE DEF h
    <3> QED BY <2>5, <3>2, <3>3
  <2> QED BY <2>1, <2>6, <2>7 DEF EmptyOK, InTouch, InMessage
<1>6. CASE TxFail \/ BlockRevert
  <2>1. /\ pc \in {"message", "block", "rewarded"} /\ pc' \in {"block", "flush"}
    BY <1>6 DEF TxFail, BlockRevert
  <2>2. Len(roots) < 3
    <3>1. /\ pc \in {"block", "rewarded"} => Len(roots) = 1
          /\ pc = "message" => Len(roots) = 2
      BY <1>1 DEF CountOK
    <3>2. Len(roots) = 1 \/ Len(roots) = 2
      BY <2>1, <3>1
    <3>3. 1 < 3 /\ 2 < 3
      OBVIOUS
    <3> QED BY <3>2, <3>3, Zenon
  <2>3. ASSUME NEW i \in 1..Len(roots), NEW a \in Address PROVE ~ Void(SavedAccount(i, a))
    <3>1. ~ (i > 2)
      BY <1>1, <2>2
    <3> QED BY <1>1, <3>1 DEF TouchedVoid
  <2>4. TouchedVoid'
    <3> SUFFICES ASSUME NEW i \in 1..(Len(roots) - 1), NEW a \in Address,
                        Void(SavedAccount(i, a)')
                 PROVE  FALSE
      BY <1>3 DEF TouchedVoid, Void
    <3>1. i \in 1..Len(roots) /\ Void(SavedAccount(i, a))
      BY <1>1, <1>3
    <3> QED BY <2>3, <3>1
  <2>5. VoidIn({})'
    <3> SUFFICES ASSUME NEW a \in Address, Void(Current(a)') PROVE FALSE
      BY DEF VoidIn, Void
    <3>1. Void(SavedAccount(Len(roots), a))
      BY <1>3
    <3> QED BY <1>4, <2>3, <3>1
  <2> QED BY <2>1, <2>4, <2>5 DEF EmptyOK, InTouch, InMessage
<1> QED BY <1>5, <1>6

(* With no message under way no checkpoint would bring back what is empty. *)
LEMMA FewSaved ==
    ASSUME TouchedVoid, Len(roots) \in Nat, Len(roots) = 1 \/ Len(roots) = 2,
           roots' = roots, SavedKept(Len(roots))
    PROVE  TouchedVoid'
<1> SUFFICES ASSUME NEW i \in 1..Len(roots), NEW a \in Address, Void(SavedAccount(i, a)')
             PROVE  FALSE
  BY DEF TouchedVoid, Void
<1>1. i > 2
  BY DEF TouchedVoid, SavedKept
<1>2. CASE Len(roots) = 1
  <2>1. i \in 1..1
    BY <1>2
  <2> QED BY <1>1, <2>1
<1>3. CASE Len(roots) = 2
  <2>1. i \in 1..2
    BY <1>3
  <2> QED BY <1>1, <2>1
<1> QED BY <1>2, <1>3

(* Around the message of a transaction.                                    *)
LEMMA TxVoids ==
    ASSUME NInv,
           \/ RunTx \/ Destroy \/ DestroyEnd \/ Cleanup \/ CleanupEnd
           \/ \E value \in {0, 1} : PayMiner(value)
           \/ \E a \in Withdrawers, value \in {0, 1} : Reward(a, value)
    PROVE  EmptyOK'
<1> USE DEF Goto
<1>1. /\ TyInv /\ IInv /\ TouchedVoid /\ Len(roots) \in Nat /\ CountOK
      /\ ret \in {"idle", "rewarded", "tx", "commit"} /\ (pc = "cleanup" => ret # "idle")
      /\ todo \subseteq Address
  BY TyFacts DEF NInv, EmptyOK, TyInv
<1>2. /\ pc = "block" => Len(roots) = 1 /\ VoidIn({})
      /\ pc \in {"miner", "destroy"} => Len(roots) = 2 /\ VoidIn(touched)
      /\ pc = "cleanup" => (Len(roots) = 1 \/ Len(roots) = 2) /\ VoidIn(todo)
  <2>1. /\ pc = "block" => VoidIn({})
        /\ pc \in {"miner", "destroy"} => VoidIn(touched)
        /\ pc = "cleanup" => VoidIn(todo)
    BY DEF NInv, EmptyOK, InTouch
  <2>2. /\ pc = "block" => Len(roots) = 1
        /\ pc \in {"miner", "destroy"} => Len(roots) = 2
        /\ pc = "cleanup" => Len(roots) = 1 \/ Len(roots) = 2
    BY <1>1 DEF CountOK
  <2> QED BY <2>1, <2>2, Zenon
<1>3. {} \in SUBSET Address /\ {} \in SUBSET (Address \X Slot) /\ Miner \in Address
  BY EVMAssumption
<1>4. CASE RunTx \/ DestroyEnd \/ CleanupEnd
  <2>1. UNCHANGED cacheVars
    BY <1>4 DEF RunTx, DestroyEnd, CleanupEnd, stateVars
  <2>2. /\ roots' = roots /\ SavedKept(Len(roots))
        /\ \A a \in Address : Void(Current(a)') => Void(Current(a))
    BY <1>1, <1>3, <2>1, GetVoids
  <2>3. TouchedVoid'
    <3>1. pc \in {"block", "destroy", "cleanup"}
      BY <1>4 DEF RunTx, DestroyEnd, CleanupEnd
    <3> QED BY <1>1, <1>2, <2>2, <3>1, FewSaved
  <2>4. CASE RunTx \/ DestroyEnd
    <3>1. VoidIn(touched) /\ todo' = touched /\ pc' = "cleanup"
      BY <1>2, <2>4 DEF RunTx, DestroyEnd, VoidIn
    <3>2. VoidIn(todo)'
      BY <2>2, <3>1 DEF VoidIn, Void
    <3> QED BY <2>3, <3>1, <3>2 DEF EmptyOK, InTouch, InMessage
  <2>5. CASE CleanupEnd
    <3>1. pc = "cleanup" /\ todo = {} /\ pc' = ret
      BY <2>5 DEF CleanupEnd
    <3>2. pc' \in {"rewarded", "tx", "commit"}
      BY <1>1, <3>1
    <3>3. VoidIn({})'
      BY <1>2, <2>2, <3>1 DEF VoidIn, Void
    <3> QED BY <2>3, <3>2, <3>3 DEF EmptyOK, InTouch, InMessage
  <2> QED BY <1>4, <2>4, <2>5
<1>5. ASSUME NEW value, PayMiner(value) PROVE EmptyOK'
  <2>1. /\ pc = "miner" /\ pc' = "destroy"
        /\ StatePut(Miner, Paid(Miner, value)) /\ J!Record({Miner}, {}, {})
    BY <1>5 DEF PayMiner
  <2>2. Paid(Miner, value) \in Stored /\ CachePut(Miner, Paid(Miner, value))
    BY <2>1 DEF StatePut, PutAccount, Stored
  <2>3. /\ roots' = roots /\ SavedKept(Len(roots))
        /\ \A a \in Address : Void(Current(a)') => a = Miner \/ Void(Current(a))
    BY <1>1, <1>3, <2>2, PutVoids
  <2>4. /\ touched' = touched \cup {Miner}
        /\ \A h \in 1..journalHeight : JP!TouchedBefore(h) \subseteq JP!TouchedBefore(h)'
    <3>1. {Miner} \in SUBSET Address
      BY <1>3
    <3> QED BY <1>1, <1>3, <2>1, <3>1, TouchesMove
  <2> QED BY <2>1, <2>3, <2>4, WriteVoids DEF InTouch
<1>6. CASE Destroy
  <2>1. PICK a : /\ a = (CHOOSE x \in todo : TRUE)
                 /\ StateDelete(a) /\ J!Record({a}, {}, {})
    BY <1>6 DEF Destroy
  <2>2. pc = "destroy" /\ pc' = pc /\ todo # {}
    BY <1>6 DEF Destroy
  <2>3. a \in Address /\ NoAccount \in Stored /\ CachePut(a, NoAccount)
    BY <1>1, <2>1, <2>2 DEF StateDelete, DeleteAccount, Stored
  <2>4. /\ roots' = roots /\ SavedKept(Len(roots))
        /\ \A b \in Address : Void(Current(b)') => b = a \/ Void(Current(b))
        /\ Void(Current(a)') => Void(NoAccount)
    BY <1>1, <2>3, PutVoids
  <2>5. \A b \in Address : Void(Current(b)') => Void(Current(b))
    BY <2>4 DEF Void
  <2>6. /\ touched' = touched \cup {a}
        /\ \A h \in 1..journalHeight : JP!TouchedBefore(h) \subseteq JP!TouchedBefore(h)'
    <3>1. {a} \in SUBSET Address
      BY <2>3
    <3> QED BY <1>1, <1>3, <2>1, <2>2, <3>1, TouchesMove
  <2> QED BY <2>2, <2>4, <2>5, <2>6, WriteVoids DEF InTouch
<1>7. CASE Cleanup
  <2>1. PICK a : /\ a = (CHOOSE x \in todo : TRUE)
                 /\ \/ IsEmpty(a) /\ StateDelete(a)
                    \/ ~ IsEmpty(a) /\ GetAccount(a)
                 /\ todo' = todo \ {a}
    BY <1>7 DEF Cleanup
  <2>2. pc = "cleanup" /\ pc' = pc /\ todo # {}
    BY <1>7 DEF Cleanup
  <2>3. a \in Address
    BY <1>1, <2>1, <2>2
  <2>4. /\ roots' = roots /\ SavedKept(Len(roots))
        /\ \A b \in Address : Void(Current(b)') => Void(Current(b))
        /\ ~ Void(Current(a)')
    <3>1. CASE StateDelete(a)
      <4>1. NoAccount \in Stored /\ CachePut(a, NoAccount)
        BY <3>1 DEF StateDelete, DeleteAccount, Stored
      <4>2. /\ roots' = roots /\ SavedKept(Len(roots))
            /\ \A b \in Address : Void(Current(b)') => b = a \/ Void(Current(b))
            /\ Void(Current(a)') => Void(NoAccount)
        BY <1>1, <2>3, <4>1, PutVoids
      <4> QED BY <4>2 DEF Void
    <3>2. CASE ~ IsEmpty(a) /\ GetAccount(a)
      <4>1. /\ roots' = roots /\ SavedKept(Len(roots))
            /\ \A b \in Address : Void(Current(b)') => Void(Current(b))
        BY <1>1, <2>3, <3>2, GetVoids
      <4>2. ~ Void(Current(a))
        BY <3>2 DEF IsEmpty, AccountOrNew, Void
      <4> QED BY <2>3, <4>1, <4>2
    <3> QED BY <2>1, <3>1, <3>2
  <2>5. VoidIn(todo)'
    BY <1>2, <2>1, <2>2, <2>4 DEF VoidIn, Void
  <2>6. TouchedVoid'
    BY <1>1, <1>2, <2>2, <2>4, FewSaved
  <2> QED BY <2>2, <2>5, <2>6 DEF EmptyOK, InTouch, InMessage
<1>8. ASSUME NEW a \in Withdrawers, NEW value, Reward(a, value) PROVE EmptyOK'
  <2>1. /\ pc = "block" /\ pc' = "cleanup" /\ todo' = touched \cup {a}
        /\ StatePut(a, Paid(a, value)) /\ a \in Address
    BY <1>8, EVMAssumption DEF Reward
  <2>2. Paid(a, value) \in Stored /\ CachePut(a, Paid(a, value))
    BY <2>1 DEF StatePut, PutAccount, Stored
  <2>3. /\ roots' = roots /\ SavedKept(Len(roots))
        /\ \A b \in Address : Void(Current(b)') => b = a \/ Void(Current(b))
    BY <1>1, <2>1, <2>2, PutVoids
  <2>4. VoidIn(todo)'
    BY <1>2, <2>1, <2>3 DEF VoidIn, Void
  <2>5. TouchedVoid'
    BY <1>1, <1>2, <2>1, <2>3, FewSaved
  <2> QED BY <2>1, <2>4, <2>5 DEF EmptyOK, InTouch, InMessage
<1> QED BY <1>4, <1>5, <1>6, <1>7, <1>8

(* A block begins and ends.                                                *)
LEMMA BlockVoids ==
    ASSUME NInv, \A a \in Address : ~ Void(Genesis[a]),
           RunBlock \/ FlushSlots \/ FlushEnd
    PROVE  EmptyOK'
<1> USE DEF Goto
<1>1. /\ TyInv /\ IInv /\ TouchedVoid /\ Len(roots) \in Nat /\ CountOK
  BY TyFacts DEF NInv, EmptyOK, TyInv
<1>2. /\ pc \in {"idle", "flush"} /\ VoidIn({}) /\ Len(roots) = 0
  <2>1. pc \in {"idle", "flush"}
    BY DEF RunBlock, FlushSlots, FlushEnd
  <2> QED BY <1>1, <2>1 DEF NInv, EmptyOK, CountOK
<1>3. roots' = roots => TouchedVoid'
  <2>1. \A i \in 1..0 : FALSE
    OBVIOUS
  <2> QED BY <1>2, <2>1 DEF TouchedVoid
<1>4. CASE FlushSlots
  <2>1. PICK a \in Address : FlushStorage(a)
    BY <1>4 DEF FlushSlots
  <2>2. pc = "flush" /\ pc' = pc
    BY <1>4 DEF FlushSlots, controlVars
  <2>3. CASE Current(a) = NoAccount
    <3>1. GetAccount(a)
      BY <2>1, <2>3 DEF FlushStorage
    <3>2. roots' = roots /\ \A b \in Address : Void(Current(b)') => Void(Current(b))
      BY <1>1, <3>1, GetVoids
    <3>3. VoidIn({})'
      BY <1>2, <3>2 DEF VoidIn, Void
    <3> QED BY <1>3, <2>2, <3>2, <3>3 DEF EmptyOK, InTouch, InMessage
  <2>4. CASE Current(a) # NoAccount
    <3> DEFINE new == [Current(a) EXCEPT !.storageRoot = Written(a)]
    <3>1. CachePut(a, new) /\ new \in Stored
      BY <2>1, <2>4 DEF FlushStorage, PutAccount, Stored
    <3>2. ~ Void(new)
      <4>1. Current(a) \in Account
        BY <1>1, <2>4, AccountTypes DEF Stored
      <4>2. new.data = Current(a).data
        BY <4>1, StateAssumption
      <4>3. ~ Void(Current(a))
        BY <1>2 DEF VoidIn
      <4> QED BY <2>4, <4>2, <4>3 DEF Void
    <3> HIDE DEF new
    <3>3. /\ roots' = roots
          /\ \A b \in Address : Void(Current(b)') => b = a \/ Void(Current(b))
          /\ Void(Current(a)') => Void(new)
      BY <1>1, <3>1, PutVoids
    <3>4. VoidIn({})'
      BY <1>2, <3>2, <3>3 DEF VoidIn, Void
    <3> QED BY <1>3, <2>2, <3>3, <3>4 DEF EmptyOK, InTouch, InMessage
  <2> QED BY <2>3, <2>4
<1>5. CASE FlushEnd
  <2>1. /\ roots' = roots /\ cache' = cache /\ diffCache' = <<NoDiff>>
        /\ trie' = Flushed(trie, cache, diffCache[1]) /\ pc' = "idle"
    BY <1>5 DEF FlushEnd, FlushAccounts, Flush
  <2>2. \A a \in Address : cache[a] = NotCached => trie'[a] = trie[a]
    BY <2>1 DEF Flushed
  <2>3. \A a \in Address : Current(a)' = Current(a)
    BY <2>1, <2>2 DEF Current
  <2>4. VoidIn({})'
    BY <1>2, <2>3 DEF VoidIn, Void
  <2> QED BY <1>3, <2>1, <2>4 DEF EmptyOK, InTouch, InMessage
<1>6. CASE RunBlock
  <2>1. PICK root \in {trie, Genesis}, clearCache \in BOOLEAN : SetStateRoot(root, clearCache)
    BY <1>6 DEF RunBlock, StateSetRoot
  <2>2. /\ roots' = roots /\ diffCache' = <<NoDiff>> /\ trie' = root
        /\ cache' = IF clearCache THEN [a \in Address |-> NotCached] ELSE cache
        /\ clearCache \/ root = Flushed(trie, cache, diffCache[1])
    BY <2>1 DEF SetStateRoot
  <2>3. pc = "idle" /\ pc' = "rooted" /\ diffCache = <<NoDiff>>
    BY <1>6 DEF RunBlock, NInv, EmptyOK
  <2>4. ASSUME NEW a \in Address PROVE cache[a] \in {NotCached, trie[a]} /\ ~ Void(trie[a])
    <3>1. PreState(cache, diffCache, 0, a) = cache[a]
      <4>1. Len(diffCache) = 1 /\ diffCache[1] = NoDiff
        BY <2>3
      <4> QED BY <4>1, FreshDiff
    <3>2. cache[a] \in {NotCached, trie[a]}
      BY <1>1, <3>1 DEF IInv, Coherent
    <3>3. Current(a) = trie[a]
      BY <3>2 DEF Current
    <3> QED BY <1>2, <3>2, <3>3 DEF VoidIn
  <2>5. ASSUME NEW a \in Address PROVE ~ Void(Current(a)')
    <3>1. CASE clearCache
      <4>1. Current(a)' = root[a]
        BY <2>2, <3>1 DEF Current
      <4> QED BY <2>1, <2>4, <4>1
    <3>2. CASE ~ clearCache
      <4>1. Flushed(trie, cache, diffCache[1])[a] = trie[a]
        BY <2>3 DEF Flushed, NoDiff
      <4>2. Current(a)' = trie[a]
        <5>1. cache'[a] \in {NotCached, trie[a]} /\ trie'[a] = trie[a]
          BY <2>2, <2>4, <3>2, <4>1
        <5> QED BY <5>1 DEF Current
      <4> QED BY <2>4, <4>2
    <3> QED BY <3>1, <3>2
  <2>6. VoidIn({})'
    BY <2>5 DEF VoidIn, Void
  <2> QED BY <1>3, <2>2, <2>3, <2>6 DEF EmptyOK, InTouch, InMessage
<1> QED BY <1>4, <1>5, <1>6

(* Every step keeps them.                                                  *)
LEMMA EmptyStep ==
    ASSUME NInv, \A a \in Address : ~ Void(Genesis[a]), [Next]_vars
    PROVE  NInv'
<1>1. TyInv'
  BY TypesStep DEF NInv
<1>2. CASE UNCHANGED vars
  <2>1. EmptyOK'
    <3>1. /\ pc' = pc /\ todo' = todo /\ touched' = touched /\ roots' = roots
          /\ diffCache' = diffCache /\ UNCHANGED journalVars /\ UNCHANGED cacheVars
      BY <1>2 DEF vars, stateVars, cacheVars, evmVars, journalVars, controlVars
    <3>2. \A a \in Address : Current(a)' = Current(a)
      BY <3>1 DEF cacheVars, Current
    <3>3. \A i, a : SavedAccount(i, a)' = SavedAccount(i, a)
      BY <3>1 DEF cacheVars, SavedAccount, PreState
    <3>4. \A h : JP!TouchedBefore(h)' = JP!TouchedBefore(h)
      BY <3>1 DEF journalVars, JP!TouchedBefore, JP!Undone, JP!LastBelow, JP!Max
    <3>5. TouchedVoid'
      <4> SUFFICES ASSUME NEW i \in 1..Len(roots), NEW a \in Address, Void(SavedAccount(i, a)')
                   PROVE  i > 2 /\ a \in JP!TouchedBefore(i - 1)'
        BY <3>1 DEF TouchedVoid, Void
      <4>1. i > 2 /\ a \in JP!TouchedBefore(i - 1)
        BY <3>3 DEF NInv, EmptyOK, TouchedVoid
      <4> QED BY <3>4, <4>1
    <3> QED BY <3>1, <3>2, <3>5 DEF NInv, EmptyOK, VoidIn, Void
  <2> QED BY <1>1, <2>1 DEF NInv
<1>3. CASE Next
  <2>1. EmptyOK'
    BY <1>3, OpenVoids, CommitVoids, RevertVoids, TxVoids, BlockVoids, MessageVoids, CodeVoids
       DEF Next
  <2> QED BY <1>1, <2>1 DEF NInv
<1> QED BY <1>2, <1>3

(* The genesis state has no empty account.                                 *)
LEMMA EmptyInit ==
    ASSUME Init, \A a \in Address : ~ Void(Genesis[a])
    PROVE  NInv
<1>1. TyInv
  BY TypesInit
<1>2. /\ trie = Genesis /\ cache = [a \in Address |-> NotCached]
      /\ diffCache = <<NoDiff>> /\ roots = <<>> /\ pc = "idle"
  BY DEF Init, StateInit, CacheInit
<1>3. VoidIn({})
  BY <1>2 DEF VoidIn, Current
<1>4. TouchedVoid
  <2>1. Len(roots) = 0 /\ \A i \in 1..0 : FALSE
    BY <1>2
  <2> QED BY <2>1 DEF TouchedVoid
<1> QED BY <1>1, <1>2, <1>3, <1>4 DEF NInv, EmptyOK, InTouch, InMessage

(* Between blocks the trie holds what getAccount returns.                  *)
LEMMA NoneInTrie == NInv => NoEmptyAccounts
<1> SUFFICES ASSUME NInv, pc = "idle", NEW a \in Address PROVE ~ Void(trie[a])
  BY DEF NoEmptyAccounts, Void
<1>1. VoidIn({}) /\ diffCache = <<NoDiff>> /\ IInv
  BY TyFacts DEF NInv, EmptyOK
<1>2. PreState(cache, diffCache, 0, a) = cache[a]
  <2>1. Len(diffCache) = 1 /\ diffCache[1] = NoDiff
    BY <1>1
  <2> QED BY <2>1, FreshDiff
<1>3. Current(a) = trie[a]
  BY <1>1, <1>2 DEF IInv, Coherent, Current
<1> QED BY <1>1, <1>3 DEF VoidIn

(* No block leaves an empty account in the state, whatever its             *)
(* transactions create, destroy, call and revert: what brings an empty     *)
(* account back brings its touch back, and cleanup goes over all of these. *)
THEOREM NoneEmpty ==
    ASSUME \A a \in Address : ~ Void(Genesis[a])
    PROVE  Spec => []NoEmptyAccounts
<1>1. Init => NInv
  BY EmptyInit
<1>2. NInv /\ [Next]_vars => NInv'
  BY EmptyStep
<1> QED BY <1>1, <1>2, NoneInTrie, PTL DEF Spec

=============================================================================
