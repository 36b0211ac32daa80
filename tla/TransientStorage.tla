-------------------------- MODULE TransientStorage --------------------------
(***************************************************************************)
(* The transient storage of the EVM: current values, a list of the values  *)
(* they replaced, and for every open call the length the list had when the *)
(* call was made.                                                          *)
(***************************************************************************)
EXTENDS Integers, Sequences

CONSTANTS Address, Slot, Value

VARIABLES
    transient,       \* _storage; 0 for a slot without a value
    changeJournal,   \* [key, prevValue]
    indices          \* a first one, and one for every open call

transientVars == <<transient, changeJournal, indices>>

AllSlots == Address \X Slot
Change == [key : AllSlots, prevValue : Value]
NoValues == [ak \in AllSlots |-> 0]

Init ==
    /\ transient = NoValues
    /\ changeJournal = <<>>
    /\ indices = <<0>>

-----------------------------------------------------------------------------

Put(a, k, v) ==
    /\ changeJournal' = Append(changeJournal,
                               [key |-> <<a, k>>, prevValue |-> transient[<<a, k>>]])
    /\ transient' = [transient EXCEPT ![<<a, k>>] = v]
    /\ indices' = indices

Checkpoint ==
    /\ indices' = Append(indices, Len(changeJournal))
    /\ UNCHANGED <<transient, changeJournal>>

Commit ==
    /\ indices' = SubSeq(indices, 1, Len(indices) - 1)
    /\ UNCHANGED <<transient, changeJournal>>

Least(S) == CHOOSE i \in S : \A j \in S : i <= j

(* The changes of a slot after the first n. *)
ChangesOf(changes, ak, n) ==
    {j \in (n + 1)..Len(changes) : changes[j].key = ak}

(* A slot's value when the list of changes had length n: going back over   *)
(* it, the oldest change of the slot is the last to be undone.             *)
ValueBefore(values, changes, n, ak) ==
    IF ChangesOf(changes, ak, n) = {} THEN values[ak]
    ELSE changes[Least(ChangesOf(changes, ak, n))].prevValue

Before(values, changes, n) ==
    [ak \in AllSlots |-> ValueBefore(values, changes, n, ak)]

(* Mutation: the changes are undone the oldest first. *)
RevertForwards ==
    LET n == indices[Len(indices)]
        Latest(S) == CHOOSE i \in S : \A j \in S : j <= i
    IN  /\ transient' = [ak \in AllSlots |->
                IF ChangesOf(changeJournal, ak, n) = {} THEN transient[ak]
                ELSE changeJournal[Latest(ChangesOf(changeJournal, ak, n))].prevValue]
        /\ changeJournal' = SubSeq(changeJournal, 1, n)
        /\ indices' = SubSeq(indices, 1, Len(indices) - 1)

Revert ==
    LET n == indices[Len(indices)]
    IN  /\ transient' = Before(transient, changeJournal, n)
        /\ changeJournal' = SubSeq(changeJournal, 1, n)
        /\ indices' = SubSeq(indices, 1, Len(indices) - 1)

(* clear() leaves the indices. *)
Clear ==
    /\ transient' = NoValues
    /\ changeJournal' = <<>>
    /\ indices' = indices

Fresh ==
    /\ transient' = NoValues
    /\ changeJournal' = <<>>
    /\ indices' = <<0>>

(* A transaction begins with an empty list and clear() ends it, so that no *)
(* index is left above the list.                                           *)
Next ==
    \/ \E a \in Address, k \in Slot, v \in Value : Put(a, k, v)
    \/ Checkpoint
    \/ Len(indices) > 1 /\ (Commit \/ Revert)
    \/ (\A i \in 1..Len(indices) : indices[i] = 0) /\ Clear
    \/ Fresh

Spec == Init /\ [][Next]_transientVars

-----------------------------------------------------------------------------
(* The transient storage as a stack of checkpoints. *)

(* Values, changes and indices have their types.                           *)
TypeOK ==
    /\ transient \in [AllSlots -> Value]
    /\ changeJournal \in Seq(Change)
    /\ indices \in Seq(Nat)
    /\ Len(indices) > 0

SavedValues ==
    [i \in 1..(Len(indices) - 1) |-> Before(transient, changeJournal, indices[i + 1])]

Stack ==
    INSTANCE CheckpointStack WITH
        Key <- AllSlots,
        Value <- Value,
        Batch <- {{ak} : ak \in AllSlots},
        Fresh <- {NoValues},
        cur <- transient,
        saved <- SavedValues

(* A call that fails puts every transient slot back to what it was when    *)
(* the call was made, whatever the calls it made did; clear() at the end   *)
(* of a transaction leaves nothing for the next one, nor for the revert    *)
(* that may still follow it.                                               *)
TransientCheckpoints == Stack!Spec

=============================================================================
