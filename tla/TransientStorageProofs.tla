----------------------- MODULE TransientStorageProofs -----------------------
(***************************************************************************)
(* The transient storage implements a stack of checkpoints, for every set  *)
(* of addresses, slots and values and any depth of calls.                  *)
(***************************************************************************)
EXTENDS TransientStorage, SequenceTheorems, WellFoundedInduction, TLAPS

-----------------------------------------------------------------------------
(* The values at an earlier length of the list. *)

(* A set of natural numbers that is not empty has a least element.         *)
LEMMA LeastFacts ==
    ASSUME NEW S \in SUBSET Nat, S # {}
    PROVE  Least(S) \in S /\ \A j \in S : Least(S) <= j
<1>1. PICK x \in S : \A y \in S : ~ (<<y, x>> \in OpToRel(<, Nat))
  BY WFMin, NatLessThanWellFounded
<1>2. \A y \in S : ~ (y < x)
  BY <1>1 DEF OpToRel
<1>3. \A y \in S : x <= y
  BY <1>2
<1> QED BY <1>3 DEF Least

(* The least element is the only one.                                      *)
LEMMA LeastUnique ==
    ASSUME NEW S \in SUBSET Nat, NEW x \in S, \A j \in S : x <= j
    PROVE  Least(S) = x
<1> S # {}
  OBVIOUS
<1>1. Least(S) \in S /\ Least(S) <= x
  BY LeastFacts
<1>2. x <= Least(S)
  BY <1>1
<1>3. x \in Nat /\ Least(S) \in Nat
  BY <1>1
<1> QED BY <1>1, <1>2, <1>3

(* The j-th change is the first of its slot after the first n.             *)
IsFirst(J, ak, n, j) ==
    /\ j \in ChangesOf(J, ak, n)
    /\ \A i \in ChangesOf(J, ak, n) : j <= i

(* A slot that was not changed has its value still.                        *)
LEMMA BeforeNone ==
    ASSUME NEW V, NEW J, NEW n, NEW ak,
           ChangesOf(J, ak, n) = {}
    PROVE  ValueBefore(V, J, n, ak) = V[ak]
BY DEF ValueBefore

(* A slot that was changed had what its first change replaced.             *)
LEMMA BeforeFirst ==
    ASSUME NEW V, NEW J, Len(J) \in Nat, NEW n \in Nat, NEW ak,
           NEW j, IsFirst(J, ak, n, j)
    PROVE  ValueBefore(V, J, n, ak) = J[j].prevValue
<1>1. ChangesOf(J, ak, n) \in SUBSET Nat
  BY DEF ChangesOf
<1>2. Least(ChangesOf(J, ak, n)) = j
  BY <1>1, LeastUnique DEF IsFirst
<1> QED BY <1>2 DEF ValueBefore, IsFirst

(* There is a first change, or none.                                       *)
LEMMA FirstOrNone ==
    ASSUME NEW J, Len(J) \in Nat, NEW n \in Nat, NEW ak
    PROVE  \/ ChangesOf(J, ak, n) = {}
           \/ \E j : IsFirst(J, ak, n, j)
<1>1. ChangesOf(J, ak, n) \in SUBSET Nat
  BY DEF ChangesOf
<1> QED BY <1>1, LeastFacts DEF IsFirst

(* What revert restores are values.                                        *)
LEMMA BeforeType ==
    ASSUME NEW V \in [AllSlots -> Value], NEW J \in Seq(Change), NEW n \in Nat
    PROVE  Before(V, J, n) \in [AllSlots -> Value]
<1>1. Len(J) \in Nat
  OBVIOUS
<1>2. ASSUME NEW ak \in AllSlots
      PROVE  ValueBefore(V, J, n, ak) \in Value
  <2>1. CASE ChangesOf(J, ak, n) = {}
    BY <2>1, BeforeNone
  <2>2. CASE \E j : IsFirst(J, ak, n, j)
    <3>1. PICK j : IsFirst(J, ak, n, j)
      BY <2>2
    <3>2. ValueBefore(V, J, n, ak) = J[j].prevValue
      BY <1>1, <3>1, BeforeFirst
    <3>3. j \in 1..Len(J)
      BY <1>1, <3>1 DEF ChangesOf, IsFirst
    <3>4. J[j] \in Change
      BY <3>3
    <3> QED BY <3>2, <3>4 DEF Change
  <2> QED BY <1>1, <2>1, <2>2, FirstOrNone
<1> QED BY <1>2 DEF Before

(* At the present length the values are the present ones.                  *)
LEMMA BeforeNow ==
    ASSUME NEW V \in [AllSlots -> Value], NEW J \in Seq(Change)
    PROVE  Before(V, J, Len(J)) = V
<1>1. \A ak \in AllSlots : ChangesOf(J, ak, Len(J)) = {}
  BY DEF ChangesOf
<1> QED BY <1>1, BeforeNone DEF Before

(* W and K are the values V and the changes J after v is put at x.         *)
IsPut(V, J, W, K, x, v) ==
    /\ W = [V EXCEPT ![x] = v]
    /\ K = Append(J, [key |-> x, prevValue |-> V[x]])

(* A put changes none of the earlier values.                               *)
LEMMA BeforePut ==
    ASSUME NEW V \in [AllSlots -> Value], NEW J \in Seq(Change),
           NEW n \in 0..Len(J), NEW x \in AllSlots, NEW v \in Value,
           NEW W, NEW K, IsPut(V, J, W, K, x, v)
    PROVE  Before(W, K, n) = Before(V, J, n)
<1> DEFINE e == [key |-> x, prevValue |-> V[x]]
<1>1. /\ e \in Change /\ e.key = x /\ e.prevValue = V[x]
      /\ Len(J) \in Nat /\ n \in Nat
  BY DEF Change
<1> HIDE DEF e
<1>2. /\ Len(K) = Len(J) + 1
      /\ \A i \in 1..Len(J) : K[i] = J[i]
      /\ K[Len(J) + 1] = e
      /\ \A ak \in AllSlots \ {x} : W[ak] = V[ak]
  BY <1>1 DEF e, IsPut
<1>3. ASSUME NEW ak \in AllSlots
      PROVE  ValueBefore(W, K, n, ak) = ValueBefore(V, J, n, ak)
  <2>1. CASE \E j : IsFirst(J, ak, n, j)
    <3>1. PICK j : IsFirst(J, ak, n, j)
      BY <2>1
    <3>2. IsFirst(K, ak, n, j)
      BY <1>1, <1>2, <3>1 DEF ChangesOf, IsFirst
    <3>3. K[j] = J[j]
      BY <1>1, <1>2, <3>1 DEF ChangesOf, IsFirst
    <3>4. ValueBefore(W, K, n, ak) = K[j].prevValue
      BY <1>1, <1>2, <3>2, BeforeFirst
    <3>5. ValueBefore(V, J, n, ak) = J[j].prevValue
      BY <1>1, <3>1, BeforeFirst
    <3> QED BY <3>3, <3>4, <3>5
  <2>2. CASE ChangesOf(J, ak, n) = {} /\ ak = x
    <3>1. IsFirst(K, ak, n, Len(J) + 1)
      BY <1>1, <1>2, <2>2 DEF ChangesOf, IsFirst
    <3>2. ValueBefore(W, K, n, ak) = K[Len(J) + 1].prevValue
      BY <1>1, <1>2, <3>1, BeforeFirst
    <3> QED BY <1>1, <1>2, <2>2, <3>2, BeforeNone
  <2>3. CASE ChangesOf(J, ak, n) = {} /\ ak # x
    <3>1. ChangesOf(K, ak, n) = {}
      BY <1>1, <1>2, <2>3 DEF ChangesOf
    <3>2. ValueBefore(W, K, n, ak) = W[ak] /\ ValueBefore(V, J, n, ak) = V[ak]
      BY <2>3, <3>1, BeforeNone
    <3> QED BY <1>2, <2>3, <3>2
  <2> QED BY <1>1, <2>1, <2>2, <2>3, FirstOrNone
<1> QED BY <1>3 DEF Before

(* Undoing the changes after the first n changes none of the values        *)
(* before them.                                                            *)
LEMMA BeforeCut ==
    ASSUME NEW V \in [AllSlots -> Value], NEW J \in Seq(Change),
           NEW n \in 0..Len(J), NEW m \in 0..n
    PROVE  Before(Before(V, J, n), SubSeq(J, 1, n), m) = Before(V, J, m)
<1> DEFINE K == SubSeq(J, 1, n)
           W == Before(V, J, n)
<1>1. Len(J) \in Nat /\ n \in Nat /\ m \in Nat
  OBVIOUS
<1>2. Len(K) = n /\ \A i \in 1..n : K[i] = J[i]
  BY <1>1
<1> HIDE DEF K, W
<1>3. ASSUME NEW ak \in AllSlots
      PROVE  ValueBefore(W, K, m, ak) = ValueBefore(V, J, m, ak)
  <2>1. CASE \E j : IsFirst(K, ak, m, j)
    <3>1. PICK j : IsFirst(K, ak, m, j)
      BY <2>1
    <3>2. IsFirst(J, ak, m, j)
      BY <1>1, <1>2, <3>1 DEF ChangesOf, IsFirst
    <3>3. K[j] = J[j]
      BY <1>1, <1>2, <3>1 DEF ChangesOf, IsFirst
    <3>4. ValueBefore(W, K, m, ak) = K[j].prevValue
      BY <1>1, <1>2, <3>1, BeforeFirst
    <3>5. ValueBefore(V, J, m, ak) = J[j].prevValue
      BY <1>1, <3>2, BeforeFirst
    <3> QED BY <3>3, <3>4, <3>5
  <2>2. CASE ChangesOf(K, ak, m) = {}
    <3>1. ChangesOf(J, ak, m) = ChangesOf(J, ak, n)
      BY <1>1, <1>2, <2>2 DEF ChangesOf
    <3>2. ValueBefore(W, K, m, ak) = W[ak]
      BY <2>2, BeforeNone
    <3>3. W[ak] = ValueBefore(V, J, m, ak)
      BY <3>1 DEF W, Before, ValueBefore
    <3> QED BY <3>2, <3>3
  <2> QED BY <1>1, <1>2, <2>1, <2>2, FirstOrNone
<1>4. Before(W, K, m) = Before(V, J, m)
  BY <1>3 DEF Before
<1> QED BY <1>4 DEF K, W

-----------------------------------------------------------------------------
(* The inductive invariant. *)

Values == [AllSlots -> Value]

(* No index is above the list of changes, and none is below the index of   *)
(* the call that made its call.                                            *)
IndicesOrdered ==
    /\ \A i \in 1..Len(indices) : indices[i] <= Len(changeJournal)
    /\ \A i, j \in 1..Len(indices) : i <= j => indices[i] <= indices[j]

IInv == TypeOK /\ IndicesOrdered

(* A sequence without its last element.                                    *)
LEMMA FrontFacts ==
    ASSUME NEW S, NEW s \in Seq(S), NEW n \in 0..Len(s)
    PROVE  /\ SubSeq(s, 1, n) \in Seq(S)
           /\ Len(SubSeq(s, 1, n)) = n
           /\ \A i \in 1..n : SubSeq(s, 1, n)[i] = s[i]
OBVIOUS

(* What the invariant says of the lengths.                                 *)
LEMMA InvFacts ==
    ASSUME IInv
    PROVE  /\ transient \in Values /\ changeJournal \in Seq(Change)
           /\ indices \in Seq(Nat) /\ Len(indices) \in Nat \ {0}
           /\ Len(changeJournal) \in Nat
           /\ \A i \in 1..Len(indices) : indices[i] \in 0..Len(changeJournal)
<1>1. /\ indices \in Seq(Nat) /\ Len(indices) > 0 /\ changeJournal \in Seq(Change)
      /\ transient \in Values
  BY DEF IInv, TypeOK, Values
<1>2. Len(indices) \in Nat \ {0} /\ Len(changeJournal) \in Nat
  BY <1>1
<1>3. \A i \in 1..Len(indices) : indices[i] \in Nat
  BY <1>1
<1> QED BY <1>1, <1>2, <1>3 DEF IInv, IndicesOrdered

(* It holds in the initial state.                                          *)
LEMMA InitInv ==
    ASSUME 0 \in Value, Init
    PROVE  IInv
BY DEF Init, IInv, TypeOK, IndicesOrdered, NoValues

(* put appends a change and leaves the indices.                            *)
LEMMA PutInv ==
    ASSUME IInv, NEW a \in Address, NEW k \in Slot, NEW v \in Value, Put(a, k, v)
    PROVE  IInv'
<1> DEFINE ak == <<a, k>>
           e == [key |-> ak, prevValue |-> transient[ak]]
<1>1. ak \in AllSlots
  BY DEF AllSlots
<1>2. /\ changeJournal' = Append(changeJournal, e)
      /\ transient' = [transient EXCEPT ![ak] = v] /\ indices' = indices
  BY DEF Put
<1> HIDE DEF ak
<1>3. e \in Change
  BY <1>1, InvFacts DEF Change, Values
<1> HIDE DEF e
<1>4. changeJournal' \in Seq(Change) /\ Len(changeJournal') = Len(changeJournal) + 1
  BY <1>2, <1>3, InvFacts
<1>5. transient' \in Values
  BY <1>1, <1>2, InvFacts DEF Values
<1>6. TypeOK'
  BY <1>2, <1>4, <1>5, InvFacts DEF TypeOK, Values
<1>7. \A i \in 1..Len(indices) : indices[i] <= Len(changeJournal) + 1
  BY InvFacts
<1>8. IndicesOrdered'
  BY <1>2, <1>4, <1>7 DEF IInv, IndicesOrdered
<1> QED BY <1>6, <1>8 DEF IInv

(* A checkpoint appends the largest index there can be.                    *)
LEMMA CheckpointInv ==
    ASSUME IInv, Checkpoint
    PROVE  IInv'
<1>1. /\ indices' = Append(indices, Len(changeJournal))
      /\ transient' = transient /\ changeJournal' = changeJournal
  BY DEF Checkpoint
<1>2. /\ indices' \in Seq(Nat) /\ Len(indices') = Len(indices) + 1
      /\ \A i \in 1..Len(indices) : indices'[i] = indices[i]
      /\ indices'[Len(indices) + 1] = Len(changeJournal)
  BY <1>1, InvFacts
<1>3. TypeOK'
  BY <1>1, <1>2, InvFacts DEF IInv, TypeOK
<1>4. ASSUME NEW i \in 1..(Len(indices) + 1)
      PROVE  indices'[i] <= Len(changeJournal)
  <2>1. i \in 1..Len(indices) \/ i = Len(indices) + 1
    BY InvFacts
  <2> QED BY <1>2, <2>1, InvFacts
<1>5. ASSUME NEW i \in 1..(Len(indices) + 1), NEW j \in 1..(Len(indices) + 1), i <= j
      PROVE  indices'[i] <= indices'[j]
  <2>1. \/ i \in 1..Len(indices) /\ j \in 1..Len(indices)
        \/ j = Len(indices) + 1
    BY <1>5, InvFacts
  <2> QED BY <1>2, <1>4, <1>5, <2>1 DEF IInv, IndicesOrdered
<1>6. IndicesOrdered'
  BY <1>1, <1>2, <1>4, <1>5 DEF IndicesOrdered
<1> QED BY <1>3, <1>6 DEF IInv

(* Closing a call drops the last index, and at most the changes above it.  *)
LEMMA CloseInv ==
    ASSUME IInv, Len(indices) > 1, transient' \in Values,
           indices' = SubSeq(indices, 1, Len(indices) - 1),
           NEW n, n \in indices[Len(indices)]..Len(changeJournal),
           changeJournal' = SubSeq(changeJournal, 1, n)
    PROVE  IInv'
<1>1. /\ Len(indices) - 1 \in 0..Len(indices) /\ Len(indices) \in 1..Len(indices)
      /\ indices[Len(indices)] \in Nat
  BY InvFacts
<1>2. /\ indices' \in Seq(Nat) /\ Len(indices') = Len(indices) - 1
      /\ \A i \in 1..(Len(indices) - 1) : indices'[i] = indices[i]
  BY <1>1, InvFacts, FrontFacts
<1>3. n \in 0..Len(changeJournal)
  BY <1>1, InvFacts
<1>4. changeJournal' \in Seq(Change) /\ Len(changeJournal') = n
  BY <1>3, InvFacts, FrontFacts
<1>5. TypeOK'
  BY <1>2, <1>4, InvFacts DEF TypeOK, Values
<1>6. ASSUME NEW i \in 1..(Len(indices) - 1)
      PROVE  indices'[i] <= n
  <2>1. i \in 1..Len(indices) /\ i <= Len(indices)
    BY InvFacts
  <2>2. indices[i] <= indices[Len(indices)] /\ indices[i] \in Nat
    BY <1>1, <2>1, InvFacts DEF IInv, IndicesOrdered
  <2> QED BY <1>1, <1>2, <2>2
<1>7. ASSUME NEW i \in 1..(Len(indices) - 1), NEW j \in 1..(Len(indices) - 1), i <= j
      PROVE  indices'[i] <= indices'[j]
  <2>1. i \in 1..Len(indices) /\ j \in 1..Len(indices)
    BY InvFacts
  <2> QED BY <1>2, <1>7, <2>1 DEF IInv, IndicesOrdered
<1>8. IndicesOrdered'
  BY <1>2, <1>4, <1>6, <1>7 DEF IndicesOrdered
<1> QED BY <1>5, <1>8 DEF IInv

(* The index of the last call is one the list has reached.                 *)
LEMMA LastIndex ==
    ASSUME IInv
    PROVE  indices[Len(indices)] \in 0..Len(changeJournal)
<1>1. Len(indices) \in 1..Len(indices)
  BY InvFacts
<1> QED BY <1>1, InvFacts

(* A commit leaves the list as it is.                                      *)
LEMMA CommitInv ==
    ASSUME IInv, Len(indices) > 1, Commit
    PROVE  IInv'
<1>1. /\ indices' = SubSeq(indices, 1, Len(indices) - 1)
      /\ changeJournal' = SubSeq(changeJournal, 1, Len(changeJournal))
      /\ transient' \in Values
  BY InvFacts, SubSeqFull DEF Commit
<1>2. Len(changeJournal) \in indices[Len(indices)]..Len(changeJournal)
  BY LastIndex, InvFacts
<1> QED BY <1>1, <1>2, CloseInv

(* A revert cuts the list where the call began.                            *)
LEMMA RevertInv ==
    ASSUME IInv, Len(indices) > 1, Revert
    PROVE  IInv'
<1> DEFINE n == indices[Len(indices)]
<1>1. n \in 0..Len(changeJournal) /\ n \in Nat
  BY LastIndex, InvFacts
<1>2. /\ indices' = SubSeq(indices, 1, Len(indices) - 1)
      /\ changeJournal' = SubSeq(changeJournal, 1, n)
      /\ transient' = Before(transient, changeJournal, n)
  BY DEF Revert
<1>3. transient' \in Values
  BY <1>1, <1>2, InvFacts, BeforeType DEF Values
<1>4. n \in indices[Len(indices)]..Len(changeJournal)
  BY <1>1, InvFacts
<1> QED BY <1>2, <1>3, <1>4, CloseInv

(* clear() finds no index above the empty list it leaves.                  *)
LEMMA ClearInv ==
    ASSUME 0 \in Value, IInv, \A i \in 1..Len(indices) : indices[i] = 0, Clear
    PROVE  IInv'
<1>1. TypeOK'
  BY DEF IInv, TypeOK, Clear, NoValues
<1>2. IndicesOrdered'
  BY DEF Clear, IndicesOrdered
<1> QED BY <1>1, <1>2 DEF IInv

(* A new transient storage begins as the first one did.                    *)
LEMMA FreshInv ==
    ASSUME 0 \in Value, Fresh
    PROVE  IInv'
BY DEF Fresh, IInv, TypeOK, IndicesOrdered, NoValues

(* Every operation keeps the invariant.                                    *)
LEMMA StepInv ==
    ASSUME 0 \in Value, IInv, [Next]_transientVars
    PROVE  IInv'
<1>1. CASE UNCHANGED transientVars
  BY <1>1 DEF transientVars, IInv, TypeOK, IndicesOrdered
<1> QED BY <1>1, PutInv, CheckpointInv, CommitInv, RevertInv, ClearInv, FreshInv DEF Next

(* The indices of the open calls never pass the end of the list of changes *)
(* and never decrease from a call to the calls it makes, in any run of     *)
(* put, checkpoint, commit, revert and clear.                              *)
THEOREM Inductive ==
    ASSUME 0 \in Value
    PROVE  Spec => []IInv
<1>1. Init => IInv
  BY InitInv
<1>2. IInv /\ [Next]_transientVars => IInv'
  BY StepInv
<1> QED BY <1>1, <1>2, PTL DEF Spec

(* The values, the list of changes and the indices keep their types.       *)
THEOREM TypeCorrect ==
    ASSUME 0 \in Value
    PROVE  Spec => []TypeOK
<1>1. IInv => TypeOK
  BY DEF IInv
<1> QED BY <1>1, Inductive, PTL

-----------------------------------------------------------------------------
(* Refinement of the stack of checkpoints. *)

SavedOK ==
    /\ SavedValues \in Seq(Values)
    /\ Len(SavedValues) = Len(indices) - 1

(* The saved maps have their types.                                        *)
LEMMA SavedFacts == IInv => SavedOK
<1> SUFFICES ASSUME IInv PROVE SavedOK
  OBVIOUS
<1> DEFINE n == Len(indices) - 1
<1>1. n \in Nat
  BY InvFacts
<1>2. ASSUME NEW i \in 1..n
      PROVE  Before(transient, changeJournal, indices[i + 1]) \in Values
  <2>1. i + 1 \in 1..Len(indices)
    BY InvFacts
  <2>2. indices[i + 1] \in Nat
    BY <2>1, InvFacts
  <2> QED BY <2>2, InvFacts, BeforeType DEF Values
<1>3. SavedValues \in [1..n -> Values]
  BY <1>2 DEF SavedValues
<1> HIDE DEF n
<1>4. SavedValues \in Seq(Values) /\ DOMAIN SavedValues = 1..n
  BY <1>1, <1>3, IsASeq
<1>5. Len(SavedValues) = n
  BY <1>1, <1>4
<1> QED BY <1>4, <1>5 DEF SavedOK, n

(* And in the state a step leads to.                                       *)
LEMMA SavedStayTyped == IInv' => SavedOK'
BY SavedFacts, PTL

(* A slot's write leaves what every open call would restore.               *)
LEMMA PutRefines ==
    ASSUME IInv, IInv', NEW a \in Address, NEW k \in Slot, NEW v \in Value, Put(a, k, v)
    PROVE  Stack!Write
<1> DEFINE ak == <<a, k>>
<1>1. ak \in AllSlots
  BY DEF AllSlots
<1>2. /\ changeJournal' = Append(changeJournal, [key |-> ak, prevValue |-> transient[ak]])
      /\ transient' = [transient EXCEPT ![ak] = v] /\ indices' = indices
  BY DEF Put
<1> HIDE DEF ak
<1>3. ASSUME NEW i \in 1..(Len(indices) - 1)
      PROVE  Before(transient', changeJournal', indices[i + 1])
                = Before(transient, changeJournal, indices[i + 1])
  <2>1. i + 1 \in 1..Len(indices)
    BY InvFacts
  <2>2. indices[i + 1] \in 0..Len(changeJournal)
    BY <2>1, InvFacts
  <2>3. IsPut(transient, changeJournal, transient', changeJournal', ak, v)
    BY <1>2 DEF IsPut
  <2>4. transient \in [AllSlots -> Value] /\ changeJournal \in Seq(Change)
    BY InvFacts DEF Values
  <2> QED BY <1>1, <2>2, <2>3, <2>4, BeforePut
<1>4. SavedValues' = SavedValues
  BY <1>2, <1>3 DEF SavedValues
<1>5. transient' \in [AllSlots -> Value]
  BY DEF IInv, TypeOK
<1>6. \A x \in AllSlots \ {ak} : transient'[x] = transient[x]
  BY <1>2, InvFacts DEF Values
<1> QED BY <1>1, <1>4, <1>5, <1>6 DEF Stack!Write

(* A checkpoint saves the present values.                                  *)
LEMMA CheckpointRefines ==
    ASSUME IInv, IInv', Checkpoint
    PROVE  Stack!Checkpoint
<1> DEFINE n == Len(indices)
<1>1. /\ indices' = Append(indices, Len(changeJournal))
      /\ transient' = transient /\ changeJournal' = changeJournal
  BY DEF Checkpoint
<1>2. /\ n \in Nat \ {0} /\ Len(indices') = n + 1
      /\ \A i \in 1..n : indices'[i] = indices[i]
      /\ indices'[n + 1] = Len(changeJournal)
  BY <1>1, InvFacts
<1>3. /\ SavedValues \in Seq(Values) /\ Len(SavedValues) = n - 1
      /\ SavedValues' \in Seq(Values) /\ Len(SavedValues') = n
      /\ transient \in Values
  BY <1>2, SavedFacts, SavedStayTyped, InvFacts DEF SavedOK, Values
<1> DEFINE s == Append(SavedValues, transient)
<1>4. /\ s \in Seq(Values) /\ Len(s) = n /\ s[n] = transient
      /\ \A i \in 1..(n - 1) : s[i] = SavedValues[i]
  <2> HIDE DEF Values, n
  <2> QED BY <1>2, <1>3
<1> HIDE DEF s
<1>5. ASSUME NEW i \in 1..n PROVE SavedValues'[i] = s[i]
  <2>1. SavedValues'[i] = Before(transient, changeJournal, indices'[i + 1])
    BY <1>1, <1>2 DEF SavedValues
  <2>2. CASE i = n
    <3>1. Before(transient, changeJournal, Len(changeJournal)) = transient
      BY InvFacts, BeforeNow DEF Values
    <3> QED BY <1>2, <1>4, <2>1, <2>2, <3>1
  <2>3. CASE i # n
    <3>1. i \in 1..(n - 1) /\ i + 1 \in 1..n
      BY <1>2, <2>3
    <3>2. SavedValues[i] = Before(transient, changeJournal, indices[i + 1])
      BY <3>1 DEF SavedValues
    <3> QED BY <1>2, <1>4, <2>1, <3>1, <3>2
  <2> QED BY <2>2, <2>3
<1> HIDE DEF Values, n
<1>6. SavedValues' = s
  BY <1>3, <1>4, <1>5, SeqEqual
<1> QED BY <1>1, <1>6 DEF Stack!Checkpoint, s

(* When a call is closed and the others keep what they saved, the saved    *)
(* values are the ones before without the last.                            *)
LEMMA CloseRefines ==
    ASSUME IInv, IInv', Len(indices) > 1,
           indices' = SubSeq(indices, 1, Len(indices) - 1),
           \A i \in 1..(Len(indices) - 2) :
               Before(transient', changeJournal', indices[i + 1])
                   = Before(transient, changeJournal, indices[i + 1])
    PROVE  SavedValues # <<>> /\ SavedValues' = SubSeq(SavedValues, 1, Len(SavedValues) - 1)
<1> DEFINE n == Len(indices)
<1>1. n \in Nat /\ n > 1 /\ n - 1 \in 0..n
  BY InvFacts
<1>2. Len(indices') = n - 1 /\ \A i \in 1..(n - 1) : indices'[i] = indices[i]
  BY <1>1, InvFacts, FrontFacts
<1>3. /\ SavedValues \in Seq(Values) /\ Len(SavedValues) = n - 1
      /\ SavedValues' \in Seq(Values) /\ Len(SavedValues') = n - 2
  BY <1>1, <1>2, SavedFacts, SavedStayTyped DEF SavedOK, Values
<1> DEFINE s == SubSeq(SavedValues, 1, n - 2)
<1>4. s \in Seq(Values) /\ Len(s) = n - 2 /\ \A i \in 1..(n - 2) : s[i] = SavedValues[i]
  <2>1. n - 2 \in 0..Len(SavedValues)
    BY <1>1, <1>3
  <2> HIDE DEF Values, n
  <2> QED BY <1>3, <2>1, FrontFacts
<1> HIDE DEF s
<1>5. ASSUME NEW i \in 1..(n - 2) PROVE SavedValues'[i] = s[i]
  <2>1. i \in 1..(n - 1) /\ i + 1 \in 1..(n - 1)
    BY <1>1
  <2>2. SavedValues'[i] = Before(transient', changeJournal', indices'[i + 1])
    BY <1>1, <1>2, <2>1 DEF SavedValues
  <2>3. SavedValues[i] = Before(transient, changeJournal, indices[i + 1])
    BY <2>1 DEF SavedValues
  <2> QED BY <1>2, <1>4, <2>1, <2>2, <2>3
<1> HIDE DEF Values, n
<1>6. SavedValues' = s
  BY <1>3, <1>4, <1>5, SeqEqual
<1>7. n - 2 = Len(SavedValues) - 1 /\ SavedValues # <<>>
  BY <1>1, <1>3
<1> QED BY <1>6, <1>7 DEF s

(* A commit gives up the last saved values and changes no slot.            *)
LEMMA CommitRefines ==
    ASSUME IInv, IInv', Len(indices) > 1, Commit
    PROVE  Stack!Commit
<1>1. SavedValues # <<>> /\ SavedValues' = SubSeq(SavedValues, 1, Len(SavedValues) - 1)
  BY CloseRefines DEF Commit
<1> QED BY <1>1 DEF Stack!Commit, Commit

(* A revert brings back the values at the call, and leaves what the calls  *)
(* above it would restore.                                                 *)
LEMMA RevertRefines ==
    ASSUME IInv, IInv', Len(indices) > 1, Revert
    PROVE  Stack!Revert
<1> DEFINE n == Len(indices)
           last == indices[n]
<1>1. n \in Nat /\ n > 1 /\ last \in 0..Len(changeJournal)
  BY InvFacts, LastIndex
<1>2. /\ indices' = SubSeq(indices, 1, n - 1)
      /\ changeJournal' = SubSeq(changeJournal, 1, last)
      /\ transient' = Before(transient, changeJournal, last)
  BY DEF Revert
<1>3. ASSUME NEW i \in 1..(n - 2)
      PROVE  Before(transient', changeJournal', indices[i + 1])
                 = Before(transient, changeJournal, indices[i + 1])
  <2>1. i + 1 \in 1..n /\ n \in 1..n /\ i + 1 <= n
    BY <1>1
  <2>2. indices[i + 1] \in Nat /\ indices[i + 1] <= last
    BY <2>1, InvFacts DEF IInv, IndicesOrdered
  <2>3. indices[i + 1] \in 0..last
    BY <1>1, <2>2
  <2> HIDE DEF last
  <2> QED BY <1>1, <1>2, <2>3, InvFacts, BeforeCut DEF Values
<1>4. SavedValues # <<>> /\ SavedValues' = SubSeq(SavedValues, 1, Len(SavedValues) - 1)
  BY <1>2, <1>3, CloseRefines
<1>5. transient' = SavedValues[Len(SavedValues)]
  <2>1. Len(SavedValues) = n - 1 /\ n - 1 \in 1..(n - 1) /\ (n - 1) + 1 = n
    BY <1>1, SavedFacts DEF SavedOK
  <2> QED BY <1>2, <2>1 DEF SavedValues
<1> QED BY <1>4, <1>5 DEF Stack!Revert

(* clear() leaves no value, and none for the open calls to restore.        *)
LEMMA ClearRefines ==
    ASSUME IInv, IInv', \A i \in 1..Len(indices) : indices[i] = 0, Clear
    PROVE  Stack!Clear
<1>1. transient' = NoValues /\ changeJournal' = <<>> /\ indices' = indices
  BY DEF Clear
<1>2. ASSUME NEW i \in 1..(Len(indices) - 1)
      PROVE  Before(transient', changeJournal', indices'[i + 1]) = NoValues
  <2>1. indices'[i + 1] = 0
    BY <1>1, InvFacts
  <2>2. transient' \in [AllSlots -> Value] /\ changeJournal' \in Seq(Change)
    BY DEF IInv, TypeOK
  <2>3. Len(changeJournal') = 0
    BY <1>1
  <2> QED BY <1>1, <2>1, <2>2, <2>3, BeforeNow
<1>3. SavedValues' = [i \in 1..(Len(indices) - 1) |-> NoValues]
  BY <1>1, <1>2 DEF SavedValues
<1>4. Len(SavedValues) = Len(indices) - 1
  BY SavedFacts DEF SavedOK
<1> QED BY <1>1, <1>3, <1>4 DEF Stack!Clear

(* A new transient storage has no open call.                               *)
LEMMA FreshRefines ==
    ASSUME Fresh
    PROVE  Stack!Clear
<1>1. transient' = NoValues /\ Len(indices') = 1
  BY DEF Fresh
<1>2. SavedValues' = [i \in 1..0 |-> NoValues]
  BY <1>1 DEF SavedValues
<1> QED BY <1>1, <1>2 DEF Stack!Clear

(* Every operation is a step of the stack.                                 *)
LEMMA StepRefines ==
    IInv /\ IInv' /\ [Next]_transientVars => [Stack!Next]_(Stack!vars)
<1> SUFFICES ASSUME IInv, IInv', [Next]_transientVars PROVE [Stack!Next]_(Stack!vars)
  OBVIOUS
<1>1. CASE UNCHANGED transientVars
  BY <1>1 DEF transientVars, Stack!vars, SavedValues
<1>2. CASE Next
  <2> SUFFICES Stack!Write \/ Stack!Checkpoint \/ Stack!Commit \/ Stack!Revert \/ Stack!Clear
    BY DEF Stack!Next
  <2> QED BY <1>2, PutRefines, CheckpointRefines, CommitRefines, RevertRefines,
             ClearRefines, FreshRefines DEF Next
<1> QED BY <1>1, <1>2

(* For any depth of calls, a call that fails puts every transient slot     *)
(* back to what it was when the call was made, whatever the calls it made  *)
(* wrote, committed or reverted: the list of changes and the indices do    *)
(* what a stack of full copies would.                                      *)
THEOREM TransientRefinement ==
    ASSUME 0 \in Value
    PROVE  Spec => TransientCheckpoints
<1>1. Init => Stack!Init
  <2> SUFFICES ASSUME Init PROVE Stack!Init
    OBVIOUS
  <2>1. IInv
    BY InitInv
  <2>2. SavedValues \in Seq(Values) /\ Len(SavedValues) = 0
    BY <2>1, SavedFacts DEF SavedOK, Init
  <2>3. SavedValues = <<>>
    <3> HIDE DEF Values
    <3> QED BY <2>2
  <2> QED BY <2>1, <2>3 DEF Stack!Init, IInv, TypeOK
<1> QED BY <1>1, Inductive, StepRefines, PTL DEF Spec, TransientCheckpoints, Stack!Spec

=============================================================================
