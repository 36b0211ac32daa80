--------------------------- MODULE JournalProofs ---------------------------
(***************************************************************************)
(* Proofs about Journal for any addresses and slots and any depth of       *)
(* calls: the one list of diffs restores what a stack of copies would.     *)
(***************************************************************************)
EXTENDS Journal, SequenceTheorems, WellFoundedInduction, TLAPS

(* What the EVM does with a journal: it commits and reverts only what it   *)
(* began.                                                                  *)
Next ==
    \/ \E T, A \in SUBSET Address, S \in SUBSET (Address \X Slot) : Record(T, A, S)
    \/ Checkpoint
    \/ journalHeight > 0 /\ (Commit \/ Revert)
    \/ CleanJournal

Spec == Init /\ [][Next]_journalVars

-----------------------------------------------------------------------------
(* The list of diffs. *)

DiffRecord ==
    [height : Nat, addresses : SUBSET Address, slots : SUBSET (Address \X Slot),
     touched : SUBSET Address]

(* The heights start at 0, go up or down by one, and end at the current    *)
(* one.                                                                    *)
Heights ==
    /\ journalDiff \in Seq(DiffRecord) /\ Len(journalDiff) > 0
    /\ journalHeight \in Nat
    /\ journalDiff[1].height = 0
    /\ journalDiff[Len(journalDiff)].height = journalHeight
    /\ \A i \in 1..(Len(journalDiff) - 1) :
           \/ journalDiff[i + 1].height = journalDiff[i].height + 1
           \/ journalDiff[i].height = journalDiff[i + 1].height + 1

(* What a diff has, no later one has: neither its addresses and slots, nor *)
(* the addresses of its slots.                                             *)
Apart ==
    \A i, j \in 1..Len(journalDiff) : i < j =>
        /\ \A a \in journalDiff[i].touched : a \notin journalDiff[j].touched
        /\ \A a \in journalDiff[i].addresses : a \notin journalDiff[j].addresses
        /\ \A s \in journalDiff[i].slots :
               s \notin journalDiff[j].slots /\ s[1] \notin journalDiff[j].addresses

IInv == TypeOK /\ Heights /\ Apart

(* What the invariant says of the diffs, entry by entry. *)
LEMMA InvFacts ==
    ASSUME IInv
    PROVE  /\ journalDiff \in Seq(DiffRecord)
           /\ Len(journalDiff) \in Nat \ {0} /\ DOMAIN journalDiff = 1..Len(journalDiff)
           /\ \A i \in 1..Len(journalDiff) :
                  /\ journalDiff[i].height \in Nat
                  /\ journalDiff[i].touched \subseteq touched
                  /\ journalDiff[i].addresses \subseteq warm
                  /\ journalDiff[i].slots \subseteq warmSlots
           /\ touched \subseteq Address /\ warm \subseteq Address
           /\ warmSlots \subseteq warm \X Slot
<1>1. journalDiff \in Seq(DiffRecord) /\ Len(journalDiff) > 0
  BY DEF IInv, Heights
<1> HIDE DEF DiffRecord
<1>2. Len(journalDiff) \in Nat \ {0} /\ DOMAIN journalDiff = 1..Len(journalDiff)
  BY <1>1
<1>3. \A i \in 1..Len(journalDiff) : journalDiff[i] \in DiffRecord
  BY <1>1, ElementOfSeq
<1>4. \A i \in 1..Len(journalDiff) : journalDiff[i].height \in Nat
  BY <1>3 DEF DiffRecord
<1> QED BY <1>1, <1>2, <1>4 DEF IInv, TypeOK

(* Diff k is the last one below height h.                                  *)
IsCut(D, h, k) ==
    /\ k \in 1..Len(D) /\ D[k].height < h
    /\ \A i \in (k + 1)..Len(D) : D[i].height >= h

(* What the diffs after k have not recorded.                               *)
TouchedAt(D, k, T) == {a \in T : \A i \in (k + 1)..Len(D) : a \notin D[i].touched}
WarmAt(D, k, A) == {a \in A : \A i \in (k + 1)..Len(D) : a \notin D[i].addresses}
SlotsAt(D, k, S) ==
    {s \in S : \A i \in (k + 1)..Len(D) : s \notin D[i].slots /\ s[1] \notin D[i].addresses}

CutOK ==
    \A h, k \in Nat : IsCut(journalDiff, h, k) =>
        /\ LastBelow(h) = k
        /\ TouchedBefore(h) = TouchedAt(journalDiff, k, touched)
        /\ WarmBefore(h) = WarmAt(journalDiff, k, warm)
        /\ WarmSlotsBefore(h) = SlotsAt(journalDiff, k, warmSlots)

(* The greatest number of a set is its greatest member. *)
LEMMA MaxIs ==
    ASSUME NEW S \in SUBSET Nat, NEW k \in S, \A i \in S : k >= i
    PROVE  Max(S) = k
<1>1. Max(S) \in S /\ \A i \in S : Max(S) >= i
  BY DEF Max
<1>2. Max(S) >= k /\ k >= Max(S) /\ Max(S) \in Nat
  BY <1>1
<1> QED BY <1>2

(* A bounded set of numbers that is not empty has a greatest one.          *)
LEMMA Greatest ==
    ASSUME NEW n \in Nat, NEW S \in SUBSET (1..n), S # {}
    PROVE  \E k \in S : \A i \in S : i <= k
<1> DEFINE R == {n - i : i \in S}
<1>1. R \subseteq Nat /\ R # {}
  <2>1. \A i \in S : i \in 1..n /\ n - i \in Nat
    OBVIOUS
  <2>2. PICK i \in S : TRUE
    OBVIOUS
  <2>3. n - i \in R
    OBVIOUS
  <2> QED BY <2>1, <2>3
<1>2. PICK x \in R : \A y \in R : ~ (<<y, x>> \in OpToRel(<, Nat))
  <2> HIDE DEF R
  <2> QED BY <1>1, WFMin, NatLessThanWellFounded
<1>3. \A y \in R : ~ (y < x)
  <2> HIDE DEF R
  <2> QED BY <1>1, <1>2 DEF OpToRel
<1>4. PICK k \in S : x = n - k
  BY <1>2
<1>5. ASSUME NEW i \in S PROVE i <= k
  <2>1. n - i \in R
    OBVIOUS
  <2>2. ~ (n - i < n - k)
    BY <1>3, <1>4, <2>1
  <2> QED BY <2>2
<1> QED BY <1>5

(* A revert to below height h undoes the diffs after the last one below h. *)
LEMMA CutFacts == IInv => CutOK
<1> SUFFICES ASSUME IInv, NEW h \in Nat, NEW k \in Nat, IsCut(journalDiff, h, k)
             PROVE  /\ LastBelow(h) = k
                    /\ TouchedBefore(h) = TouchedAt(journalDiff, k, touched)
                    /\ WarmBefore(h) = WarmAt(journalDiff, k, warm)
                    /\ WarmSlotsBefore(h) = SlotsAt(journalDiff, k, warmSlots)
  BY DEF CutOK
<1> DEFINE D == journalDiff
           S == {0} \cup {i \in DOMAIN D : D[i].height < h}
<1>1. DOMAIN D = 1..Len(D) /\ Len(D) \in Nat /\ \A i \in 1..Len(D) : D[i].height \in Nat
  BY InvFacts
<1>2. k \in S /\ S \subseteq Nat
  BY <1>1 DEF IsCut
<1>3. \A i \in S : k >= i
  BY <1>1 DEF IsCut
<1>4. LastBelow(h) = k
  <2> HIDE DEF S
  <2>1. Max(S) = k
    BY <1>2, <1>3, MaxIs
  <2> QED BY <2>1 DEF LastBelow, S
<1>5. Undone(h) = {D[i] : i \in (k + 1)..Len(D)}
  BY <1>4 DEF Undone
<1>6. TouchedBefore(h) = TouchedAt(D, k, touched)
  BY <1>5 DEF TouchedBefore, TouchedAt
<1>7. WarmBefore(h) = WarmAt(D, k, warm)
  BY <1>5 DEF WarmBefore, WarmAt
<1>8. WarmSlotsBefore(h) = SlotsAt(D, k, warmSlots)
  <2>1. \A s \in warmSlots : s[1] \in warm
    BY InvFacts
  <2>2. WarmSlotsBefore(h) = {s \in warmSlots \ UNION {d.slots : d \in Undone(h)} :
                                  s[1] \in WarmAt(D, k, warm)}
    BY <1>7 DEF WarmSlotsBefore
  <2> QED BY <1>5, <2>1, <2>2 DEF SlotsAt, WarmAt
<1> QED BY <1>4, <1>6, <1>7, <1>8

(* The cut of every height exists after a step too. *)
LEMMA CutStays == IInv' => CutOK'
BY CutFacts, PTL

(* Every open height has a diff below it, of the height next to it.        *)
LEMMA CutExists ==
    ASSUME IInv, NEW h \in 1..journalHeight
    PROVE  \E k \in 1..(Len(journalDiff) - 1) :
               IsCut(journalDiff, h, k) /\ journalDiff[k].height = h - 1
<1> DEFINE D == journalDiff
           n == Len(D)
           S == {i \in 1..n : D[i].height < h}
<1>1. n \in Nat \ {0} /\ \A i \in 1..n : D[i].height \in Nat
  BY InvFacts
<1>2. D[1].height = 0 /\ D[n].height = journalHeight /\ journalHeight \in Nat
  BY DEF IInv, Heights
<1>3. 1 \in S /\ S \in SUBSET (1..n)
  BY <1>1, <1>2
<1>4. PICK k \in S : \A i \in S : i <= k
  <2> HIDE DEF S, n
  <2> QED BY <1>1, <1>3, Greatest
<1>5. k \in 1..n /\ D[k].height < h
  BY <1>4
<1>6. \A i \in 1..n : D[i].height < h => i <= k
  BY <1>4
<1>7. \A i \in (k + 1)..n : D[i].height >= h
  BY <1>1, <1>5, <1>6
<1>8. k # n
  BY <1>2, <1>5
<1>9. k \in 1..(n - 1) /\ k + 1 \in (k + 1)..n /\ k + 1 \in 1..n
  BY <1>1, <1>5, <1>8
<1>10. D[k + 1].height >= h
  BY <1>7, <1>9
<1>11. D[k + 1].height = D[k].height + 1 \/ D[k].height = D[k + 1].height + 1
  BY <1>9 DEF IInv, Heights
<1>12. D[k].height \in Nat /\ D[k + 1].height \in Nat
  BY <1>1, <1>5, <1>9
<1>13. D[k].height = h - 1
  BY <1>5, <1>10, <1>11, <1>12
<1> QED BY <1>5, <1>7, <1>9, <1>13 DEF IsCut

-----------------------------------------------------------------------------
(* The invariant. *)

(* A clean journal has one diff, of height 0. *)
LEMMA InitInv == Init => IInv
<1> SUFFICES ASSUME Init PROVE IInv
  OBVIOUS
<1>1. /\ journalHeight = 0 /\ journalDiff = <<Diff(0)>>
      /\ touched = {} /\ warm = {} /\ warmSlots = {}
  BY DEF Init
<1>2. Diff(0) \in DiffRecord /\ Diff(0).height = 0
      /\ Diff(0).addresses = {} /\ Diff(0).slots = {} /\ Diff(0).touched = {}
  BY DEF Diff, DiffRecord
<1> HIDE DEF DiffRecord
<1>3. /\ journalDiff \in Seq(DiffRecord) /\ Len(journalDiff) = 1
      /\ DOMAIN journalDiff = {1} /\ journalDiff[1] = Diff(0)
  BY <1>1, <1>2
<1>4. TypeOK
  BY <1>1, <1>2, <1>3 DEF TypeOK
<1>5. Heights
  BY <1>1, <1>2, <1>3 DEF Heights
<1>6. Apart
  BY <1>3 DEF Apart
<1> QED BY <1>4, <1>5, <1>6 DEF IInv

(* Recording puts what is new into the last diff, and changes no height.   *)
IsRecord(T, A, S) ==
    LET n == Len(journalDiff)
    IN  /\ T \subseteq Address /\ A \subseteq Address /\ S \subseteq A \X Slot
        /\ journalHeight' = journalHeight
        /\ touched' = touched \cup T /\ warm' = warm \cup A /\ warmSlots' = warmSlots \cup S
        /\ journalDiff' \in Seq(DiffRecord) /\ Len(journalDiff') = n
        /\ \A i \in 1..n : journalDiff'[i].height = journalDiff[i].height
        /\ \A i \in 1..(n - 1) : journalDiff'[i] = journalDiff[i]
        /\ journalDiff'[n].touched = journalDiff[n].touched \cup (T \ touched)
        /\ journalDiff'[n].addresses = journalDiff[n].addresses \cup (A \ warm)
        /\ journalDiff'[n].slots = journalDiff[n].slots \cup (S \ warmSlots)

(* A slot warms its address.                                               *)
LEMMA RecordFacts ==
    ASSUME IInv, NEW T \in SUBSET Address, NEW B \in SUBSET Address,
           NEW S \in SUBSET (Address \X Slot), Record(T, B, S)
    PROVE  IsRecord(T, B \cup {s[1] : s \in S}, S)
<1> DEFINE A == B \cup {s[1] : s \in S}
           n == Len(journalDiff)
           new == A \ warm
           d == [journalDiff[n] EXCEPT !.touched = @ \cup (T \ touched),
                                       !.addresses = @ \cup new,
                                       !.slots = @ \cup (S \ warmSlots)]
<1>1. A \subseteq Address /\ S \subseteq A \X Slot
  OBVIOUS
<1>2. n \in Nat \ {0} /\ n \in 1..n /\ journalDiff \in Seq(DiffRecord)
  BY InvFacts
<1>3. journalDiff[n] \in DiffRecord
  <2> HIDE DEF DiffRecord
  <2> QED BY <1>2, ElementOfSeq
<1>4. /\ d \in DiffRecord /\ d.height = journalDiff[n].height
      /\ d.touched = journalDiff[n].touched \cup (T \ touched)
      /\ d.addresses = journalDiff[n].addresses \cup (A \ warm)
      /\ d.slots = journalDiff[n].slots \cup (S \ warmSlots)
  BY <1>1, <1>3 DEF DiffRecord
<1>5. /\ journalDiff' = [journalDiff EXCEPT ![n] = d]
      /\ journalHeight' = journalHeight
      /\ touched' = touched \cup T /\ warm' = warm \cup A /\ warmSlots' = warmSlots \cup S
  <2>2. journalDiff' = [journalDiff EXCEPT ![n] = d]
    BY DEF Record
  <2>3. warm' = warm \cup new
    BY DEF Record
  <2> QED BY <2>2, <2>3 DEF Record
<1> HIDE DEF d, DiffRecord
<1>6. /\ journalDiff' \in Seq(DiffRecord) /\ Len(journalDiff') = n
      /\ journalDiff'[n] = d /\ \A i \in 1..n : i # n => journalDiff'[i] = journalDiff[i]
  BY <1>2, <1>4, <1>5, ExceptSeq
<1>7. \A i \in 1..n : journalDiff'[i].height = journalDiff[i].height
  BY <1>4, <1>6
<1>8. \A i \in 1..(n - 1) : journalDiff'[i] = journalDiff[i]
  BY <1>2, <1>6
<1> HIDE DEF A
<1>9. IsRecord(T, A, S)
  BY <1>1, <1>4, <1>5, <1>6, <1>7, <1>8 DEF IsRecord
<1> QED BY <1>9 DEF A

(* Recording into the last diff keeps the invariant. *)
LEMMA RecordInv ==
    ASSUME IInv, NEW T, NEW A, NEW S, IsRecord(T, A, S)
    PROVE  IInv'
<1> DEFINE n == Len(journalDiff)
<1> USE DEF IsRecord
<1>1. n \in Nat \ {0} /\ n \in 1..n
  BY InvFacts
<1>2. \A i \in 1..n : i \in 1..(n - 1) \/ i = n
  BY <1>1
<1>3. DOMAIN journalDiff' = 1..n
  <2> HIDE DEF DiffRecord
  <2> QED BY <1>1
<1>4. TypeOK'
  <2>1. warmSlots' \subseteq warm' \X Slot
    BY InvFacts
  <2>2. touched' \subseteq Address /\ warm' \subseteq Address /\ journalHeight' \in Int
    BY InvFacts DEF IInv, TypeOK
  <2>3. ASSUME NEW i \in 1..n
        PROVE  /\ journalDiff'[i].height \in Int
               /\ journalDiff'[i].addresses \subseteq warm'
               /\ journalDiff'[i].slots \subseteq warmSlots'
               /\ journalDiff'[i].touched \subseteq touched'
    <3>1. journalDiff'[i].height \in Int
      BY InvFacts
    <3>2. CASE i = n
      BY <1>1, <3>1, <3>2, InvFacts
    <3>3. CASE i \in 1..(n - 1)
      BY <1>1, <3>1, <3>3, InvFacts
    <3> QED BY <1>2, <3>2, <3>3
  <2> QED BY <1>3, <2>1, <2>2, <2>3 DEF TypeOK
<1>5. Heights'
  <2>1. \A i \in 1..(n - 1) : i \in 1..n /\ i + 1 \in 1..n
    BY <1>1
  <2>2. 1 \in 1..n
    BY <1>1
  <2> HIDE DEF DiffRecord
  <2> QED BY <1>1, <2>1, <2>2 DEF IInv, Heights
<1>6. Apart'
  <2> SUFFICES ASSUME NEW i \in 1..n, NEW j \in 1..n, i < j
               PROVE  /\ \A a \in journalDiff'[i].touched : a \notin journalDiff'[j].touched
                      /\ \A a \in journalDiff'[i].addresses : a \notin journalDiff'[j].addresses
                      /\ \A s \in journalDiff'[i].slots :
                             s \notin journalDiff'[j].slots /\ s[1] \notin journalDiff'[j].addresses
    BY DEF Apart
  <2>1. journalDiff'[i] = journalDiff[i]
    BY <1>1
  <2>2. /\ \A a \in journalDiff[i].touched : a \notin journalDiff[j].touched
        /\ \A a \in journalDiff[i].addresses : a \notin journalDiff[j].addresses
        /\ \A s \in journalDiff[i].slots :
               s \notin journalDiff[j].slots /\ s[1] \notin journalDiff[j].addresses
    BY DEF IInv, Apart
  <2>3. /\ journalDiff[i].touched \subseteq touched /\ journalDiff[i].addresses \subseteq warm
        /\ journalDiff[i].slots \subseteq warmSlots
        /\ \A s \in warmSlots : s[1] \in warm
    BY InvFacts
  <2>4. CASE j = n
    BY <2>1, <2>2, <2>3, <2>4
  <2>5. CASE j \in 1..(n - 1)
    BY <2>1, <2>2, <2>5
  <2> QED BY <1>2, <2>4, <2>5
<1> QED BY <1>4, <1>5, <1>6 DEF IInv

(* A checkpoint and a commit begin a diff at a height next to this one.    *)
IsBegin(height) ==
    LET n == Len(journalDiff)
    IN  /\ height \in Nat
        /\ height = journalHeight + 1 \/ journalHeight = height + 1
        /\ journalHeight' = height
        /\ touched' = touched /\ warm' = warm /\ warmSlots' = warmSlots
        /\ journalDiff' \in Seq(DiffRecord) /\ Len(journalDiff') = n + 1
        /\ \A i \in 1..n : journalDiff'[i] = journalDiff[i]
        /\ journalDiff'[n + 1] = Diff(height)

(* checkpoint and commit append an empty diff of the new height. *)
LEMMA BeginFacts ==
    ASSUME IInv, NEW height \in Nat, Begin(height),
           height = journalHeight + 1 \/ journalHeight = height + 1
    PROVE  IsBegin(height)
<1>1. Diff(height) \in DiffRecord
  BY DEF Diff, DiffRecord
<1>2. journalDiff \in Seq(DiffRecord)
  BY InvFacts
<1> HIDE DEF DiffRecord
<1>3. journalDiff' = Append(journalDiff, Diff(height))
  BY DEF Begin
<1>4. /\ journalDiff' \in Seq(DiffRecord) /\ Len(journalDiff') = Len(journalDiff) + 1
      /\ \A i \in 1..Len(journalDiff) : journalDiff'[i] = journalDiff[i]
      /\ journalDiff'[Len(journalDiff) + 1] = Diff(height)
  BY <1>1, <1>2, <1>3
<1> QED BY <1>4 DEF IsBegin, Begin

(* Appending a diff of the new height keeps the invariant. *)
LEMMA BeginInv ==
    ASSUME IInv, NEW height, IsBegin(height)
    PROVE  IInv'
<1> DEFINE n == Len(journalDiff)
<1> USE DEF IsBegin
<1>1. n \in Nat \ {0}
  BY InvFacts
<1>2. DOMAIN journalDiff' = 1..(n + 1)
  <2> HIDE DEF DiffRecord
  <2> QED BY <1>1
<1>3. \A i \in 1..(n + 1) : i \in 1..n \/ i = n + 1
  BY <1>1
<1>4. /\ Diff(height).height = height /\ Diff(height).touched = {}
      /\ Diff(height).addresses = {} /\ Diff(height).slots = {}
  BY DEF Diff
<1>5. \A i \in 1..(n + 1) : /\ journalDiff'[i].height \in Int
                            /\ journalDiff'[i].addresses \subseteq warm
                            /\ journalDiff'[i].slots \subseteq warmSlots
                            /\ journalDiff'[i].touched \subseteq touched
  BY <1>3, <1>4, InvFacts
<1>6. TypeOK'
  BY <1>2, <1>5 DEF IInv, TypeOK
<1>7. Heights'
  <2>1. journalDiff[n].height = journalHeight /\ journalDiff[1].height = 0
    BY DEF IInv, Heights
  <2>2. 1 \in 1..n /\ n \in 1..n
    BY <1>1
  <2>3. ASSUME NEW i \in 1..n
        PROVE  \/ journalDiff'[i + 1].height = journalDiff'[i].height + 1
               \/ journalDiff'[i].height = journalDiff'[i + 1].height + 1
    <3>1. CASE i = n
      BY <1>4, <2>1, <2>2, <3>1
    <3>2. CASE i # n
      <4>1. i \in 1..(n - 1) /\ i + 1 \in 1..n
        BY <1>1, <3>2
      <4> QED BY <4>1 DEF IInv, Heights
    <3> QED BY <3>1, <3>2
  <2> HIDE DEF DiffRecord
  <2> QED BY <1>1, <1>4, <2>1, <2>2, <2>3 DEF Heights
<1>8. Apart'
  BY <1>3, <1>4 DEF IInv, Apart
<1> QED BY <1>6, <1>7, <1>8 DEF IInv

(* A revert keeps the diffs up to the last one below its height.           *)
IsUndo(k) ==
    /\ k \in 1..(Len(journalDiff) - 1)
    /\ IsCut(journalDiff, journalHeight, k) /\ journalDiff[k].height = journalHeight - 1
    /\ journalHeight' = journalHeight - 1
    /\ journalDiff' \in Seq(DiffRecord) /\ Len(journalDiff') = k
    /\ \A i \in 1..k : journalDiff'[i] = journalDiff[i]
    /\ touched' = TouchedAt(journalDiff, k, touched) \cup (touched \cap {Ripemd})
    /\ warm' = WarmAt(journalDiff, k, warm)
    /\ warmSlots' = SlotsAt(journalDiff, k, warmSlots)

(* revert drops the diffs of its height and above, with what they added. *)
LEMMA UndoFacts ==
    ASSUME IInv, journalHeight > 0, Revert
    PROVE  \E k \in Nat : IsUndo(k)
<1>1. journalHeight \in Nat /\ journalHeight \in 1..journalHeight
  BY DEF IInv, Heights
<1>2. PICK k \in 1..(Len(journalDiff) - 1) :
          IsCut(journalDiff, journalHeight, k) /\ journalDiff[k].height = journalHeight - 1
  BY <1>1, CutExists
<1>3. k \in Nat \ {0} /\ Len(journalDiff) \in Nat /\ k <= Len(journalDiff)
  BY InvFacts
<1>4. /\ LastBelow(journalHeight) = k
      /\ TouchedBefore(journalHeight) = TouchedAt(journalDiff, k, touched)
      /\ WarmBefore(journalHeight) = WarmAt(journalDiff, k, warm)
      /\ WarmSlotsBefore(journalHeight) = SlotsAt(journalDiff, k, warmSlots)
  BY <1>1, <1>2, <1>3, CutFacts DEF CutOK
<1>5. Max({1, k}) = k
  BY <1>3, MaxIs
<1>6. journalDiff' = SubSeq(journalDiff, 1, k)
  BY <1>4, <1>5 DEF Revert
<1>7. journalDiff \in Seq(DiffRecord)
  BY InvFacts
<1>8. /\ journalDiff' \in Seq(DiffRecord) /\ Len(journalDiff') = k
      /\ \A i \in 1..k : journalDiff'[i] = journalDiff[i]
  <2> HIDE DEF DiffRecord
  <2> QED BY <1>3, <1>6, <1>7
<1> QED BY <1>2, <1>3, <1>4, <1>8 DEF IsUndo, Revert

(* Dropping them keeps the invariant. *)
LEMMA UndoInv ==
    ASSUME IInv, NEW k \in Nat, IsUndo(k)
    PROVE  IInv'
<1> DEFINE n == Len(journalDiff)
<1>1. /\ n \in Nat \ {0} /\ k \in 1..(n - 1) /\ k \in 1..n
      /\ journalHeight \in Nat /\ journalDiff[k].height \in Nat
  BY InvFacts DEF IsUndo, IInv, Heights
<1>2. /\ journalDiff' \in Seq(DiffRecord) /\ Len(journalDiff') = k
      /\ \A i \in 1..k : journalDiff'[i] = journalDiff[i]
      /\ journalHeight' = journalHeight - 1
      /\ journalDiff[k].height = journalHeight - 1
  BY DEF IsUndo
<1>3. DOMAIN journalDiff' = 1..k
  <2> HIDE DEF DiffRecord
  <2> QED BY <1>1, <1>2
<1>4. TypeOK'
  <2>1. /\ touched' \subseteq Address /\ warm' \subseteq Address
        /\ journalHeight' \in Int
    BY <1>1, InvFacts DEF IsUndo, TouchedAt, WarmAt
  <2>2. warmSlots' \subseteq warm' \X Slot
    BY InvFacts DEF IsUndo, WarmAt, SlotsAt
  <2>3. ASSUME NEW i \in 1..k
        PROVE  /\ journalDiff'[i].height \in Int
               /\ journalDiff'[i].addresses \subseteq warm'
               /\ journalDiff'[i].slots \subseteq warmSlots'
               /\ journalDiff'[i].touched \subseteq touched'
    <3>1. i \in 1..n /\ \A j \in (k + 1)..n : j \in 1..n /\ i < j
      BY <1>1
    <3>2. journalDiff'[i] = journalDiff[i] /\ journalDiff[i].height \in Nat
      BY <1>2, <3>1, InvFacts
    <3>3. journalDiff[i].touched \subseteq touched'
      BY <3>1, InvFacts DEF IsUndo, TouchedAt, IInv, Apart
    <3>4. journalDiff[i].addresses \subseteq warm'
      BY <3>1, InvFacts DEF IsUndo, WarmAt, IInv, Apart
    <3>5. journalDiff[i].slots \subseteq warmSlots'
      BY <3>1, InvFacts DEF IsUndo, SlotsAt, IInv, Apart
    <3> QED BY <3>2, <3>3, <3>4, <3>5
  <2> QED BY <1>3, <2>1, <2>2, <2>3 DEF TypeOK
<1>5. Heights'
  <2>1. \A i \in 1..(k - 1) : i \in 1..(n - 1) /\ i \in 1..k /\ i + 1 \in 1..k
    BY <1>1
  <2>2. 1 \in 1..k /\ k \in 1..k /\ journalHeight - 1 \in Nat
    BY <1>1, <1>2
  <2>3. journalDiff'[1].height = 0 /\ journalDiff'[k].height = journalHeight - 1
    BY <1>2, <2>2 DEF IInv, Heights
  <2>4. ASSUME NEW i \in 1..(k - 1)
        PROVE  \/ journalDiff'[i + 1].height = journalDiff'[i].height + 1
               \/ journalDiff'[i].height = journalDiff'[i + 1].height + 1
    <3>1. journalDiff'[i] = journalDiff[i] /\ journalDiff'[i + 1] = journalDiff[i + 1]
      BY <1>2, <2>1
    <3>2. \/ journalDiff[i + 1].height = journalDiff[i].height + 1
          \/ journalDiff[i].height = journalDiff[i + 1].height + 1
      BY <2>1 DEF IInv, Heights
    <3> QED BY <3>1, <3>2
  <2> HIDE DEF DiffRecord
  <2> QED BY <1>1, <1>2, <2>2, <2>3, <2>4 DEF Heights
<1>6. Apart'
  <2>1. \A i \in 1..k : i \in 1..n
    BY <1>1
  <2> QED BY <1>2, <2>1 DEF IInv, Apart
<1> QED BY <1>4, <1>5, <1>6 DEF IInv

(* Every operation of the journal keeps the invariant. *)
LEMMA StepInv == IInv /\ [Next]_journalVars => IInv'
<1> SUFFICES ASSUME IInv, [Next]_journalVars PROVE IInv'
  OBVIOUS
<1>1. journalHeight \in Nat
  BY DEF IInv, Heights
<1>2. CASE UNCHANGED journalVars
  BY <1>2 DEF journalVars, IInv, TypeOK, Heights, Apart
<1>3. ASSUME NEW T \in SUBSET Address, NEW A \in SUBSET Address,
             NEW S \in SUBSET (Address \X Slot), Record(T, A, S)
      PROVE  IInv'
  BY <1>3, RecordFacts, RecordInv
<1>4. CASE Checkpoint
  BY <1>1, <1>4, BeginFacts, BeginInv DEF Checkpoint
<1>5. CASE journalHeight > 0 /\ Commit
  <2>1. journalHeight - 1 \in Nat /\ journalHeight = (journalHeight - 1) + 1
    BY <1>1, <1>5
  <2> QED BY <1>5, <2>1, BeginFacts, BeginInv DEF Commit
<1>6. CASE journalHeight > 0 /\ Revert
  BY <1>6, UndoFacts, UndoInv
<1>7. CASE CleanJournal
  <2>1. Init => IInv
    BY InitInv
  <2>2. Init' => IInv'
    BY InitInv, PTL
  <2> QED BY <1>7, <2>2 DEF CleanJournal, Init
<1> QED BY <1>2, <1>3, <1>4, <1>5, <1>6, <1>7 DEF Next

(* What each operation does to height and content.                         *)
LEMMA OpFacts ==
    ASSUME IInv
    PROVE  /\ UNCHANGED journalVars => IInv'
           /\ \A T, A \in SUBSET Address, S \in SUBSET (Address \X Slot) :
                  Record(T, A, S) => IInv' /\ journalHeight' = journalHeight
           /\ Checkpoint => IInv' /\ journalHeight' = journalHeight + 1
           /\ journalHeight > 0 /\ Commit => IInv' /\ journalHeight' = journalHeight - 1
           /\ journalHeight > 0 /\ Revert => IInv' /\ journalHeight' = journalHeight - 1
           /\ CleanJournal => IInv' /\ journalHeight' = 0
           /\ journalHeight \in Nat
<1>1. journalHeight \in Nat
  BY DEF IInv, Heights
<1>2. \A T, A \in SUBSET Address, S \in SUBSET (Address \X Slot) :
          Record(T, A, S) => Next /\ journalHeight' = journalHeight
  BY DEF Next, Record
<1>3. Checkpoint => Next /\ journalHeight' = journalHeight + 1
  BY DEF Next, Checkpoint, Begin
<1>4. journalHeight > 0 /\ Commit => Next /\ journalHeight' = journalHeight - 1
  BY DEF Next, Commit, Begin
<1>5. journalHeight > 0 /\ Revert => Next /\ journalHeight' = journalHeight - 1
  BY DEF Next, Revert
<1>6. CleanJournal => Next /\ journalHeight' = 0
  BY DEF Next, CleanJournal
<1>7. [Next]_journalVars => IInv'
  BY StepInv
<1> QED BY <1>1, <1>2, <1>3, <1>4, <1>5, <1>6, <1>7

(* A close without anything open leaves a journal that is empty, but one   *)
(* height lower.                                                           *)
LEMMA CloseEmpty ==
    ASSUME IInv, journalHeight = 0, touched = {}, warm = {}, warmSlots = {},
           Commit \/ Revert
    PROVE  /\ TypeOK' /\ journalHeight' = -1
           /\ touched' = {} /\ warm' = {} /\ warmSlots' = {}
<1>1. journalHeight' = -1 /\ touched' = {} /\ warm' = {} /\ warmSlots' = {}
  BY DEF Commit, Begin, Revert, TouchedBefore, WarmBefore, WarmSlotsBefore
<1> DEFINE D == journalDiff
<1>2. /\ D \in Seq(DiffRecord) /\ Len(D) \in Nat \ {0} /\ DOMAIN D = 1..Len(D)
      /\ \A i \in 1..Len(D) : /\ D[i].height \in Nat /\ D[i].touched = {}
                              /\ D[i].addresses = {} /\ D[i].slots = {}
  BY InvFacts
<1>3. CASE Commit
  <2>1. D' = Append(D, Diff(-1))
    BY <1>3 DEF Commit, Begin
  <2>2. \A i \in DOMAIN D' : (i \in 1..Len(D) /\ D'[i] = D[i]) \/ D'[i] = Diff(-1)
    <3> HIDE DEF D, DiffRecord
    <3> QED BY <1>2, <2>1
  <2>3. /\ Diff(-1).height = -1 /\ Diff(-1).touched = {} /\ Diff(-1).addresses = {}
        /\ Diff(-1).slots = {}
    BY DEF Diff
  <2> QED BY <1>1, <1>2, <2>2, <2>3 DEF TypeOK
<1>4. CASE Revert
  <2> DEFINE S == {0} \cup {i \in DOMAIN D : D[i].height < 0}
  <2>1. S = {0}
    BY <1>2
  <2>2. LastBelow(journalHeight) = 0
    <3>1. Max(S) = 0
      BY <2>1, MaxIs
    <3> QED BY <3>1 DEF LastBelow
  <2>3. Max({1, 0}) = 1
    BY MaxIs
  <2>4. D' = SubSeq(D, 1, 1)
    BY <1>4, <2>2, <2>3 DEF Revert
  <2>5. DOMAIN D' = {1} /\ D'[1] = D[1]
    <3> HIDE DEF D, DiffRecord
    <3> QED BY <1>2, <2>4
  <2> QED BY <1>1, <1>2, <2>5 DEF TypeOK
<1> QED BY <1>1, <1>3, <1>4

(* In any run of records, checkpoints, commits and reverts the heights of  *)
(* the diffs change by one from each to the next, and no later diff has    *)
(* what an earlier one has: what makes cutting the list a rollback.        *)
THEOREM Inductive == Spec => []IInv
BY InitInv, StepInv, PTL DEF Spec

(* What the diffs hold is in the journal, and the address of every warm    *)
(* slot is warm.                                                           *)
THEOREM TypeCorrect == Spec => []TypeOK
<1>1. IInv => TypeOK
  BY DEF IInv
<1> QED BY <1>1, Inductive, PTL

-----------------------------------------------------------------------------
(* Refinement of the stack of checkpoints. *)

Contents == [Item -> BOOLEAN]
Now == Content(touched, warm, warmSlots)
Then(h) == Content(TouchedBefore(h), WarmBefore(h), WarmSlotsBefore(h))
Saved == [h \in 1..journalHeight |-> Then(h)]

(* The contents that are compared are records of three sets. *)
LEMMA ContentType ==
    ASSUME NEW T, NEW A, NEW S
    PROVE  Content(T, A, S) \in Contents
<1>1. ASSUME NEW x \in Item
      PROVE  (CASE x[1] = "touched" -> x[2] \in T [] x[1] = "warm" -> x[2] \in A [] x[1] = "slot" -> x[2] \in S)
                 \in BOOLEAN
  <2>1. CASE x[1] = "touched"
    BY <2>1
  <2>2. CASE x[1] = "warm"
    BY <2>2
  <2>3. CASE x[1] = "slot"
    BY <2>3
  <2> QED BY <2>1, <2>2, <2>3 DEF Item
<1> QED BY <1>1 DEF Content, Contents

(* The address a revert leaves touched is no item.                         *)
LEMMA SameContent ==
    ASSUME NEW T, NEW T2, NEW A, NEW S,
           \A a : a # Ripemd => (a \in T <=> a \in T2)
    PROVE  Content(T, A, S) = Content(T2, A, S)
<1>1. ASSUME NEW x \in Item
      PROVE  Content(T, A, S)[x] = Content(T2, A, S)[x]
  <2>1. CASE x[1] = "touched"
    <3>1. x[2] # Ripemd
      BY <2>1 DEF Item
    <3>2. x[2] \in T <=> x[2] \in T2
      BY <3>1
    <3>3. /\ Content(T, A, S)[x] = (x[2] \in T)
          /\ Content(T2, A, S)[x] = (x[2] \in T2)
      BY <2>1 DEF Content
    <3> QED BY <3>2, <3>3
  <2>2. CASE x[1] = "warm"
    BY <2>2 DEF Content
  <2>3. CASE x[1] = "slot"
    BY <2>3 DEF Content
  <2>4. x[1] \in {"touched", "warm", "slot"}
    BY DEF Item
  <2> QED BY <2>1, <2>2, <2>3, <2>4
<1>2. Content(T, A, S) \in Contents /\ Content(T2, A, S) \in Contents
  BY ContentType
<1> QED BY <1>1, <1>2 DEF Contents

(* What every open call would restore.                                     *)
LEMMA SavedFacts ==
    ASSUME IInv
    PROVE  Saved \in Seq(Contents) /\ Len(Saved) = journalHeight
<1>1. journalHeight \in Nat
  BY DEF IInv, Heights
<1>2. Saved \in [1..journalHeight -> Contents]
  BY ContentType DEF Saved, Then
<1> HIDE DEF Contents
<1>3. Saved \in Seq(Contents) /\ DOMAIN Saved = 1..journalHeight
  BY <1>1, <1>2, IsASeq
<1> QED BY <1>1, <1>3

SavedOK == Saved \in Seq(Contents) /\ Len(Saved) = journalHeight

(* What the open checkpoints would restore has its type after a step too. *)
LEMMA SavedStayTyped == IInv' => SavedOK'
<1>1. IInv => SavedOK
  BY SavedFacts DEF SavedOK
<1> QED BY <1>1, PTL

(* What a call would restore, in the words of the diff below its height.   *)
LEMMA ThenIs ==
    ASSUME IInv, NEW h \in Nat, NEW k \in Nat, IsCut(journalDiff, h, k)
    PROVE  Then(h) = Content(TouchedAt(journalDiff, k, touched), WarmAt(journalDiff, k, warm),
                             SlotsAt(journalDiff, k, warmSlots))
BY CutFacts DEF CutOK, Then

(* What a height would restore after a step, from the cut of the new diffs. *)
LEMMA ThenWillBe ==
    ASSUME IInv', NEW h \in Nat, NEW k \in Nat, IsCut(journalDiff', h, k)
    PROVE  Then(h)' = Content(TouchedAt(journalDiff', k, touched'), WarmAt(journalDiff', k, warm'),
                              SlotsAt(journalDiff', k, warmSlots'))
BY CutStays DEF CutOK, Then

(* Each open height has its diff.                                          *)
LEMMA OpenCut ==
    ASSUME IInv, NEW h \in 1..journalHeight
    PROVE  h \in Nat /\ \E k \in Nat : k \in 1..(Len(journalDiff) - 1) /\ IsCut(journalDiff, h, k)
<1>1. journalHeight \in Nat
  BY DEF IInv, Heights
<1> QED BY <1>1, CutExists

(* What is recorded goes when any of the open calls fails.                 *)
LEMMA RecordKeeps ==
    ASSUME IInv, IInv', NEW T, NEW A, NEW S, IsRecord(T, A, S), NEW h \in 1..journalHeight
    PROVE  Then(h)' = Then(h) /\ TouchedBefore(h)' = TouchedBefore(h)
<1> DEFINE n == Len(journalDiff)
<1>1. n \in Nat \ {0} /\ h \in Nat
  BY InvFacts, OpenCut
<1>2. PICK k \in Nat : k \in 1..(n - 1) /\ IsCut(journalDiff, h, k)
  BY OpenCut
<1>3. \A i \in 1..n : journalDiff'[i].height = journalDiff[i].height
  BY DEF IsRecord
<1>4. IsCut(journalDiff', h, k)
  BY <1>1, <1>2, <1>3 DEF IsCut, IsRecord
<1>5. /\ \A i \in (k + 1)..n : i \in 1..(n - 1) \/ i = n
      /\ n \in (k + 1)..n
  BY <1>1, <1>2
<1>6. /\ \A i \in 1..n : /\ journalDiff[i].touched \subseteq touched
                         /\ journalDiff[i].addresses \subseteq warm
                         /\ journalDiff[i].slots \subseteq warmSlots
      /\ \A s \in warmSlots : s[1] \in warm
  BY InvFacts
<1>7. TouchedAt(journalDiff', k, touched') = TouchedAt(journalDiff, k, touched)
  BY <1>5, <1>6 DEF TouchedAt, IsRecord
<1>8. WarmAt(journalDiff', k, warm') = WarmAt(journalDiff, k, warm)
  BY <1>5, <1>6 DEF WarmAt, IsRecord
<1>9. SlotsAt(journalDiff', k, warmSlots') = SlotsAt(journalDiff, k, warmSlots)
  BY <1>5, <1>6 DEF SlotsAt, IsRecord
<1>10. TouchedBefore(h)' = TouchedBefore(h)
  BY <1>1, <1>2, <1>4, <1>7, CutFacts, CutStays DEF CutOK
<1> QED BY <1>1, <1>2, <1>4, <1>7, <1>8, <1>9, <1>10, ThenIs, ThenWillBe

(* A record leaves what is saved.                                          *)
LEMMA RecordRefines ==
    ASSUME IInv, IInv', NEW T, NEW A, NEW S, IsRecord(T, A, S)
    PROVE  Now' \in Contents /\ Saved' = Saved
<1>1. Now' \in Contents
  BY ContentType DEF Now
<1>2. journalHeight' = journalHeight
  BY DEF IsRecord
<1>3. \A h \in 1..journalHeight : Then(h)' = Then(h)
  BY RecordKeeps
<1>4. Saved' = [h \in 1..journalHeight |-> Then(h)']
  BY <1>2 DEF Saved
<1> QED BY <1>1, <1>3, <1>4 DEF Saved

(* A new diff is none that a lower height would undo.                      *)
LEMMA BeginKeeps ==
    ASSUME IInv, IInv', NEW height, IsBegin(height),
           NEW h \in 1..journalHeight, h <= height
    PROVE  Then(h)' = Then(h) /\ TouchedBefore(h)' = TouchedBefore(h)
<1> DEFINE n == Len(journalDiff)
<1>1. n \in Nat \ {0} /\ h \in Nat
  BY InvFacts, OpenCut
<1>2. PICK k \in Nat : k \in 1..(n - 1) /\ IsCut(journalDiff, h, k)
  BY OpenCut
<1>3. /\ height \in Nat /\ Len(journalDiff') = n + 1
      /\ \A i \in 1..n : journalDiff'[i] = journalDiff[i]
      /\ journalDiff'[n + 1].height = height /\ journalDiff'[n + 1].touched = {}
      /\ journalDiff'[n + 1].addresses = {} /\ journalDiff'[n + 1].slots = {}
      /\ touched' = touched /\ warm' = warm /\ warmSlots' = warmSlots
  BY DEF IsBegin, Diff
<1>4. /\ \A i \in (k + 1)..(n + 1) : i \in (k + 1)..n \/ i = n + 1
      /\ \A i \in (k + 1)..n : i \in (k + 1)..(n + 1) /\ i \in 1..n
  BY <1>1, <1>2
<1>5. IsCut(journalDiff', h, k)
  <2>1. k \in 1..(n + 1) /\ k \in 1..n
    BY <1>1, <1>2
  <2>2. journalDiff'[k].height < h
    BY <1>2, <1>3, <2>1 DEF IsCut
  <2>3. \A i \in (k + 1)..(n + 1) : journalDiff'[i].height >= h
    BY <1>2, <1>3, <1>4, <1>1 DEF IsCut
  <2> QED BY <1>3, <2>1, <2>2, <2>3 DEF IsCut
<1>6. TouchedAt(journalDiff', k, touched') = TouchedAt(journalDiff, k, touched)
  BY <1>3, <1>4 DEF TouchedAt
<1>7. WarmAt(journalDiff', k, warm') = WarmAt(journalDiff, k, warm)
  BY <1>3, <1>4 DEF WarmAt
<1>8. SlotsAt(journalDiff', k, warmSlots') = SlotsAt(journalDiff, k, warmSlots)
  BY <1>3, <1>4 DEF SlotsAt
<1>9. TouchedBefore(h)' = TouchedBefore(h)
  BY <1>1, <1>2, <1>5, <1>6, CutFacts, CutStays DEF CutOK
<1> QED BY <1>1, <1>2, <1>5, <1>6, <1>7, <1>8, <1>9, ThenIs, ThenWillBe

(* A checkpoint saves what there is.                                       *)
LEMMA CheckpointRefines ==
    ASSUME IInv, IInv', IsBegin(journalHeight + 1)
    PROVE  /\ Now' = Now /\ Saved' = Append(Saved, Now)
           /\ \A h : h = journalHeight + 1 => TouchedBefore(h)' = touched
<1> DEFINE n == Len(journalDiff)
<1>0. PICK H \in Nat : H = journalHeight
  BY DEF IInv, Heights
<1>1. /\ H \in Nat /\ n \in Nat \ {0} /\ journalDiff[n].height = H
      /\ journalHeight' = H + 1 /\ H + 1 \in Nat
  BY <1>0, InvFacts DEF IInv, Heights, IsBegin
<1>2. Now' = Now
  BY DEF Now, IsBegin
<1>3. \A h \in 1..H : Then(h)' = Then(h)
  BY <1>0, <1>1, BeginKeeps
<1>4. Then(H + 1)' = Now /\ TouchedBefore(H + 1)' = touched
  <2>1. /\ Len(journalDiff') = n + 1 /\ journalDiff'[n] = journalDiff[n]
        /\ journalDiff'[n + 1].height = H + 1 /\ journalDiff'[n + 1].touched = {}
        /\ journalDiff'[n + 1].addresses = {} /\ journalDiff'[n + 1].slots = {}
        /\ touched' = touched /\ warm' = warm /\ warmSlots' = warmSlots
    BY <1>0, <1>1 DEF IsBegin, Diff
  <2>2. (n + 1)..(n + 1) = {n + 1}
    BY <1>1
  <2>3. IsCut(journalDiff', H + 1, n)
    BY <1>1, <2>1, <2>2 DEF IsCut
  <2>4. TouchedAt(journalDiff', n, touched') = touched
    BY <2>1, <2>2 DEF TouchedAt
  <2>5. WarmAt(journalDiff', n, warm') = warm
    BY <2>1, <2>2 DEF WarmAt
  <2>6. SlotsAt(journalDiff', n, warmSlots') = warmSlots
    BY <2>1, <2>2 DEF SlotsAt
  <2>7. n \in Nat
    BY <1>1
  <2>8. Then(H + 1)' = Content(TouchedAt(journalDiff', n, touched'),
                               WarmAt(journalDiff', n, warm'),
                               SlotsAt(journalDiff', n, warmSlots'))
    <3> DEFINE h == H + 1
    <3>1. h \in Nat /\ IsCut(journalDiff', h, n)
      BY <1>1, <2>3
    <3>2. CutOK'
      BY CutStays
    <3> QED BY <2>7, <3>1, <3>2 DEF CutOK, Then
  <2>9. TouchedBefore(H + 1)' = touched
    <3> DEFINE h == H + 1
    <3>1. h \in Nat /\ IsCut(journalDiff', h, n)
      BY <1>1, <2>3
    <3> QED BY <2>4, <2>7, <3>1, CutStays DEF CutOK
  <2> QED BY <2>4, <2>5, <2>6, <2>8, <2>9 DEF Now
<1>5. Saved \in Seq(Contents) /\ Len(Saved) = H /\ Now \in Contents
  BY <1>0, SavedFacts, ContentType DEF Now
<1>6. Saved' \in Seq(Contents) /\ Len(Saved') = H + 1
  BY <1>1, SavedStayTyped DEF SavedOK
<1> DEFINE s == Append(Saved, Now)
<1>7. /\ s \in Seq(Contents) /\ Len(s) = H + 1 /\ s[H + 1] = Now
      /\ \A h \in 1..H : s[h] = Saved[h]
  <2> HIDE DEF Contents, Now, Saved
  <2> QED BY <1>1, <1>5
<1> HIDE DEF s
<1>8. ASSUME NEW h \in 1..(H + 1) PROVE Saved'[h] = s[h]
  <2>1. CASE h = H + 1
    BY <1>1, <1>4, <1>7, <2>1 DEF Saved
  <2>2. CASE h # H + 1
    <3>1. h \in 1..H
      BY <1>1, <2>2
    <3> QED BY <1>0, <1>1, <1>3, <1>7, <3>1 DEF Saved
  <2> QED BY <2>1, <2>2
<1> HIDE DEF Contents, Now, Saved
<1>9. Saved' = s
  BY <1>1, <1>6, <1>7, <1>8, SeqEqual
<1>10. \A h : h = journalHeight + 1 => TouchedBefore(h)' = touched
  BY <1>0, <1>4
<1> QED BY <1>2, <1>9, <1>10 DEF s

(* When the last height is closed and the others keep what they saved.     *)
LEMMA CloseRefines ==
    ASSUME IInv, IInv', journalHeight > 0, journalHeight' = journalHeight - 1,
           \A h \in 1..(journalHeight - 1) : Then(h)' = Then(h)
    PROVE  Saved # <<>> /\ Saved' = SubSeq(Saved, 1, Len(Saved) - 1)
<1>0. PICK H \in Nat : H = journalHeight
  BY DEF IInv, Heights
<1>1. H \in Nat /\ H > 0 /\ H - 1 \in Nat
  BY <1>0
<1>2. Saved \in Seq(Contents) /\ Len(Saved) = H
  BY <1>0, SavedFacts
<1>3. Saved' \in Seq(Contents) /\ Len(Saved') = H - 1
  BY <1>0, SavedStayTyped DEF SavedOK
<1> DEFINE s == SubSeq(Saved, 1, H - 1)
<1>4. s \in Seq(Contents) /\ Len(s) = H - 1 /\ \A h \in 1..(H - 1) : s[h] = Saved[h]
  <2> HIDE DEF Contents, Saved
  <2> QED BY <1>1, <1>2
<1> HIDE DEF s
<1>5. ASSUME NEW h \in 1..(H - 1) PROVE Saved'[h] = s[h]
  <2>1. h \in 1..H /\ Then(h)' = Then(h) /\ journalHeight' = H - 1
    BY <1>0, <1>1
  <2>2. Saved'[h] = Then(h)'
    BY <2>1 DEF Saved
  <2>3. Saved[h] = Then(h)
    BY <1>0, <2>1 DEF Saved
  <2> QED BY <1>4, <2>1, <2>2, <2>3
<1> HIDE DEF Contents, Saved
<1>6. Saved' = s
  BY <1>3, <1>4, <1>5, SeqEqual
<1>7. Saved # <<>>
  BY <1>1, <1>2
<1> QED BY <1>2, <1>6, <1>7 DEF s

(* A commit gives up the last saved content.                               *)
LEMMA CommitRefines ==
    ASSUME IInv, IInv', journalHeight > 0, IsBegin(journalHeight - 1)
    PROVE  Stack!Commit
<1>1. Now' = Now /\ journalHeight' = journalHeight - 1
  BY DEF Now, IsBegin
<1>2. \A h \in 1..(journalHeight - 1) : Then(h)' = Then(h)
  <2>1. journalHeight \in Nat
    BY DEF IInv, Heights
  <2>2. \A h \in 1..(journalHeight - 1) : h \in 1..journalHeight /\ h <= journalHeight - 1
    BY <2>1
  <2> QED BY <2>2, BeginKeeps
<1> QED BY <1>1, <1>2, CloseRefines DEF Stack!Commit, Now, Saved, Then

(* A revert leaves what the lower heights would restore.                   *)
LEMMA UndoKeeps ==
    ASSUME IInv, IInv', NEW k \in Nat, IsUndo(k), NEW h \in 1..(journalHeight - 1)
    PROVE  Then(h)' = Then(h) /\ TouchedBefore(h) \subseteq TouchedBefore(h)'
<1> DEFINE n == Len(journalDiff)
<1>1. journalHeight \in Nat /\ h \in 1..journalHeight /\ n \in Nat \ {0}
  BY InvFacts DEF IInv, Heights
<1>2. PICK m \in Nat : m \in 1..(n - 1) /\ IsCut(journalDiff, h, m)
  BY <1>1, OpenCut
<1>3. /\ k \in 1..(n - 1) /\ \A i \in (k + 1)..n : journalDiff[i].height >= journalHeight
      /\ journalDiff[k].height = journalHeight - 1
      /\ Len(journalDiff') = k /\ \A i \in 1..k : journalDiff'[i] = journalDiff[i]
  BY DEF IsUndo, IsCut
<1>4. m < k
  <2>1. journalDiff[m].height < h /\ journalDiff[m].height \in Nat /\ m \in 1..n
    BY <1>1, <1>2, InvFacts DEF IsCut
  <2>2. ~ (m \in (k + 1)..n) /\ m # k
    BY <1>1, <1>3, <2>1
  <2> QED BY <1>1, <1>3, <2>1, <2>2
<1>5. IsCut(journalDiff', h, m)
  BY <1>1, <1>2, <1>3, <1>4 DEF IsCut
<1>6. /\ \A i \in (m + 1)..n : i \in (m + 1)..k \/ i \in (k + 1)..n
      /\ \A i \in (m + 1)..k : i \in (m + 1)..n /\ i \in 1..k
      /\ \A i \in (k + 1)..n : i \in (m + 1)..n
  BY <1>1, <1>2, <1>3, <1>4
<1>7. WarmAt(journalDiff', m, warm') = WarmAt(journalDiff, m, warm)
  <2>1. warm' = WarmAt(journalDiff, k, warm)
    BY DEF IsUndo
  <2> QED BY <1>3, <1>6, <2>1 DEF WarmAt
<1>8. SlotsAt(journalDiff', m, warmSlots') = SlotsAt(journalDiff, m, warmSlots)
  <2>1. warmSlots' = SlotsAt(journalDiff, k, warmSlots)
    BY DEF IsUndo
  <2> QED BY <1>3, <1>6, <2>1 DEF SlotsAt
<1>9. \A a : a # Ripemd =>
          (a \in TouchedAt(journalDiff', m, touched') <=> a \in TouchedAt(journalDiff, m, touched))
  <2>1. touched' = TouchedAt(journalDiff, k, touched) \cup (touched \cap {Ripemd})
    BY DEF IsUndo
  <2> QED BY <1>3, <1>6, <2>1 DEF TouchedAt
<1>10. h \in Nat
  BY <1>1
<1>11. Then(h) = Content(TouchedAt(journalDiff, m, touched), WarmAt(journalDiff, m, warm),
                         SlotsAt(journalDiff, m, warmSlots))
  BY <1>2, <1>10, ThenIs
<1>12. Then(h)' = Content(TouchedAt(journalDiff', m, touched'), WarmAt(journalDiff', m, warm'),
                          SlotsAt(journalDiff', m, warmSlots'))
  BY <1>2, <1>5, <1>10, ThenWillBe
<1>13. TouchedBefore(h) \subseteq TouchedBefore(h)'
  <2>1. touched' = TouchedAt(journalDiff, k, touched) \cup (touched \cap {Ripemd})
    BY DEF IsUndo
  <2>2. TouchedAt(journalDiff, m, touched) \subseteq TouchedAt(journalDiff', m, touched')
    BY <1>3, <1>6, <2>1 DEF TouchedAt
  <2>3. /\ TouchedBefore(h) = TouchedAt(journalDiff, m, touched)
        /\ TouchedBefore(h)' = TouchedAt(journalDiff', m, touched')
    BY <1>2, <1>5, <1>10, CutFacts, CutStays DEF CutOK
  <2> QED BY <2>2, <2>3
<1> QED BY <1>7, <1>8, <1>9, <1>11, <1>12, <1>13, SameContent

(* A revert brings back the content saved last.                            *)
LEMMA RevertRefines ==
    ASSUME IInv, IInv', journalHeight > 0, NEW k \in Nat, IsUndo(k)
    PROVE  Stack!Revert
<1>1. Saved # <<>> /\ Saved' = SubSeq(Saved, 1, Len(Saved) - 1)
  <2>1. journalHeight' = journalHeight - 1
    BY DEF IsUndo
  <2> QED BY <2>1, UndoKeeps, CloseRefines
<1>2. Now' = Saved[Len(Saved)]
  <2>1. journalHeight \in Nat /\ journalHeight \in 1..journalHeight
    BY DEF IInv, Heights
  <2>2. Saved[Len(Saved)] = Then(journalHeight)
    BY <2>1, SavedFacts DEF Saved
  <2>3. Then(journalHeight) = Content(TouchedAt(journalDiff, k, touched),
                                      WarmAt(journalDiff, k, warm),
                                      SlotsAt(journalDiff, k, warmSlots))
    BY <2>1, ThenIs DEF IsUndo
  <2>4. Now' = Content(touched', WarmAt(journalDiff, k, warm), SlotsAt(journalDiff, k, warmSlots))
    BY DEF Now, IsUndo
  <2>5. \A a : a # Ripemd => (a \in touched' <=> a \in TouchedAt(journalDiff, k, touched))
    BY DEF IsUndo
  <2> QED BY <2>2, <2>3, <2>4, <2>5, SameContent
<1> QED BY <1>1, <1>2 DEF Stack!Revert, Now, Saved, Then

(* A clean journal has no open call.                                       *)
LEMMA CleanRefines ==
    ASSUME CleanJournal
    PROVE  Stack!Clear
<1>1. /\ journalHeight' = 0 /\ touched' = {} /\ warm' = {} /\ warmSlots' = {}
  BY DEF CleanJournal
<1>2. Content({}, {}, {}) = [x \in Item |-> FALSE]
  <2> DEFINE none == {}
  <2> HIDE DEF none
  <2>1. ASSUME NEW x \in Item PROVE Content(none, none, none)[x] = (x[2] \in none)
    <3>1. x[1] \in {"touched", "warm", "slot"}
      BY DEF Item
    <3>2. CASE x[1] = "touched"
      BY <3>2 DEF Content
    <3>3. CASE x[1] = "warm"
      BY <3>3 DEF Content
    <3>4. CASE x[1] = "slot"
      BY <3>4 DEF Content
    <3> QED BY <3>1, <3>2, <3>3, <3>4
  <2>2. \A x \in Item : (x[2] \in none) = FALSE
    BY DEF none
  <2>3. \A x \in Item : Content(none, none, none)[x] = FALSE
    BY <2>1, <2>2
  <2>4. Content(none, none, none) \in Contents
    BY ContentType
  <2>5. Content(none, none, none) = [x \in Item |-> FALSE]
    BY <2>3, <2>4 DEF Contents
  <2> QED BY <2>5 DEF none
<1>3. Now' = [x \in Item |-> FALSE]
  BY <1>1, <1>2 DEF Now
<1>4. Saved' = [i \in 1..0 |-> [x \in Item |-> FALSE]]
  BY <1>1 DEF Saved
<1> QED BY <1>3, <1>4 DEF Stack!Clear, Now, Saved, Then

(* A step that leaves the journal alone leaves the stack alone. *)
LEMMA StutterRefines ==
    ASSUME UNCHANGED journalVars
    PROVE  UNCHANGED Stack!vars
BY DEF journalVars, Stack!vars, TouchedBefore, WarmBefore, WarmSlotsBefore, Undone, LastBelow

(* With no call open the heights do not matter.                            *)
LEMMA ClosedRefines ==
    ASSUME journalHeight \in Int, journalHeight <= 0,
           journalHeight' \in Int, journalHeight' <= 0,
           touched' = touched, warm' = warm, warmSlots' = warmSlots
    PROVE  UNCHANGED Stack!vars
<1>1. Now' = Now
  BY DEF Now
<1>2. 1..journalHeight = {} /\ 1..journalHeight' = {}
  OBVIOUS
<1>3. Saved = [h \in {} |-> Then(h)] /\ Saved' = [h \in {} |-> Then(h)']
  BY <1>2 DEF Saved
<1>4. Saved' = Saved
  BY <1>3
<1> QED BY <1>1, <1>4 DEF Stack!vars, Now, Saved, Then

(* Every operation is a step of the stack.                                 *)
LEMMA StepRefines ==
    IInv /\ IInv' /\ [Next]_journalVars => [Stack!Next]_(Stack!vars)
<1> SUFFICES ASSUME IInv, IInv', [Next]_journalVars PROVE [Stack!Next]_(Stack!vars)
  OBVIOUS
<1>1. CASE UNCHANGED journalVars
  BY <1>1, StutterRefines
<1>2. journalHeight \in Nat
  BY DEF IInv, Heights
<1>3. ASSUME NEW T \in SUBSET Address, NEW A \in SUBSET Address,
             NEW S \in SUBSET (Address \X Slot), Record(T, A, S)
      PROVE  Stack!Write
  <2>1. Now' \in Contents /\ Saved' = Saved
    BY <1>3, RecordFacts, RecordRefines
  <2> QED BY <2>1 DEF Stack!Write, Contents, Now, Saved, Then
<1>4. CASE Checkpoint
  <2>1. Now' = Now /\ Saved' = Append(Saved, Now)
    BY <1>2, <1>4, BeginFacts, CheckpointRefines DEF Checkpoint
  <2> QED BY <2>1 DEF Stack!Next, Stack!Checkpoint, Now, Saved, Then
<1>5. CASE journalHeight > 0 /\ Commit
  <2>1. journalHeight - 1 \in Nat /\ journalHeight = (journalHeight - 1) + 1
    BY <1>2, <1>5
  <2> QED BY <1>5, <2>1, BeginFacts, CommitRefines DEF Commit, Stack!Next
<1>6. CASE journalHeight > 0 /\ Revert
  BY <1>6, UndoFacts, RevertRefines DEF Stack!Next
<1>7. CASE CleanJournal
  BY <1>7, CleanRefines DEF Stack!Next
<1> QED BY <1>1, <1>3, <1>4, <1>5, <1>6, <1>7 DEF Next, Stack!Next

(* A clean journal has no checkpoint to restore. *)
LEMMA InitRefines == Init => Stack!Init
<1> SUFFICES ASSUME Init PROVE Stack!Init
  OBVIOUS
<1>1. journalHeight = 0
  BY DEF Init
<1>2. Now \in Contents
  BY ContentType DEF Now
<1>3. Saved = <<>>
  <2>1. Saved \in Seq(Contents) /\ Len(Saved) = 0
    BY <1>1, InitInv, SavedFacts
  <2> HIDE DEF Contents, Saved
  <2> QED BY <2>1
<1> QED BY <1>2, <1>3 DEF Stack!Init, Now, Saved, Then, Contents

(* The one list of diffs with heights restores, for any addresses and      *)
(* slots and any sequence of commits and reverts between a call and its    *)
(* failure, what a stack of copies of the journal would.                   *)
THEOREM JournalRefinement == Spec => JournalCheckpoints
BY InitRefines, Inductive, StepRefines, PTL DEF Spec, JournalCheckpoints, Stack!Spec

-----------------------------------------------------------------------------
(* What an open call would leave touched: it does not lose an address, and *)
(* when the call fails it is touched, the address that stays so among it.  *)
LEMMA TouchedFacts ==
    ASSUME IInv
    PROVE  /\ \A T, B \in SUBSET Address, S \in SUBSET (Address \X Slot) : Record(T, B, S) =>
                  /\ touched' = touched \cup T
                  /\ \A h \in 1..journalHeight : TouchedBefore(h) \subseteq TouchedBefore(h)'
           /\ Checkpoint =>
                  /\ touched' = touched
                  /\ \A h \in 1..journalHeight : TouchedBefore(h) \subseteq TouchedBefore(h)'
                  /\ \A h : h = journalHeight + 1 => TouchedBefore(h)' = touched
           /\ journalHeight > 0 /\ Commit =>
                  /\ touched' = touched
                  /\ \A h \in 1..(journalHeight - 1) : TouchedBefore(h) \subseteq TouchedBefore(h)'
           /\ journalHeight > 0 /\ Revert =>
                  /\ \A h : h = journalHeight => TouchedBefore(h) \subseteq touched'
                  /\ \A h \in 1..(journalHeight - 1) : TouchedBefore(h) \subseteq TouchedBefore(h)'
<1>1. journalHeight \in Nat
  BY DEF IInv, Heights
<1>2. ASSUME NEW T \in SUBSET Address, NEW B \in SUBSET Address,
             NEW S \in SUBSET (Address \X Slot), Record(T, B, S)
      PROVE  /\ touched' = touched \cup T
             /\ \A h \in 1..journalHeight : TouchedBefore(h) \subseteq TouchedBefore(h)'
  <2>1. IInv'
    BY <1>2, OpFacts
  <2>2. touched' = touched \cup T
    BY <1>2 DEF Record
  <2> QED BY <1>2, <2>1, <2>2, RecordFacts, RecordKeeps
<1>3. ASSUME Checkpoint
      PROVE  /\ touched' = touched
             /\ \A h \in 1..journalHeight : TouchedBefore(h) \subseteq TouchedBefore(h)'
             /\ \A h : h = journalHeight + 1 => TouchedBefore(h)' = touched
  <2>1. IInv' /\ IsBegin(journalHeight + 1)
    BY <1>1, <1>3, OpFacts, BeginFacts DEF Checkpoint
  <2>2. touched' = touched
    BY <1>3 DEF Checkpoint, Begin
  <2>3. \A h \in 1..journalHeight : h <= journalHeight + 1
    BY <1>1
  <2>4. \A h \in 1..journalHeight : TouchedBefore(h)' = TouchedBefore(h)
    BY <2>1, <2>3, BeginKeeps
  <2> QED BY <2>1, <2>2, <2>4, CheckpointRefines
<1>4. ASSUME journalHeight > 0, Commit
      PROVE  /\ touched' = touched
             /\ \A h \in 1..(journalHeight - 1) : TouchedBefore(h) \subseteq TouchedBefore(h)'
  <2>1. journalHeight - 1 \in Nat /\ journalHeight = (journalHeight - 1) + 1
    BY <1>1, <1>4
  <2>2. IInv' /\ IsBegin(journalHeight - 1)
    BY <1>4, <2>1, OpFacts, BeginFacts DEF Commit
  <2>3. touched' = touched
    BY <1>4 DEF Commit, Begin
  <2>4. \A h \in 1..(journalHeight - 1) : h \in 1..journalHeight /\ h <= journalHeight - 1
    BY <1>1
  <2>5. \A h \in 1..(journalHeight - 1) : TouchedBefore(h)' = TouchedBefore(h)
    BY <2>2, <2>4, BeginKeeps
  <2> QED BY <2>3, <2>5
<1>5. ASSUME journalHeight > 0, Revert
      PROVE  /\ \A h : h = journalHeight => TouchedBefore(h) \subseteq touched'
             /\ \A h \in 1..(journalHeight - 1) : TouchedBefore(h) \subseteq TouchedBefore(h)'
  <2>1. IInv' /\ \E k \in Nat : IsUndo(k)
    BY <1>5, OpFacts, UndoFacts
  <2>2. \A h \in 1..(journalHeight - 1) : TouchedBefore(h) \subseteq TouchedBefore(h)'
    BY <2>1, UndoKeeps
  <2>3. TouchedBefore(journalHeight) \subseteq touched'
    BY <1>5 DEF Revert
  <2> QED BY <2>2, <2>3
<1> QED BY <1>2, <1>3, <1>4, <1>5

=============================================================================
