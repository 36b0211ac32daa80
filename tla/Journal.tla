------------------------------ MODULE Journal ------------------------------
(***************************************************************************)
(* The journal of the EVM: the addresses touched and the addresses and     *)
(* slots warmed by a transaction.  One list of diffs, each with the height *)
(* at which it was begun, stands in for a stack: a commit begins a diff at *)
(* the lower height, a revert undoes the diffs at the end of the list that *)
(* are not below the current height.                                       *)
(*                                                                         *)
(* Addresses that are warm for a whole transaction (alwaysWarmJournal) and *)
(* the reports of access lists and preimages are left out.                 *)
(***************************************************************************)
EXTENDS Integers, Sequences, FiniteSetsExt

CONSTANTS Address, Slot,
          Ripemd   \* RIPEMD160_ADDRESS_STRING, which a revert leaves touched

VARIABLES
    journalHeight,
    journalDiff,   \* [height, addresses, slots, touched], the oldest first
    touched,
    warm,          \* the keys of journal
    warmSlots      \* the slots of journal, with their addresses

journalVars == <<journalHeight, journalDiff, touched, warm, warmSlots>>

Diff(height) ==
    [height |-> height, addresses |-> {}, slots |-> {}, touched |-> {}]

-----------------------------------------------------------------------------

(* putAccount, deleteAccount, addWarmedAddress and addWarmedStorage: what  *)
(* is new goes into the last diff.  A slot warms its address.              *)
Record(T, A, S) ==
    LET addresses == (A \cup {s[1] : s \in S}) \ warm
        last == journalDiff[Len(journalDiff)]
    IN  /\ touched' = touched \cup T
        /\ warm' = warm \cup addresses
        /\ warmSlots' = warmSlots \cup S
        /\ journalDiff' = [journalDiff EXCEPT ![Len(journalDiff)] =
                              [last EXCEPT !.touched = @ \cup (T \ touched),
                                           !.addresses = @ \cup addresses,
                                           !.slots = @ \cup (S \ warmSlots)]]
        /\ journalHeight' = journalHeight

Begin(height) ==
    /\ journalHeight' = height
    /\ journalDiff' = Append(journalDiff, Diff(height))
    /\ UNCHANGED <<touched, warm, warmSlots>>

Checkpoint == Begin(journalHeight + 1)

(* Mutation: no diff is begun at the lower height. *)
CommitInto ==
    /\ journalHeight' = journalHeight - 1
    /\ UNCHANGED <<journalDiff, touched, warm, warmSlots>>

Commit == Begin(journalHeight - 1)

(* The diffs at the end of the list that are not below height h, and the   *)
(* last one that is, or 0.                                                 *)
LastBelow(h) == Max({0} \cup {i \in DOMAIN journalDiff : journalDiff[i].height < h})
Undone(h) == {journalDiff[i] : i \in (LastBelow(h) + 1)..Len(journalDiff)}

TouchedBefore(h) == touched \ UNION {d.touched : d \in Undone(h)}
WarmBefore(h) == warm \ UNION {d.addresses : d \in Undone(h)}
WarmSlotsBefore(h) ==
    {s \in warmSlots \ UNION {d.slots : d \in Undone(h)} : s[1] \in WarmBefore(h)}

(* The first diff of the list is never removed. *)
Revert ==
    /\ touched' = TouchedBefore(journalHeight) \cup (touched \cap {Ripemd})
    /\ warm' = WarmBefore(journalHeight)
    /\ warmSlots' = WarmSlotsBefore(journalHeight)
    /\ journalDiff' = SubSeq(journalDiff, 1, Max({1, LastBelow(journalHeight)}))
    /\ journalHeight' = journalHeight - 1

CleanJournal ==
    /\ journalHeight' = 0
    /\ journalDiff' = <<Diff(0)>>
    /\ touched' = {}
    /\ warm' = {}
    /\ warmSlots' = {}

Init ==
    /\ journalHeight = 0
    /\ journalDiff = <<Diff(0)>>
    /\ touched = {}
    /\ warm = {}
    /\ warmSlots = {}

-----------------------------------------------------------------------------
(* The journal as a stack of checkpoints. *)

TypeOK ==
    /\ journalHeight \in Int
    /\ \A d \in {journalDiff[i] : i \in DOMAIN journalDiff} :
           /\ d.height \in Int
           /\ d.addresses \subseteq warm
           /\ d.slots \subseteq warmSlots
           /\ d.touched \subseteq touched
    /\ touched \subseteq Address
    /\ warm \subseteq Address
    /\ warmSlots \subseteq warm \X Slot

(* What is in the journal, but for the address a revert leaves touched.    *)
Item ==
    ({"touched"} \X (Address \ {Ripemd})) \cup ({"warm"} \X Address)
        \cup ({"slot"} \X (Address \X Slot))

Content(T, A, S) ==
    [x \in Item |-> CASE x[1] = "touched" -> x[2] \in T
                      [] x[1] = "warm" -> x[2] \in A
                      [] x[1] = "slot" -> x[2] \in S]

Stack ==
    INSTANCE CheckpointStack WITH
        Key <- Item,
        Value <- BOOLEAN,
        Batch <- {Item},
        Fresh <- {[x \in Item |-> FALSE]},
        cur <- Content(touched, warm, warmSlots),
        saved <- [h \in 1..journalHeight |->
                     Content(TouchedBefore(h), WarmBefore(h), WarmSlotsBefore(h))]

(* A revert brings back what was touched and warm at its checkpoint, over  *)
(* any sequence of commits and reverts between the two: the heights        *)
(* [4, 3, 4] of the question in revert() are undone to the last commit by  *)
(* the inner revert and to the end by the outer one.                       *)
JournalCheckpoints == Stack!Spec

=============================================================================
