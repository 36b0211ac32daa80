----------------------------- MODULE MCBlockchain -----------------------------
(***************************************************************************)
(* A small block tree for TLC: two branches that fork above a1.            *)
(*                                                                         *)
(*     g --- a1 --- a2 --- a3                                              *)
(*              \-- b2 --- b3                                              *)
(*     \--- c1                                                             *)
(***************************************************************************)
EXTENDS Blockchain

MCBlocks == {"g", "a1", "a2", "a3", "b2", "b3", "c1"}

MCParent == [a1 |-> "g", a2 |-> "a1", a3 |-> "a2",
             b2 |-> "a1", b3 |-> "b2", c1 |-> "g"]

MCNumber == [g |-> 0, a1 |-> 1, a2 |-> 2, a3 |-> 3,
             b2 |-> 2, b3 |-> 3, c1 |-> 1]

MCAncestor[b \in MCBlocks, n \in 0 .. 3] ==
    IF n >= MCNumber[b] THEN b ELSE MCAncestor[MCParent[b], n]

MCPath == [b \in MCBlocks |-> [n \in 0 .. MCNumber[b] |-> MCAncestor[b, n]]]

(* Proof of stake: the difficulty is 0. *)
NoDifficulty == [b \in MCBlocks |-> 0]

(* Proof of work: the a branch is longer, the b branch heavier at equal     *)
(* length, and c1 alone outweighs a1 and a2.                                *)
WorkDifficulty == [g |-> 1, a1 |-> 1, a2 |-> 1, a3 |-> 2,
                   b2 |-> 2, b3 |-> 1, c1 |-> 3]

==============================================================================
