---------------------------- MODULE MCVMExecution ----------------------------
(***************************************************************************)
(* Two branches from genesis for TLC.                                      *)
(*                                                                         *)
(*     g --- a1 --- a2                                                     *)
(*     \--- b1                                                             *)
(***************************************************************************)
EXTENDS VMExecution

MCBlocks == {"g", "a1", "a2", "b1"}

MCParent == [a1 |-> "g", a2 |-> "a1", b1 |-> "g"]

MCNumber == [g |-> 0, a1 |-> 1, a2 |-> 2, b1 |-> 1]

MCAncestor[b \in MCBlocks, n \in 0 .. 2] ==
    IF n >= MCNumber[b] THEN b ELSE MCAncestor[MCParent[b], n]

MCPath == [b \in MCBlocks |-> [n \in 0 .. MCNumber[b] |-> MCAncestor[b, n]]]

(* Proof of stake: the difficulty is 0. *)
NoDifficulty == [b \in MCBlocks |-> 0]

==============================================================================
