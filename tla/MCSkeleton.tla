------------------------------ MODULE MCSkeleton ------------------------------
(***************************************************************************)
(* Two branches that fork above a1, for TLC.                               *)
(*                                                                         *)
(*     g --- a1 --- a2 --- a3 --- a4                                       *)
(*              \-- b2                                                     *)
(***************************************************************************)
EXTENDS Skeleton

MCBlocks == {"g", "a1", "a2", "a3", "a4", "b2"}

MCParent == [a1 |-> "g", a2 |-> "a1", a3 |-> "a2", a4 |-> "a3", b2 |-> "a1"]

MCNumber == [g |-> 0, a1 |-> 1, a2 |-> 2, a3 |-> 3, a4 |-> 4, b2 |-> 2]

MCAncestor[b \in MCBlocks, n \in 0 .. 4] ==
    IF n >= MCNumber[b] THEN b ELSE MCAncestor[MCParent[b], n]

MCPath == [b \in MCBlocks |-> [n \in 0 .. MCNumber[b] |-> MCAncestor[b, n]]]

==============================================================================
