------------------------------ MODULE MCFetcher ------------------------------
(***************************************************************************)
(* A chain that the peers leave after its first block, or grow from.       *)
(*                                                                         *)
(*     g --- a1 --- a2 --- a3 --- a4                                       *)
(*              \-- b2 --- b3 --- b4                                       *)
(***************************************************************************)
EXTENDS Fetcher

MCBlocks == {"g", "a1", "a2", "a3", "a4", "b2", "b3", "b4"}

MCParent == [a1 |-> "g", a2 |-> "a1", a3 |-> "a2", a4 |-> "a3",
             b2 |-> "a1", b3 |-> "b2", b4 |-> "b3"]

MCNumber == [g |-> 0, a1 |-> 1, a2 |-> 2, a3 |-> 3, a4 |-> 4, b2 |-> 2, b3 |-> 3, b4 |-> 4]

MCAncestor[b \in MCBlocks, n \in 0 .. 4] ==
    IF n >= MCNumber[b] THEN b ELSE MCAncestor[MCParent[b], n]

MCPath == [b \in MCBlocks |-> [n \in 0 .. MCNumber[b] |-> MCAncestor[b, n]]]

MCStarts == [full |-> {"a2", "b2"}, beacon |-> {"a4"}]

==============================================================================
