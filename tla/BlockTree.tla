------------------------------ MODULE BlockTree ------------------------------
(***************************************************************************)
(* The blocks a node can meet, as a tree hanging from the genesis block.   *)
(* A block stands for its hash: a header commits to its parent hash and to *)
(* its number, so both are functions of the block that never change.       *)
(***************************************************************************)
EXTENDS Naturals

CONSTANTS
    Blocks,      \* every block (hash) any peer or consensus client can present
    Genesis,     \* the block the chain is configured with
    Number,      \* header.number
    Path         \* Path[b][n]: the ancestor of b at number n, b itself at the top

(***************************************************************************)
(* What hashing gives: only the genesis block has number 0, the ancestors  *)
(* of a block are one per number below it, and an ancestor has the same    *)
(* ancestors.                                                              *)
(***************************************************************************)
ASSUME BlockTreeAssumption ==
    /\ Genesis \in Blocks
    /\ Number \in [Blocks -> Nat]
    /\ \A b \in Blocks : Number[b] = 0 <=> b = Genesis
    /\ DOMAIN Path = Blocks
    /\ \A b \in Blocks :
        /\ Path[b] \in [0 .. Number[b] -> Blocks]
        /\ Path[b][Number[b]] = b
        /\ \A n \in 0 .. Number[b] :
            /\ Number[Path[b][n]] = n
            /\ \A m \in 0 .. n : Path[Path[b][n]][m] = Path[b][m]

(* header.parentHash of a block other than genesis. *)
Parent(b) == Path[b][Number[b] - 1]

(* a is b or one of its ancestors. *)
IsAncestor(a, b) == Number[a] <= Number[b] /\ Path[b][Number[a]] = a

==============================================================================
