---------------------------- MODULE CanonicalChain ----------------------------
(***************************************************************************)
(* What the block store promises its readers, without heads, batches or    *)
(* total difficulties: the canonical chain is at every moment the whole    *)
(* ancestry of one block, it changes in one step, and each cursor on it    *)
(* stays on it, where it was if its block survived the change and further  *)
(* down otherwise.                                                         *)
(***************************************************************************)
EXTENDS BlockTree

CONSTANT Names  \* the cursors

VARIABLES
    chain,   \* the canonical chain: number -> block
    cursor   \* the block each cursor is at

OnIt(b, c) == Number[b] \in DOMAIN c /\ c[Number[b]] = b

Init ==
    /\ chain = Path[Genesis]
    /\ cursor = [name \in Names |-> Genesis]

(* The chain becomes the ancestry of tip: extended, cut or reorganised. *)
Reorganise(tip) ==
    /\ chain' = Path[tip]
    /\ cursor' \in [Names -> Blocks]
    /\ \A name \in Names :
        IF OnIt(cursor[name], chain')
        THEN cursor'[name] = cursor[name]
        ELSE /\ OnIt(cursor'[name], chain')
             /\ Number[cursor'[name]] < Number[cursor[name]]

(* Cursors move along the chain; a crash takes them back on it. *)
MoveCursors ==
    /\ UNCHANGED chain
    /\ cursor' \in [Names -> Blocks]
    /\ \A name \in Names : OnIt(cursor'[name], chain)

Next == MoveCursors \/ \E tip \in Blocks : Reorganise(tip)

Spec == Init /\ [][Next]_<<chain, cursor>>

==============================================================================
