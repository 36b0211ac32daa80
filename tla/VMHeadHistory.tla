---------------------------- MODULE VMHeadHistory ----------------------------
(***************************************************************************)
(* VMExecution with a memory of the one thing its state forgets: whether   *)
(* setHead last left the vm head on a block that was no longer canonical.  *)
(* It finds its block canonical in one turn of the store's lock and sets   *)
(* the head in another.  The history restricts no step.                    *)
(***************************************************************************)
EXTENDS VMExecution

VARIABLE raced

HistoryInit == VMInit /\ raced = FALSE

HistoryNext ==
    /\ VMNext
    /\ raced' = IF SetCommit THEN ~OnChain(set.block) ELSE raced

HistorySpec == HistoryInit /\ [][HistoryNext]_<<allVars, raced>> /\ VMFairness

(* The vm head, in memory and as a restart would load it, is an executed    *)
(* block, whatever was put, reset or reorganised meanwhile, and whatever    *)
(* failed: the commit of a setHead that lost its block is the only thing    *)
(* that can part the two.                                                   *)
OnlyRaceLosesHead == raced \/ VmHeadExecuted

==============================================================================
