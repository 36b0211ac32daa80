-------------------------- MODULE CheckpointStack --------------------------
(***************************************************************************)
(* What everything the EVM can roll back promises: a map from keys to      *)
(* values and a stack of the maps that the open checkpoints would restore. *)
(* A commit gives up the right to roll back to the last checkpoint, a      *)
(* revert uses it, and a write never touches what is saved.                *)
(*                                                                         *)
(* Batch holds the sets of keys one write may change together.  Fresh      *)
(* holds the maps the owner may start again from, forgetting what was      *)
(* saved; it is empty for the state, which has nothing of the kind.        *)
(***************************************************************************)
EXTENDS Naturals, Sequences

CONSTANTS Key, Value, Batch, Fresh

VARIABLES
    cur,    \* the current map
    saved   \* the map of every open checkpoint, the oldest first

vars == <<cur, saved>>

Init ==
    /\ cur \in [Key -> Value]
    /\ saved = <<>>

Write ==
    /\ saved' = saved
    /\ cur' \in [Key -> Value]
    /\ \E B \in Batch : \A k \in Key \ B : cur'[k] = cur[k]

(* With no checkpoint open another map may take the place of this one. *)
Load ==
    /\ saved = <<>>
    /\ cur' \in [Key -> Value]
    /\ saved' = saved

Checkpoint ==
    /\ saved' = Append(saved, cur)
    /\ cur' = cur

Commit ==
    /\ saved # <<>>
    /\ saved' = SubSeq(saved, 1, Len(saved) - 1)
    /\ cur' = cur

Revert ==
    /\ saved # <<>>
    /\ cur' = saved[Len(saved)]
    /\ saved' = SubSeq(saved, 1, Len(saved) - 1)

Clear ==
    \E f \in Fresh, n \in {0, Len(saved)} :
        /\ cur' = f
        /\ saved' = [i \in 1..n |-> f]

Next == Write \/ Load \/ Checkpoint \/ Commit \/ Revert \/ Clear

Spec == Init /\ [][Next]_vars

=============================================================================
