----------------------------- MODULE MCEVMState -----------------------------
(* EVMState with a contract that has storage, the precompile, and an       *)
(* address without an account, where contracts can be created.  The two    *)
(* slots are interchangeable.                                              *)
EXTENDS EVMState, TLC

CONSTANTS Contract, Vacant, Precompile, SlotA, SlotB

MCAddress == {Contract, Vacant, Precompile}
MCSlot == {SlotA, SlotB}
MCValue == {0, 1}
MCAccount ==
    [data : {"empty", "funded", "contract"}, storageRoot : [MCSlot -> MCValue]]
MCGenesis ==
    [a \in MCAddress |->
        CASE a = Contract -> [data |-> "contract", storageRoot |-> [k \in MCSlot |-> 1]]
          [] OTHER -> NoAccount]
MCSymmetry == Permutations(MCSlot)

=============================================================================
