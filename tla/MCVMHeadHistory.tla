--------------------------- MODULE MCVMHeadHistory ---------------------------
(***************************************************************************)
(* The blocks of MCVMExecution, and what became of the vm head.            *)
(***************************************************************************)
EXTENDS MCVMExecution, VMHeadHistory

==============================================================================
