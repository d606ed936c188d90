---------------------------- MODULE MCOperations ----------------------------
(* Every job of the slots, run as an Operation.                             *)
EXTENDS Operation, WindowSlots
=============================================================================
