-------------------------------- MODULE MCProc --------------------------------
(***************************************************************************)
(* Proc for TLC.  Every processor runs the same scheduler, and no property *)
(* tells one from another.                                                 *)
(***************************************************************************)
EXTENDS Proc, TLC

AnyProcessor == Permutations(CPU)
===============================================================================
