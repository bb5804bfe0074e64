------------------------------ MODULE MCKernel ------------------------------
(***************************************************************************)
(* Module Kernel for TLC; the .cfg files give the bounds and say whether   *)
(* the timer preempts, the keyboard interrupts and allocations may fail.   *)
(***************************************************************************)
EXTENDS Kernel
=============================================================================
