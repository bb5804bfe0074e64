------------------------------- MODULE MCHeap -------------------------------
(***************************************************************************)
(* Module Heap for TLC: pages of a few units, so that requests span pages. *)
(***************************************************************************)
EXTENDS Heap
=============================================================================
