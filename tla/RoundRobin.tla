----------------------------- MODULE RoundRobin -----------------------------
(***************************************************************************)
(* What the scheduler promises: the CPU goes from a thread to the next     *)
(* ready one in the list, and nothing but the threads themselves makes one *)
(* ready or not.                                                           *)
(***************************************************************************)
EXTENDS Naturals

CONSTANT NumThreads

VARIABLES
  running,  \* the thread whose code the CPU executes
  ready     \* the threads that are not blocked

vars == <<running, ready>>

Threads == 0..NumThreads - 1

Init == running = 0 /\ ready = Threads

\* "Yields the CPU to the next READY thread in the round-robin list"
Switch ==
  /\ \E k \in 1..NumThreads :
       /\ (running + k) % NumThreads \in ready
       /\ \A j \in 1..k - 1 : (running + j) % NumThreads \notin ready
       /\ running' = (running + k) % NumThreads
  /\ UNCHANGED ready

Block == running # 0 /\ ready' = ready \ {running} /\ UNCHANGED running

Wake == \E t \in Threads : ready' = ready \cup {t} /\ UNCHANGED running

Next == Switch \/ Block \/ Wake

Spec == Init /\ [][Next]_vars /\ WF_vars(Switch)
=============================================================================
