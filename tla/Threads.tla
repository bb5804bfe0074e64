------------------------------ MODULE Threads ------------------------------
(***************************************************************************)
(* The kernel's threads and its round-robin scheduler (kernel/thread).     *)
(*                                                                         *)
(* Kryos runs on one CPU.  Every path into schedule() other than the boot  *)
(* thread's own loop runs with interrupts disabled, so here schedule() is  *)
(* one atomic operation; module Preempt opens it up instruction by         *)
(* instruction.                                                            *)
(*                                                                         *)
(* struct thread objects are named by their id, which next_tid never       *)
(* reuses.  A thread that does not exist (not yet created, or reaped) has  *)
(* state NONE.  thread_create appends to the tail of the circular list,    *)
(* reaping unlinks, and nothing else touches the links, so the list is     *)
(* always the existing threads in id order and is not a variable.          *)
(***************************************************************************)
EXTENDS Integers

CONSTANTS
  MaxTid,   \* bound on thread ids: at most MaxTid threads are ever created
  MaxPid,   \* bound on process ids: at most MaxPid processes are ever created
  NumTtys   \* MAX_TTYS

ASSUME BoundsAssumption == {MaxTid, MaxPid, NumTtys} \subseteq Nat \ {0}

Tid == 0..MaxTid
Pid == 0..MaxPid
Ttys == 0..NumTtys - 1

Main == 0       \* main_thread: the boot context, id 0
KernelPid == 0  \* kernel_process, pid 0

ThreadState ==
  {"NONE", "READY", "RUNNING", "BLOCKED", "WAITING_CHILD", "DEAD"}

VARIABLES
  tstate,     \* thread id -> state
  tproc,      \* thread id -> pid of thread->process
  next_tid,   \* next thread id to hand out
  current,    \* the thread the CPU is running
  cr3,        \* the process whose address space CR3 selects
  wait_queue, \* terminal -> threads queued in tty->wait_queue
  halted      \* the machine has stopped: "No READY threads left" or a panic

thread_vars == <<tstate, tproc, next_tid, current, cr3, wait_queue, halted>>

-----------------------------------------------------------------------------
(***************************************************************************)
(* schedule(), on behalf of a caller that has just assigned the thread     *)
(* states ts.                                                              *)
(***************************************************************************)

\* Mutant of Reapable: schedule() forgets to reap.
ReapableNone(ts) == {}

\* The threads reap_dead_threads() unlinks and frees: all that are DEAD
\* except the one whose kernel stack is in use.
Reapable(ts) == {t \in Tid : ts[t] = "DEAD" /\ t # current}

\* Mutant of Requeued: the caller is left RUNNING.
RequeuedStillRunning(ts) ==
  [t \in Tid |-> IF t \in Reapable(ts) THEN "NONE" ELSE ts[t]]

\* Thread states once the dead are gone and the caller, if still RUNNING, has
\* been put back among the READY.
Requeued(ts) ==
  [t \in Tid |-> IF t \in Reapable(ts) THEN "NONE"
                 ELSE IF t = current /\ ts[t] = "RUNNING" THEN "READY"
                 ELSE ts[t]]

\* Mutant of Hops: the scan starts at the head of the list.
HopsFromHead(t) == t

\* How far t lies behind current in the circular list; current itself is the
\* last one reached.
Hops(t) == IF t > current THEN t - current ELSE t - current + MaxTid + 1

\* The scan from current->next stops at the first READY thread.
Picked(st, next) ==
  /\ st[next] = "READY"
  /\ \A t \in Tid : st[t] = "READY" => Hops(next) <= Hops(t)

\* Mutant of SwitchTo: CR3 is never reloaded.
SwitchToSameCr3(st, next) ==
  /\ tstate' = [st EXCEPT ![next] = "RUNNING"]
  /\ current' = next
  /\ UNCHANGED <<cr3, halted>>

\* context_switch(), with CR3 reloaded only between different processes.
SwitchTo(st, next) ==
  /\ tstate' = [st EXCEPT ![next] = "RUNNING"]
  /\ current' = next
  /\ cr3' = IF tproc[current] # tproc[next] THEN tproc[next] ELSE cr3
  /\ UNCHANGED halted

\* Nobody is READY: "No READY threads left. Halting."
Halt(st) ==
  /\ \A t \in Tid : st[t] # "READY"
  /\ tstate' = st
  /\ halted' = TRUE
  /\ UNCHANGED <<current, cr3>>

\* The whole of schedule(); reaping a thread also runs tty_remove_waiter() on
\* it, over the queues wq the caller leaves.
Schedule(ts, wq) ==
  /\ wait_queue' = [n \in Ttys |-> wq[n] \ Reapable(ts)]
  /\ \/ \E next \in Tid : Picked(Requeued(ts), next) /\ SwitchTo(Requeued(ts), next)
     \/ Halt(Requeued(ts))

-----------------------------------------------------------------------------
\* thread_create_process() and thread_create_user(): a READY thread of process
\* p at the tail of the list.
ThreadCreate(p) ==
  /\ next_tid <= MaxTid
  /\ tstate' = [tstate EXCEPT ![next_tid] = "READY"]
  /\ tproc' = [tproc EXCEPT ![next_tid] = p]
  /\ next_tid' = next_tid + 1
  /\ UNCHANGED <<current, cr3, wait_queue, halted>>

=============================================================================
