------------------------------ MODULE Preempt -------------------------------
(***************************************************************************)
(* schedule() and context_switch(), one store at a time, with the timer    *)
(* interrupt arriving between any two of them when interrupts are enabled. *)
(*                                                                         *)
(* Each thread owns a kernel stack.  A stack holds one frame per call of   *)
(* schedule() that has not returned, on top of the thread's own code; the  *)
(* CPU executes the top frame of stack cpu.  Thread 0 is the boot thread,  *)
(* which calls schedule() directly and never blocks; the others yield, or  *)
(* block in a system call until another thread wakes them.  Exit, reaping  *)
(* and what the threads wait for are in Kernel.                            *)
(***************************************************************************)
EXTENDS Integers, Sequences

CONSTANTS
  NumThreads,
  MainIF  \* whether the boot thread enters its loop with interrupts enabled, which
          \* nothing outside the kernel tests does

ASSUME PreemptAssumption == NumThreads \in Nat \ {0, 1} /\ MainIF \in BOOLEAN

Threads == 0..NumThreads - 1

VARIABLES
  current,       \* the scheduler's idea of the running thread
  tstate,        \* thread -> READY, RUNNING or BLOCKED
  in_scheduler,  \* schedule() guards against re-entry
  IF_flag,       \* RFLAGS.IF
  cpu,           \* the stack the CPU executes on
  stack,         \* thread -> frames of schedule() on its kernel stack
  rsp            \* thread -> saved stack pointer: a stack and a depth in it

vars == <<current, tstate, in_scheduler, IF_flag, cpu, stack, rsp>>

\* pc: the next statement; restore: what returning does to IF, which is to
\* set it ("on": irq_restore() in thread_yield(), iret, sysret) or nothing
\* ("keep").
Frame(pc, restore) == [pc |-> pc, restore |-> restore, old |-> 0, next |-> 0]

PCs == {"test", "enter", "requeue", "scan", "take", "running", "leave", "save", "load",
        "return"}

Frames == [pc : PCs, restore : {"on", "keep"}, old : Threads, next : Threads]

TypeOK ==
  /\ current \in Threads /\ cpu \in Threads
  /\ tstate \in [Threads -> {"READY", "RUNNING", "BLOCKED"}]
  /\ in_scheduler \in BOOLEAN /\ IF_flag \in BOOLEAN
  /\ stack \in [Threads -> Seq(Frames)]
  /\ rsp \in [Threads -> [stack : Threads, depth : 0..2]]

-----------------------------------------------------------------------------
\* A new thread's stack is built to look like a thread suspended in
\* context_switch(); its start wrapper executes sti.
Init ==
  /\ current = 0
  /\ tstate = [t \in Threads |-> IF t = 0 THEN "RUNNING" ELSE "READY"]
  /\ in_scheduler = FALSE
  /\ IF_flag = MainIF
  /\ cpu = 0
  /\ stack = [t \in Threads |-> IF t = 0 THEN <<>> ELSE <<Frame("return", "on")>>]
  /\ rsp = [t \in Threads |-> [stack |-> t, depth |-> IF t = 0 THEN 0 ELSE 1]]

Depth == Len(stack[cpu])
Top == stack[cpu][Depth]

\* The CPU is at statement pc of schedule().
At(pc) == Depth > 0 /\ Top.pc = pc

\* Control moves on to statement pc of the same call.
Goto(pc) == stack' = [stack EXCEPT ![cpu][Depth].pc = pc]

Push(f) == stack' = [stack EXCEPT ![cpu] = Append(@, f)]

-----------------------------------------------------------------------------
\* "for (;;) schedule();" in kernel_main().
MainCalls ==
  /\ Depth = 0 /\ cpu = 0
  /\ Push(Frame("test", "keep"))
  /\ UNCHANGED <<current, tstate, in_scheduler, IF_flag, cpu, rsp>>

\* Mutant of Yield: without irq_save().
YieldNoIrqSave ==
  /\ Depth = 0 /\ cpu # 0
  /\ Push(Frame("test", "on"))
  /\ UNCHANGED <<current, tstate, in_scheduler, IF_flag, cpu, rsp>>

\* thread_yield(): irq_save(), then schedule().
Yield ==
  /\ Depth = 0 /\ cpu # 0
  /\ Push(Frame("test", "on"))
  /\ IF_flag' = FALSE
  /\ UNCHANGED <<current, tstate, in_scheduler, cpu, rsp>>

\* A system call, which runs with interrupts disabled, blocks the thread.
Block ==
  /\ Depth = 0 /\ cpu # 0
  /\ tstate' = [tstate EXCEPT ![current] = "BLOCKED"]
  /\ Push(Frame("test", "on"))
  /\ IF_flag' = FALSE
  /\ UNCHANGED <<current, in_scheduler, cpu, rsp>>

\* The code the CPU executes wakes a thread: thread_wake_waiter() in an exit,
\* tty_receive_char() in a keyboard interrupt.
Wake ==
  /\ Depth = 0
  /\ \E t \in Threads :
       /\ tstate[t] = "BLOCKED"
       /\ tstate' = [tstate EXCEPT ![t] = "READY"]
  /\ UNCHANGED <<current, in_scheduler, IF_flag, cpu, stack, rsp>>

\* IRQ0 in any code that runs with interrupts enabled.
TimerIrq ==
  /\ IF_flag
  /\ Push(Frame("test", "on"))
  /\ IF_flag' = FALSE
  /\ UNCHANGED <<current, tstate, in_scheduler, cpu, rsp>>

-----------------------------------------------------------------------------
(***************************************************************************)
(* The statements of schedule().                                           *)
(***************************************************************************)

\* if (in_scheduler) return;
Test ==
  /\ At("test")
  /\ Goto(IF in_scheduler THEN "return" ELSE "enter")
  /\ UNCHANGED <<current, tstate, in_scheduler, IF_flag, cpu, rsp>>

\* in_scheduler = true;
Enter ==
  /\ At("enter")
  /\ in_scheduler' = TRUE
  /\ Goto("requeue")
  /\ UNCHANGED <<current, tstate, IF_flag, cpu, rsp>>

\* A RUNNING current becomes READY.
Requeue ==
  /\ At("requeue")
  /\ tstate' = [tstate EXCEPT ![current] = IF @ = "RUNNING" THEN "READY" ELSE @]
  /\ Goto("scan")
  /\ UNCHANGED <<current, in_scheduler, IF_flag, cpu, rsp>>

\* Mutant of Scan: the search starts at the head of the list.
ScanFromHead ==
  /\ At("scan")
  /\ \E k \in Threads :
       /\ tstate[k] = "READY"
       /\ \A j \in 0..k - 1 : tstate[j] # "READY"
       /\ stack' = [stack EXCEPT ![cpu][Depth] =
                      [@ EXCEPT !.pc = "take", !.old = current, !.next = k]]
  /\ UNCHANGED <<current, tstate, in_scheduler, IF_flag, cpu, rsp>>

\* The first READY thread after current; old = current.
Scan ==
  /\ At("scan")
  /\ \E k \in 1..NumThreads :
       /\ tstate[(current + k) % NumThreads] = "READY"
       /\ \A j \in 1..k - 1 : tstate[(current + j) % NumThreads] # "READY"
       /\ stack' = [stack EXCEPT ![cpu][Depth] =
                      [@ EXCEPT !.pc = "take", !.old = current,
                                !.next = (current + k) % NumThreads]]
  /\ UNCHANGED <<current, tstate, in_scheduler, IF_flag, cpu, rsp>>

\* current = next;
Take ==
  /\ At("take")
  /\ current' = Top.next
  /\ Goto("running")
  /\ UNCHANGED <<tstate, in_scheduler, IF_flag, cpu, rsp>>

\* current->state = THREAD_RUNNING;
Running ==
  /\ At("running")
  /\ tstate' = [tstate EXCEPT ![current] = "RUNNING"]
  /\ Goto("leave")
  /\ UNCHANGED <<current, in_scheduler, IF_flag, cpu, rsp>>

\* in_scheduler = false; and on to context_switch() if (old != current).
Leave ==
  /\ At("leave")
  /\ in_scheduler' = FALSE
  /\ Goto(IF Top.old # current THEN "save" ELSE "return")
  /\ UNCHANGED <<current, tstate, IF_flag, cpu, rsp>>

\* context_switch() pushes the callee-saved registers and stores %rsp.
Save ==
  /\ At("save")
  /\ rsp' = [rsp EXCEPT ![Top.old] = [stack |-> cpu, depth |-> Depth]]
  /\ Goto("load")
  /\ UNCHANGED <<current, tstate, in_scheduler, IF_flag, cpu>>

\* context_switch() loads the new %rsp, pops the registers and returns, in the
\* context found there; what lies above that depth is gone.
Load ==
  /\ At("load")
  /\ LET to == rsp[Top.next] IN
     /\ cpu' = to.stack
     /\ stack' = [stack EXCEPT ![cpu][Depth].pc = "return",
                               ![to.stack] = SubSeq(@, 1, to.depth)]
  /\ UNCHANGED <<current, tstate, in_scheduler, IF_flag, rsp>>

\* schedule() returns to its caller, which may restore IF.
Return ==
  /\ At("return")
  /\ stack' = [stack EXCEPT ![cpu] = SubSeq(@, 1, Depth - 1)]
  /\ IF_flag' = (IF_flag \/ Top.restore = "on")
  /\ UNCHANGED <<current, tstate, in_scheduler, cpu, rsp>>

-----------------------------------------------------------------------------
Statement ==
  \/ Test \/ Enter \/ Requeue \/ Scan \/ Take \/ Running \/ Leave
  \/ Save \/ Load \/ Return

Next == MainCalls \/ Yield \/ Block \/ Wake \/ TimerIrq \/ Statement

Spec == Init /\ [][Next]_vars

\* The CPU executes, the boot thread loops and the PIT ticks.
FairSpec ==
  /\ Spec
  /\ WF_vars(Statement) /\ WF_vars(MainCalls) /\ WF_vars(TimerIrq)

-----------------------------------------------------------------------------
\* The state is well typed, and a thread that was switched away from, by its own call
\* or by a timer interrupt of its own code, can be resumed: its saved stack pointer is the top of its own stack, the
\* one the CPU executes on excepted.
Resumable ==
  /\ TypeOK
  /\ \A t \in Threads \ {cpu} : rsp[t] = [stack |-> t, depth |-> Len(stack[t])]

\* Instruction by instruction, interrupts included, the CPU goes from thread to
\* next ready thread, and never stops doing so.
RR == INSTANCE RoundRobin WITH running <- cpu,
                               ready <- {t \in Threads : tstate[t] # "BLOCKED"}

ImplementsRoundRobin == RR!Spec

-----------------------------------------------------------------------------
(***************************************************************************)
(* The inductive invariant behind Resumable and the steps of RoundRobin,   *)
(* for a boot thread that runs with interrupts disabled.                   *)
(***************************************************************************)

\* Where the CPU is: at a statement of schedule(), or in the thread's own code.
Pc == IF Depth = 0 THEN "own" ELSE Top.pc

\* A thread the CPU has left is inside context_switch(), in its only call of schedule().
Suspended(t) ==
  /\ Len(stack[t]) = 1 /\ stack[t][1].pc = "return"
  /\ rsp[t] = [stack |-> t, depth |-> 1]

\* schedule() runs with interrupts disabled, so it is never entered twice; only the
\* boot thread returns from it without enabling them.
OneCall ==
  /\ Depth <= 1
  /\ IF_flag => Depth = 0 /\ cpu # 0
  /\ \A t \in Threads : Len(stack[t]) = 1 =>
       stack[t][1].restore = IF t = 0 THEN "keep" ELSE "on"
  /\ in_scheduler <=> Pc \in {"requeue", "scan", "take", "running", "leave"}

\* next follows the thread the CPU executes, and all between them are blocked.
NextReady(next) ==
  \E k \in 1..NumThreads :
    /\ next = (cpu + k) % NumThreads /\ tstate[next] # "BLOCKED"
    /\ \A j \in 1..k - 1 : tstate[(cpu + j) % NumThreads] = "BLOCKED"

\* What schedule() has found out and done when it is at Pc.
Decided ==
  /\ current = IF Pc \in {"running", "leave", "save", "load"} THEN Top.next ELSE cpu
  /\ Pc \in {"take", "running", "leave", "save", "load"} => Top.old = cpu /\ NextReady(Top.next)
  /\ Pc \in {"save", "load"} => Top.next # cpu
  /\ Pc = "load" => rsp[cpu] = [stack |-> cpu, depth |-> 1]

\* At most one thread is RUNNING, none while schedule() chooses.
States ==
  /\ \A t \in Threads : tstate[t] = "RUNNING" => t = current /\ Pc \notin {"scan", "take", "running"}
  /\ Pc \in {"own", "return", "leave", "save", "load"} => tstate[current] = "RUNNING"

IInv ==
  /\ TypeOK /\ OneCall /\ Decided /\ States
  /\ \A t \in Threads \ {cpu} : Suspended(t)

=============================================================================
