------------------------------ MODULE BootWait ------------------------------
(***************************************************************************)
(* The boot thread as run_kernel_tests() uses it: it calls sys_waitpid()   *)
(* directly, in kernel mode, with whatever interrupt flag it has.  With    *)
(* interrupts enabled the scan of the children and                         *)
(* thread_block_on_process() are two steps.  The boot thread then blocks   *)
(* like any other, and schedule() may find no thread to run.               *)
(*                                                                         *)
(* test_preempt() turns preemption and the boot thread's interrupts on     *)
(* before the suites that wait.  The first wait that blocks comes back     *)
(* with interrupts off, and nothing turns them on again: all further waits *)
(* are QuietSpec.  Allocations are taken not to fail.                      *)
(***************************************************************************)
EXTENDS Kernel

VARIABLE scanned  \* the boot thread has found no exited child and has yet to block

boot_vars == <<vars, scanned>>

BootInit == Init /\ scanned = FALSE

\* The scan of sys_waitpid(): a zombie is reaped at once; otherwise remember
\* that there is something to wait for.
BootScan ==
  /\ ~halted /\ current = Main /\ call[Main] = "none" /\ ~scanned
  /\ \E pid \in (Pid \ {KernelPid}) \cup {AnyChild} :
       \/ WaitpidReap(pid) /\ UNCHANGED scanned
       \/ /\ Matching(KernelPid, pid) # {}
          /\ Zombies(KernelPid, pid) = {}
          /\ scanned' = TRUE
          /\ wait_pid' = [wait_pid EXCEPT ![Main] = pid]
          /\ UNCHANGED <<thread_vars, proc_vars, call, read_tty>>
  /\ UNCHANGED <<tty_vars, main_if>>

\* thread_block_on_process(kernel_process).  The boot thread resumes with the
\* interrupt flag of whoever switches to it, which is clear.
BootBlock ==
  /\ ~halted /\ current = Main /\ scanned
  /\ scanned' = FALSE
  /\ waiter' = [waiter EXCEPT ![KernelPid] = Main]
  /\ call' = [call EXCEPT ![Main] = "waitpid"]
  /\ main_if' = FALSE
  /\ Schedule([tstate EXCEPT ![Main] = "WAITING_CHILD"], wait_queue)
  /\ UNCHANGED <<tproc, next_tid, pstate, parent, children, next_pid,
                 wait_pid, read_tty, tty_vars>>

BootIdle ==
  /\ call[Main] = "none" /\ ~scanned
  /\ MainSchedule \/ MainCreatesThread
  /\ UNCHANGED scanned

BootNext ==
  \/ ThreadsAndInterrupts /\ UNCHANGED scanned
  \/ BootIdle \/ BootScan \/ BootBlock

BootSpec == BootInit /\ [][BootNext]_boot_vars

\* The timer does not preempt the boot thread: its interrupts are off, or
\* preemption is.
Quiet == Preemption => ~main_if

QuietInit == BootInit /\ Quiet

QuietSpec == QuietInit /\ [][BootNext]_boot_vars

-----------------------------------------------------------------------------
\* "No READY threads left" is the end of the road only while somebody waits for
\* the keyboard: threads waiting for children never lock each other up, since
\* every chain of waits ends in a thread that can run or that reads a terminal.
\* It fails of BootSpec: a child that exits between the scan and the block of a
\* boot thread with interrupts on wakes nobody.
HaltsOnlyOnInput ==
  halted => \E t \in Tid : tstate[t] = "BLOCKED"

-----------------------------------------------------------------------------
\* A process is younger than its parent: spawn hands out growing pids, and
\* orphans go to pid 0.
ElderParents ==
  \A p \in Pid \ {KernelPid} : pstate[p] # "NONE" => parent[p] < p

\* Between its scan and its block the boot thread still has something to wait
\* for, as long as nobody else gets to run.
ScanIsFresh ==
  scanned => /\ ~halted /\ current = Main /\ call[Main] = "none"
             /\ Matching(KernelPid, wait_pid[Main]) # {}
             /\ Zombies(KernelPid, wait_pid[Main]) = {}

BootIInv == IInv /\ ElderParents /\ ScanIsFresh /\ Quiet

=============================================================================
