------------------------------- MODULE Kernel -------------------------------
(***************************************************************************)
(* Processes, their threads, and everything that blocks or wakes them:     *)
(* spawn, exit, faults, waitpid, terminal reads, the timer, the keyboard.  *)
(*                                                                         *)
(* A system call and an interrupt handler run with interrupts disabled     *)
(* (syscall_init() puts IF in SFMASK, the IDT gates clear it), so each is  *)
(* one atomic step up to the point where it calls schedule().  The only    *)
(* calls that come back from schedule() are sys_waitpid() and              *)
(* tty_read_vfs(); they resume as steps of their own.                      *)
(*                                                                         *)
(* struct process objects are named by their pid, which next_pid never     *)
(* reuses; a process that does not exist has state NONE.                   *)
(***************************************************************************)
EXTENDS Threads

CONSTANTS
  MaxLines,    \* bound on the complete lines a terminal buffer holds
  Preemption,  \* the value of preemption_enabled
  KeyboardOn,  \* whether the PIC lets IRQ1 through
  OutOfMemory  \* whether kmalloc() and pmm_alloc_page() may fail

ASSUME OptionsAssumption ==
  /\ MaxLines \in Nat \ {0}
  /\ {Preemption, KeyboardOn, OutOfMemory} \subseteq BOOLEAN

VARIABLES
  pstate,    \* pid -> RUNNING, ZOMBIE, or NONE: never created, or freed
  parent,    \* pid -> process->parent
  children,  \* pid -> the processes on its children_head list
  waiter,    \* pid -> process->waiter
  next_pid,  \* next pid to hand out
  call,      \* thread -> the blocking kernel loop it is inside of, if any
  wait_pid,  \* thread -> the argument of its sys_waitpid()
  read_tty,  \* thread -> the terminal of its tty_read_vfs()
  lines,     \* terminal -> complete lines in its buffer
  active,    \* the terminal the keyboard feeds
  main_if    \* RFLAGS.IF of the boot thread's context

proc_vars == <<pstate, parent, children, waiter, next_pid>>
tty_vars == <<lines, active>>
call_vars == <<call, wait_pid, read_tty>>
vars == <<thread_vars, proc_vars, call_vars, tty_vars, main_if>>

NoThread == -1  \* process->waiter = NULL
AnyChild == -1  \* waitpid(-1, ...)

TypeOK ==
  /\ tstate \in [Tid -> ThreadState]
  /\ tproc \in [Tid -> Pid]
  /\ next_tid \in 0..MaxTid + 1
  /\ current \in Tid
  /\ cr3 \in Pid
  /\ wait_queue \in [Ttys -> SUBSET Tid]
  /\ halted \in BOOLEAN
  /\ pstate \in [Pid -> {"NONE", "RUNNING", "ZOMBIE"}]
  /\ parent \in [Pid -> Pid]
  /\ children \in [Pid -> SUBSET Pid]
  /\ waiter \in [Pid -> Tid \cup {NoThread}]
  /\ next_pid \in 0..MaxPid + 1
  /\ call \in [Tid -> {"none", "waitpid", "ttyread"}]
  /\ wait_pid \in [Tid -> Pid \cup {AnyChild}]
  /\ read_tty \in [Tid -> Ttys]
  /\ lines \in [Ttys -> 0..MaxLines]
  /\ active \in Ttys
  /\ main_if \in BOOLEAN

-----------------------------------------------------------------------------
\* The machine when kernel_main() reaches its final loop: the boot thread is
\* running, /init.elf is loaded as process 1 and its thread is READY.
Init ==
  /\ tstate = [t \in Tid |-> IF t = Main THEN "RUNNING"
                             ELSE IF t = 1 THEN "READY" ELSE "NONE"]
  /\ tproc = [t \in Tid |-> IF t = 1 THEN 1 ELSE KernelPid]
  /\ next_tid = 2
  /\ current = Main
  /\ cr3 = KernelPid
  /\ wait_queue = [n \in Ttys |-> {}]
  /\ halted = FALSE
  /\ pstate = [p \in Pid |-> IF p \in {KernelPid, 1} THEN "RUNNING" ELSE "NONE"]
  /\ parent = [p \in Pid |-> KernelPid]
  /\ children = [p \in Pid |-> IF p = KernelPid THEN {1} ELSE {}]
  /\ waiter = [p \in Pid |-> NoThread]
  /\ next_pid = 2
  /\ call = [t \in Tid |-> "none"]
  /\ wait_pid = [t \in Tid |-> AnyChild]
  /\ read_tty = [t \in Tid |-> 0]
  /\ lines = [n \in Ttys |-> 0]
  /\ active = 0
  /\ main_if \in BOOLEAN

-----------------------------------------------------------------------------
\* The current thread executes code of a user process.
InUser ==
  /\ ~halted
  /\ call[current] = "none"
  /\ tproc[current] # KernelPid

\* The current thread is a kernel thread other than the boot thread.
InKernelThread ==
  /\ ~halted
  /\ current # Main
  /\ tproc[current] = KernelPid

\* The CPU accepts an interrupt: user code and kernel threads run with IF
\* set, a system call with IF clear, the boot thread with the IF it was last
\* given.
Interruptible ==
  /\ ~halted
  /\ call[current] = "none"
  /\ current = Main => main_if

-----------------------------------------------------------------------------
(***************************************************************************)
(* Process creation: sys_spawn(), with process_create() and                *)
(* thread_create_user().                                                   *)
(***************************************************************************)

\* The fields process_create() sets, and the link it adds to the parent's
\* list, for a new process in state s.
ProcessCreate(s) ==
  LET self == tproc[current] IN
  /\ next_pid <= MaxPid
  /\ next_pid' = next_pid + 1
  /\ pstate' = [pstate EXCEPT ![next_pid] = s]
  /\ parent' = [parent EXCEPT ![next_pid] = self]
  /\ children' = [children EXCEPT ![self] = @ \cup {next_pid}]
  /\ UNCHANGED waiter

SpawnSucceeds ==
  /\ ProcessCreate("RUNNING")
  /\ ThreadCreate(next_pid)

\* elf_load_image() rejects the file: process_destroy() undoes the creation,
\* and only the pid is used up.
SpawnBadImage ==
  /\ next_pid <= MaxPid
  /\ next_pid' = next_pid + 1
  /\ UNCHANGED <<pstate, parent, children, waiter, thread_vars>>

\* vmm_create_address_space() fails: process_create() frees the process it has
\* already linked, and leaves it on the list.
SpawnNoAddressSpace ==
  /\ OutOfMemory
  /\ ProcessCreate("NONE")
  /\ UNCHANGED thread_vars

\* thread_create_user() asserts that its allocations succeed.
SpawnNoThread ==
  /\ OutOfMemory
  /\ ProcessCreate("RUNNING")
  /\ halted' = TRUE
  /\ UNCHANGED <<tstate, tproc, next_tid, current, cr3, wait_queue>>

SysSpawn ==
  /\ InUser
  /\ SpawnSucceeds \/ SpawnBadImage \/ SpawnNoAddressSpace \/ SpawnNoThread
  /\ UNCHANGED <<call_vars, tty_vars, main_if>>

\* A process that was freed is on the children list of p.  The next process may get
\* its memory, and then the list loops.
Dangling(p) == \E c \in children[p] : pstate[c] = "NONE"

\* A walk over such a list may go round for ever, with interrupts disabled, or run
\* into memory that is no process: this is where the machine stops, and nothing is
\* claimed of what comes after.
WalksFreed(p) ==
  /\ Dangling(p)
  /\ halted' = TRUE
  /\ UNCHANGED <<tstate, tproc, next_tid, current, cr3, wait_queue, proc_vars,
                 call_vars, tty_vars, main_if>>

-----------------------------------------------------------------------------
(***************************************************************************)
(* Process termination: process_exit() and schedule_after_exit(), reached  *)
(* from sys_exit() and from fault_handler() for a fault in user mode.      *)
(***************************************************************************)

\* Mutant of AfterExit: the parent's waiter is not woken.
AfterExitNoWake(proc) ==
  [t \in Tid |-> IF tproc[t] = proc /\ tstate[t] # "NONE" THEN "DEAD" ELSE tstate[t]]

\* Thread states after thread_wake_waiter() on the parent's waiter and
\* thread_terminate_process() on the process itself.
AfterExit(proc) ==
  LET w == waiter[parent[proc]] IN
  [t \in Tid |->
     IF tproc[t] = proc /\ tstate[t] # "NONE" THEN "DEAD"
     ELSE IF t = w /\ tstate[t] = "WAITING_CHILD" THEN "READY"
     ELSE tstate[t]]

\* Mutant of ProcessReparentChildren: child->parent is left alone.
ProcessReparentListOnly(proc) ==
  /\ children' = [children EXCEPT ![KernelPid] = @ \cup children[proc],
                                  ![proc] = {}]
  /\ UNCHANGED parent

ProcessReparentChildren(proc) ==
  /\ parent' = [p \in Pid |-> IF p \in children[proc] THEN KernelPid ELSE parent[p]]
  /\ children' = [children EXCEPT ![KernelPid] = @ \cup children[proc],
                                  ![proc] = {}]

ProcessExit(proc) ==
  /\ pstate' = [pstate EXCEPT ![proc] = "ZOMBIE"]
  /\ ProcessReparentChildren(proc)
  /\ waiter' = [waiter EXCEPT ![parent[proc]] = NoThread]
  /\ UNCHANGED next_pid

Exits ==
  /\ ~Dangling(tproc[current])
  /\ ProcessExit(tproc[current])
  /\ Schedule(AfterExit(tproc[current]), wait_queue)
  /\ UNCHANGED <<tproc, next_tid, call_vars, tty_vars, main_if>>

\* sys_exit() and a fault in user mode end alike.
SysExitOrFault ==
  /\ InUser
  /\ Exits \/ WalksFreed(tproc[current])

-----------------------------------------------------------------------------
(***************************************************************************)
(* sys_waitpid().  Waitpid(pid) is one turn of its loop.                   *)
(***************************************************************************)

\* Mutant of Matching: waitpid looks at every process, not at its children.
MatchingAnybody(p, pid) == {c \in Pid : pid \in {AnyChild, c} /\ c # p}

Matching(p, pid) == {c \in children[p] : pid \in {AnyChild, c}}

Zombies(p, pid) == {c \in Matching(p, pid) : pstate[c] = "ZOMBIE"}

\* Back to the caller: the call's locals are gone.
Return ==
  /\ call' = [call EXCEPT ![current] = "none"]
  /\ wait_pid' = [wait_pid EXCEPT ![current] = AnyChild]
  /\ read_tty' = [read_tty EXCEPT ![current] = 0]

\* -ECHILD
WaitpidNoChild(pid) ==
  /\ Matching(tproc[current], pid) = {}
  /\ Return
  /\ UNCHANGED <<thread_vars, proc_vars>>

\* Reap: process_destroy() unlinks the child from the list its parent pointer
\* names and frees it.
WaitpidReap(pid) ==
  /\ \E z \in Zombies(tproc[current], pid) :
       /\ children' = [children EXCEPT ![parent[z]] = @ \ {z}]
       /\ pstate' = [pstate EXCEPT ![z] = "NONE"]
  /\ Return
  /\ UNCHANGED <<thread_vars, parent, waiter, next_pid>>

\* thread_block_on_process()
WaitpidBlock(pid) ==
  /\ Matching(tproc[current], pid) # {}
  /\ Zombies(tproc[current], pid) = {}
  /\ waiter' = [waiter EXCEPT ![tproc[current]] = current]
  /\ call' = [call EXCEPT ![current] = "waitpid"]
  /\ wait_pid' = [wait_pid EXCEPT ![current] = pid]
  /\ Schedule([tstate EXCEPT ![current] = "WAITING_CHILD"], wait_queue)
  /\ UNCHANGED <<tproc, next_tid, pstate, parent, children, next_pid, read_tty>>

Waitpid(pid) ==
  \/ /\ ~Dangling(tproc[current])
     /\ WaitpidNoChild(pid) \/ WaitpidReap(pid) \/ WaitpidBlock(pid)
     /\ UNCHANGED <<tty_vars, main_if>>
  \/ WalksFreed(tproc[current])

\* The call, for an argument that is not -EINVAL.
SysWaitpid ==
  /\ InUser
  /\ \E pid \in (Pid \ {KernelPid}) \cup {AnyChild} : Waitpid(pid)

\* schedule() has returned inside thread_block_on_process(): loop.
ResumeWaitpid ==
  /\ ~halted
  /\ call[current] = "waitpid"
  /\ Waitpid(wait_pid[current])

-----------------------------------------------------------------------------
(***************************************************************************)
(* Terminal input.  A buffer is abstracted to the number of complete lines *)
(* in it.                                                                  *)
(***************************************************************************)

\* A complete line is there: the reader takes all of it, or as much of it as
\* its count allows, which leaves the newline behind.
TtyTakeLine(n) ==
  /\ lines[n] > 0
  /\ lines' \in {lines, [lines EXCEPT ![n] = @ - 1]}
  /\ Return
  /\ UNCHANGED thread_vars

\* No complete line: join the queue and block.
TtyBlock(n) ==
  /\ lines[n] = 0
  /\ call' = [call EXCEPT ![current] = "ttyread"]
  /\ read_tty' = [read_tty EXCEPT ![current] = n]
  /\ Schedule([tstate EXCEPT ![current] = "BLOCKED"],
              [wait_queue EXCEPT ![n] = @ \cup {current}])
  /\ UNCHANGED <<tproc, next_tid, wait_pid, lines>>

\* One turn of the loop of tty_read_vfs().
TtyReadVfs(n) ==
  /\ TtyTakeLine(n) \/ TtyBlock(n)
  /\ UNCHANGED <<proc_vars, active, main_if>>

SysReadTty ==
  /\ InUser
  /\ \E n \in Ttys : TtyReadVfs(n)

\* schedule() has returned inside tty_read_vfs(): loop.
ResumeTtyRead ==
  /\ ~halted
  /\ call[current] = "ttyread"
  /\ TtyReadVfs(read_tty[current])

\* Mutant of KeyboardNewline: the queue is not emptied.
KeyboardNewlineKeepsQueue ==
  /\ KeyboardOn
  /\ Interruptible
  /\ \E k \in {lines[active], lines[active] + 1} \cap (1..MaxLines) :
       lines' = [lines EXCEPT ![active] = k]
  /\ tstate' = [t \in Tid |-> IF t \in wait_queue[active] THEN "READY" ELSE tstate[t]]
  /\ UNCHANGED <<tproc, next_tid, current, cr3, wait_queue, halted, proc_vars,
                 call_vars, active, main_if>>

\* IRQ1 delivers a newline: tty_receive_char() completes a line of the active
\* terminal, or overwrites the newline at the end of a full buffer, and makes
\* every queued thread READY.  Other characters leave the number of complete
\* lines alone.
KeyboardNewline ==
  /\ KeyboardOn
  /\ Interruptible
  /\ \E k \in {lines[active], lines[active] + 1} \cap (1..MaxLines) :
       lines' = [lines EXCEPT ![active] = k]
  /\ tstate' = [t \in Tid |-> IF t \in wait_queue[active] THEN "READY" ELSE tstate[t]]
  /\ wait_queue' = [wait_queue EXCEPT ![active] = {}]
  /\ UNCHANGED <<tproc, next_tid, current, cr3, halted, proc_vars, call_vars,
                 active, main_if>>

\* IRQ1 delivers Alt-Fn: vt_switch() makes another terminal the active one.
KeyboardSwitch ==
  /\ KeyboardOn
  /\ Interruptible
  /\ active' \in Ttys
  /\ UNCHANGED <<thread_vars, proc_vars, call_vars, lines, main_if>>

-----------------------------------------------------------------------------
(***************************************************************************)
(* The timer, kernel threads, and the boot thread's loop.                  *)
(***************************************************************************)

\* IRQ0: timer_handler().
Timer ==
  /\ Preemption
  /\ Interruptible
  /\ Schedule(tstate, wait_queue)
  /\ UNCHANGED <<tproc, next_tid, proc_vars, call_vars, tty_vars, main_if>>

\* The boot thread starts a kernel thread with thread_create().
MainCreatesThread ==
  /\ ~halted
  /\ current = Main
  /\ ThreadCreate(KernelPid)
  /\ UNCHANGED <<proc_vars, call_vars, tty_vars, main_if>>

\* One turn of "for (;;) schedule();" in kernel_main().  context_switch() does
\* not save RFLAGS, and whoever switches back to the boot thread runs with
\* interrupts disabled: the boot thread comes back with IF clear.
MainSchedule ==
  /\ ~halted
  /\ current = Main
  /\ Schedule(tstate, wait_queue)
  /\ main_if' = (main_if /\ current' = Main)
  /\ UNCHANGED <<tproc, next_tid, proc_vars, call_vars, tty_vars>>

\* A kernel thread calls thread_yield(), which restores its own IF.
ThreadYield ==
  /\ InKernelThread
  /\ Schedule(tstate, wait_queue)
  /\ UNCHANGED <<tproc, next_tid, proc_vars, call_vars, tty_vars, main_if>>

\* A kernel thread returns or calls thread_exit().
ThreadExit ==
  /\ InKernelThread
  /\ Schedule([tstate EXCEPT ![current] = "DEAD"], wait_queue)
  /\ UNCHANGED <<tproc, next_tid, proc_vars, call_vars, tty_vars, main_if>>

\* What user code, kernel threads and interrupts do.
ThreadsAndInterrupts ==
  \/ SysSpawn \/ SysExitOrFault
  \/ SysWaitpid \/ ResumeWaitpid
  \/ SysReadTty \/ ResumeTtyRead
  \/ ThreadYield \/ ThreadExit
  \/ KeyboardNewline \/ KeyboardSwitch \/ Timer

Next == ThreadsAndInterrupts \/ MainCreatesThread \/ MainSchedule

Spec == Init /\ [][Next]_vars

\* The CPU keeps executing: the boot thread's loop turns, a resumed kernel
\* loop goes on, and the PIT keeps ticking.
Fairness ==
  /\ WF_vars(MainSchedule)
  /\ WF_vars(ResumeWaitpid)
  /\ WF_vars(ResumeTtyRead)
  /\ WF_vars(Timer)

FairSpec == Spec /\ Fairness

\* As FairSpec, with somebody at the keyboard who keeps pressing Enter: the
\* key gets through whenever interrupts are accepted again and again.
TypistSpec == FairSpec /\ SF_vars(KeyboardNewline)

-----------------------------------------------------------------------------
(***************************************************************************)
(* Safety.                                                                 *)
(***************************************************************************)

Exists(t) == tstate[t] \notin {"NONE", "DEAD"}

\* The thread the CPU executes is the RUNNING one, and no other thread is ever
\* left RUNNING by a switch, a block, an exit or a wake-up.
OneRunning ==
  \A t \in Tid : tstate[t] = "RUNNING" <=> t = current

\* schedule() never reaches "No READY threads left. Halting.": whatever blocks
\* or exits, the boot thread stays runnable.
NeverHalts == ~halted

\* CR3 always holds the page tables of the current thread's process, although
\* schedule() skips the reload between threads of one process, and that process
\* is neither a zombie nor destroyed.
LiveContext ==
  /\ cr3 = tproc[current]
  /\ pstate[cr3] = "RUNNING"

\* A thread blocked in sys_waitpid() is registered as its process's waiter, and
\* a child it asked for still has a thread whose exit will wake it.
WakerExists ==
  \A t \in Tid : tstate[t] = "WAITING_CHILD" =>
    /\ waiter[tproc[t]] = t
    /\ \E c \in Matching(tproc[t], wait_pid[t]), u \in Tid : tproc[u] = c /\ Exists(u)

\* And no thread sleeps in sys_waitpid() while a child it asked for is already
\* a zombie.
NoLostWakeup ==
  /\ WakerExists
  /\ \A t \in Tid : tstate[t] = "WAITING_CHILD" => Zombies(tproc[t], wait_pid[t]) = {}

\* A thread is blocked on a terminal exactly when it is in that terminal's wait
\* queue, and it never sleeps while a complete line waits in the buffer.
BlockedReaders ==
  /\ \A n \in Ttys : \A t \in wait_queue[n] :
       tstate[t] = "BLOCKED" /\ read_tty[t] = n /\ lines[n] = 0
  /\ \A t \in Tid : tstate[t] = "BLOCKED" => t \in wait_queue[read_tty[t]]

\* Every dead thread but the last one to exit has been reaped: exited threads
\* do not pile up in the list.
ReaperKeepsUp ==
  \A t, u \in Tid : tstate[t] = "DEAD" /\ tstate[u] = "DEAD" => t = u

\* The parent pointers and the children lists describe one tree: a process is
\* on exactly the list of its parent, no list holds a process that was freed,
\* and every parent is running, since exit hands its children to kernel_process.
FamilyTree ==
  /\ \A p, c \in Pid :
       c \in children[p] <=> c # KernelPid /\ pstate[c] # "NONE" /\ parent[c] = p
  /\ \A c \in Pid \ {KernelPid} :
       pstate[c] # "NONE" => pstate[parent[c]] = "RUNNING"

\* An exited process keeps its exit status until its own parent collects it:
\* only a step of the parent frees a zombie.
ZombieUntilReaped ==
  [][\A p \in Pid : pstate[p] = "ZOMBIE" =>
        \/ pstate'[p] = "ZOMBIE"
        \/ pstate'[p] = "NONE" /\ parent[p] = tproc[current]]_vars

-----------------------------------------------------------------------------
(***************************************************************************)
(* Liveness, under FairSpec.                                               *)
(***************************************************************************)

\* Round robin starves nobody: with the timer preempting, every READY thread
\* gets the CPU, unless a failed allocation stops the machine, by an assertion or by
\* the process it leaves on a list (WalksFreed).
NoStarvation ==
  \A t \in Tid : tstate[t] = "READY" ~> tstate[t] = "RUNNING" \/ halted

\* Once a child that a thread waits for has exited, the waitpid returns, with the
\* same two exceptions.
WaitpidReturns ==
  \A t \in Tid :
    (call[t] = "waitpid" /\ Zombies(tproc[t], wait_pid[t]) # {})
      ~> call[t] = "none" \/ halted

\* A thread blocked reading the terminal is woken by the next Enter: the
\* "Wake all waiting threads" of tty_receive_char() is reached.
ReaderWakes ==
  \A t \in Tid : tstate[t] = "BLOCKED" ~> tstate[t] # "BLOCKED"

-----------------------------------------------------------------------------
(***************************************************************************)
(* An inductive invariant.  It also holds of the boot thread as module     *)
(* BootWait runs it, which may wait for its children and so may leave the  *)
(* machine halted.  While allocations do not fail and the boot thread does *)
(* not wait, the safety properties follow from it.                         *)
(***************************************************************************)

\* The current thread is the RUNNING one until schedule() finds nobody READY.
RunningThread ==
  IF halted THEN \A t \in Tid : tstate[t] \notin {"READY", "RUNNING"}
  ELSE OneRunning

\* The boot thread never exits, and blocks in nothing but waitpid.
BootThread ==
  /\ tstate[Main] \in {"READY", "RUNNING", "WAITING_CHILD"}
  /\ tstate[Main] = "WAITING_CHILD" => call[Main] = "waitpid"
  /\ call[Main] # "ttyread"
  /\ tproc[Main] = KernelPid
  /\ pstate[KernelPid] = "RUNNING"

\* Ids that have not been handed out are unused.
FreshIds ==
  /\ next_tid > 0 /\ next_pid > 0
  /\ \A t \in Tid : t >= next_tid => tstate[t] = "NONE" /\ call[t] = "none"
  /\ \A p \in Pid : p >= next_pid => pstate[p] = "NONE"

\* A thread that has not exited belongs to a running process, and a running
\* process other than kernel_process has exactly one such thread.
Ownership ==
  /\ \A t \in Tid : Exists(t) => pstate[tproc[t]] = "RUNNING"
  /\ \A p \in Pid \ {KernelPid} :
       pstate[p] = "RUNNING" => \E t \in Tid : Exists(t) /\ tproc[t] = p
  /\ \A t, u \in Tid :
       Exists(t) /\ Exists(u) /\ tproc[t] = tproc[u] /\ tproc[t] # KernelPid => t = u

\* Of the kernel's own threads only the boot thread is ever inside the loop of
\* waitpid.
KernelLoops ==
  \A t \in Tid : call[t] # "none" => tproc[t] # KernelPid \/ t = Main

\* process->waiter names a thread of that process that is blocked, and a thread
\* blocked in waitpid waits for a child that has yet to exit.  A user thread has
\* nothing to collect either; the boot thread may, since
\* process_reparent_children() hands it zombies without waking it.
Waiters ==
  /\ \A p \in Pid : waiter[p] # NoThread =>
       tstate[waiter[p]] = "WAITING_CHILD" /\ tproc[waiter[p]] = p
  /\ \A t \in Tid : tstate[t] = "WAITING_CHILD" =>
       /\ tproc[t] # KernelPid \/ t = Main
       /\ waiter[tproc[t]] = t
       /\ Zombies(tproc[t], wait_pid[t]) # Matching(tproc[t], wait_pid[t])
       /\ tproc[t] # KernelPid => Zombies(tproc[t], wait_pid[t]) = {}

IInv ==
  /\ TypeOK
  /\ RunningThread
  /\ cr3 = tproc[current]
  /\ BootThread
  /\ FreshIds
  /\ Ownership
  /\ KernelLoops
  /\ Waiters
  /\ BlockedReaders
  /\ ReaperKeepsUp
  /\ FamilyTree

\* kernel_main() itself never waits: then the boot thread is always runnable,
\* and schedule() always finds somebody to run.
MainIsFree == call[Main] = "none"

=============================================================================
