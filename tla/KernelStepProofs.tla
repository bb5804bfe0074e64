-------------------------- MODULE KernelStepProofs --------------------------
(***************************************************************************)
(* Kernel: the inductive invariant holds initially, and schedule() and     *)
(* sys_waitpid() keep it, whichever thread calls them.                     *)
(***************************************************************************)
EXTENDS Kernel, TLAPS

Runnable(s) == s \in {"READY", "RUNNING"}

\* What schedule() does to the states ts and the queues wq its caller leaves, in
\* the terms the invariants speak of: it halts only if nobody is runnable, and
\* otherwise exactly the thread it switches to is RUNNING; runnable threads stay
\* runnable, blocked threads stay blocked, and the dead are only ever freed.
Switched(ts, wq) ==
  /\ tstate' \in [Tid -> ThreadState]
  /\ current' \in Tid
  /\ cr3' \in Pid
  /\ halted' \in BOOLEAN
  /\ wait_queue' \in [Ttys -> SUBSET Tid]
  /\ cr3' = tproc'[current']
  /\ halted' => \A t \in Tid : ~Runnable(tstate'[t])
  /\ ~halted' => \A t \in Tid : tstate'[t] = "RUNNING" <=> t = current'
  /\ \A t \in Tid : Runnable(ts[t]) <=> Runnable(tstate'[t])
  /\ \A t \in Tid : ts[t] = "BLOCKED" <=> tstate'[t] = "BLOCKED"
  /\ \A t \in Tid : ts[t] = "WAITING_CHILD" <=> tstate'[t] = "WAITING_CHILD"
  /\ \A t \in Tid : tstate'[t] = "DEAD" <=> ts[t] = "DEAD" /\ t = current
  /\ \A t \in Tid : ts[t] = "NONE" => tstate'[t] = "NONE"
  /\ \A n \in Ttys : wait_queue'[n] = wq[n] \ Reapable(ts)

\* schedule() does that.
LEMMA ScheduleFacts ==
  ASSUME TypeOK, NeverHalts,
         NEW ts \in [Tid -> ThreadState],
         NEW wq \in [Ttys -> SUBSET Tid],
         \A t \in Tid : ts[t] = "RUNNING" => t = current,
         cr3 = tproc[current],
         UNCHANGED tproc,
         Schedule(ts, wq)
  PROVE  Switched(ts, wq)
<1> DEFINE st == Requeued(ts)
<1>0. current \in Tid
  BY DEF TypeOK
<1>1. st \in [Tid -> ThreadState]
  BY <1>0 DEF Requeued, ThreadState, Reapable
<1>2. /\ \A t \in Tid : Runnable(ts[t]) <=> st[t] = "READY"
      /\ \A t \in Tid : ts[t] = "BLOCKED" <=> st[t] = "BLOCKED"
      /\ \A t \in Tid : ts[t] = "WAITING_CHILD" <=> st[t] = "WAITING_CHILD"
      /\ \A t \in Tid : st[t] = "DEAD" <=> ts[t] = "DEAD" /\ t = current
      /\ \A t \in Tid : ts[t] = "NONE" => st[t] = "NONE"
      /\ \A t \in Tid : st[t] # "RUNNING"
  BY <1>0 DEF Requeued, Runnable, Reapable
<1>3. wait_queue' = [n \in Ttys |-> wq[n] \ Reapable(ts)]
  BY DEF Schedule
<1>4. (\E next \in Tid : Picked(st, next) /\ SwitchTo(st, next)) \/ Halt(st)
  BY DEF Schedule
<1>5. tproc \in [Tid -> Pid] /\ tproc' = tproc /\ cr3 \in Pid
  BY DEF TypeOK
<1> HIDE DEF st
<1>6. /\ wait_queue' \in [Ttys -> SUBSET Tid]
      /\ \A n \in Ttys : wait_queue'[n] = wq[n] \ Reapable(ts)
  BY <1>3
<1>7. ASSUME NEW next \in Tid, Picked(st, next), SwitchTo(st, next)
      PROVE  Switched(ts, wq)
  <2>1. st[next] = "READY"
    BY <1>7 DEF Picked
  <2>2. /\ tstate' = [st EXCEPT ![next] = "RUNNING"]
        /\ current' = next
        /\ halted' = FALSE
        /\ cr3' = IF tproc[current] # tproc[next] THEN tproc[next] ELSE cr3
    BY <1>7 DEF SwitchTo, NeverHalts, TypeOK
  <2>3. /\ \A t \in Tid : tstate'[t] = IF t = next THEN "RUNNING" ELSE st[t]
        /\ tstate' \in [Tid -> ThreadState]
    BY <1>1, <2>2 DEF ThreadState
  <2>4. cr3' = tproc'[current'] /\ cr3' \in Pid /\ current' \in Tid
    BY <1>5, <2>2
  <2>5. /\ \A t \in Tid : tstate'[t] = "RUNNING" <=> t = current'
        /\ \A t \in Tid : Runnable(ts[t]) <=> Runnable(tstate'[t])
        /\ \A t \in Tid : ts[t] = "BLOCKED" <=> tstate'[t] = "BLOCKED"
        /\ \A t \in Tid : ts[t] = "WAITING_CHILD" <=> tstate'[t] = "WAITING_CHILD"
        /\ \A t \in Tid : tstate'[t] = "DEAD" <=> ts[t] = "DEAD" /\ t = current
        /\ \A t \in Tid : ts[t] = "NONE" => tstate'[t] = "NONE"
    BY <1>2, <2>1, <2>2, <2>3 DEF Runnable
  <2> QED
    BY <1>6, <2>2, <2>3, <2>4, <2>5 DEF Switched
<1>8. ASSUME Halt(st)
      PROVE  Switched(ts, wq)
  <2>1. tstate' = st /\ halted' = TRUE /\ current' = current /\ cr3' = cr3
    BY <1>8 DEF Halt
  <2>2. \A t \in Tid : st[t] # "READY" /\ st[t] # "RUNNING"
    BY <1>2, <1>8 DEF Halt
  <2>3. /\ \A t \in Tid : ~Runnable(tstate'[t])
        /\ \A t \in Tid : Runnable(ts[t]) <=> Runnable(tstate'[t])
    BY <1>2, <2>1, <2>2 DEF Runnable
  <2> QED
    BY <1>0, <1>1, <1>2, <1>5, <1>6, <2>1, <2>3 DEF Switched
<1> QED
  BY <1>4, <1>7, <1>8

\* What the scheduler-side conjuncts of the invariant need of ts: with it they
\* hold after the switch.
LEMMA SwitchedInv ==
  ASSUME TypeOK,
         NEW ts \in [Tid -> ThreadState],
         NEW wq \in [Ttys -> SUBSET Tid],
         NeverHalts,
         ts[Main] \in {"READY", "RUNNING", "WAITING_CHILD"},
         \A t \in Tid : ts[t] = "RUNNING" => t = current,
         \A n \in Ttys : \A t \in wq[n] : ts[t] = "BLOCKED",
         cr3 = tproc[current],
         UNCHANGED tproc,
         Schedule(ts, wq)
  PROVE  /\ Switched(ts, wq)
         /\ RunningThread' /\ ReaperKeepsUp'
         /\ cr3' = tproc'[current']
         /\ tstate'[Main] \in {"READY", "RUNNING", "WAITING_CHILD"}
         /\ tstate'[Main] = "WAITING_CHILD" => ts[Main] = "WAITING_CHILD"
         /\ \A n \in Ttys : wait_queue'[n] = wq[n]
         /\ \A t \in Tid : Exists(t)' <=> ts[t] \notin {"NONE", "DEAD"}
<1>1. Switched(ts, wq)
  BY ScheduleFacts
<1>2. RunningThread' /\ ReaperKeepsUp' /\ cr3' = tproc'[current']
  BY <1>1 DEF Switched, RunningThread, OneRunning, Runnable, ReaperKeepsUp
<1>3. /\ tstate'[Main] \in {"READY", "RUNNING", "WAITING_CHILD"}
      /\ tstate'[Main] = "WAITING_CHILD" => ts[Main] = "WAITING_CHILD"
  <2>1. Main \in Tid
    BY BoundsAssumption DEF Main, Tid
  <2> QED
    BY <1>1, <2>1 DEF Switched, Runnable
<1>4. ASSUME NEW n \in Ttys PROVE wait_queue'[n] = wq[n]
  <2>1. wait_queue'[n] = wq[n] \ Reapable(ts)
    BY <1>1, Zenon DEF Switched
  <2>2. \A t \in wq[n] : t \notin Reapable(ts)
    BY DEF Reapable
  <2> QED
    BY <2>1, <2>2
<1>5. \A t \in Tid : Exists(t)' <=> ts[t] \notin {"NONE", "DEAD"}
  BY <1>1 DEF Switched, Runnable, Exists, ThreadState
<1> QED
  BY <1>1, <1>2, <1>3, <1>4, <1>5

-----------------------------------------------------------------------------
\* The boot state satisfies the invariant.
LEMMA InitIInv == Init => IInv /\ MainIsFree
<1> SUFFICES ASSUME Init PROVE IInv /\ MainIsFree
  OBVIOUS
<1> USE BoundsAssumption, OptionsAssumption
<1>1. /\ Main \in Tid /\ 1 \in Tid /\ KernelPid \in Pid /\ 1 \in Pid /\ 0 \in Ttys
      /\ Main = 0 /\ KernelPid = 0 /\ NoThread = -1 /\ AnyChild = -1
  BY DEF Main, KernelPid, Tid, Pid, Ttys, NoThread, AnyChild
<1>2. TypeOK
  <2>1. next_tid \in 0..MaxTid + 1 /\ next_pid \in 0..MaxPid + 1
    BY DEF Init
  <2>2. lines \in [Ttys -> 0..MaxLines] /\ active \in Ttys /\ read_tty \in [Tid -> Ttys]
    BY <1>1 DEF Init
  <2>3. halted \in BOOLEAN /\ main_if \in BOOLEAN
    BY Zenon DEF Init
  <2>4. children \in [Pid -> SUBSET Pid] /\ wait_queue \in [Ttys -> SUBSET Tid]
    BY <1>1 DEF Init
  <2>5. /\ tstate \in [Tid -> ThreadState]
        /\ tproc \in [Tid -> Pid] /\ current \in Tid /\ cr3 \in Pid
        /\ pstate \in [Pid -> {"NONE", "RUNNING", "ZOMBIE"}]
        /\ parent \in [Pid -> Pid] /\ waiter \in [Pid -> Tid \cup {NoThread}]
        /\ call \in [Tid -> {"none", "waitpid", "ttyread"}]
        /\ wait_pid \in [Tid -> Pid \cup {AnyChild}]
    BY <1>1 DEF Init, ThreadState
  <2> QED
    BY <2>1, <2>2, <2>3, <2>4, <2>5 DEF TypeOK
<1>3. RunningThread /\ cr3 = tproc[current] /\ BootThread /\ MainIsFree
  BY <1>1 DEF Init, RunningThread, OneRunning, BootThread, MainIsFree, Tid, Pid
<1>4. FreshIds
  BY <1>1 DEF Init, FreshIds, Tid, Pid
<1>5. Ownership
  <2>1. \A t \in Tid : Exists(t) <=> t \in {0, 1}
    BY <1>1 DEF Init, Exists
  <2>2. \A p \in Pid : pstate[p] = "RUNNING" <=> p \in {0, 1}
    BY <1>1 DEF Init
  <2>3. tproc[0] = 0 /\ tproc[1] = 1
    BY <1>1 DEF Init
  <2> QED
    BY <1>1, <2>1, <2>2, <2>3 DEF Ownership
<1>6. KernelLoops
  BY DEF Init, KernelLoops
<1>7. Waiters
  BY <1>1 DEF Init, Waiters
<1>8. BlockedReaders /\ ReaperKeepsUp
  BY <1>1 DEF Init, BlockedReaders, ReaperKeepsUp
<1>9. FamilyTree
  BY <1>1 DEF Init, FamilyTree
<1> QED
  BY <1>2, <1>3, <1>4, <1>5, <1>6, <1>7, <1>8, <1>9 DEF IInv

\* A thread blocked in waitpid waits for a child whose own thread has yet to exit.
LEMMA AwaitedChild ==
  ASSUME IInv, NEW t \in Tid, tstate[t] = "WAITING_CHILD"
  PROVE  \E c \in Matching(tproc[t], wait_pid[t]) :
           /\ c \in Pid \ {KernelPid} /\ parent[c] = tproc[t]
           /\ pstate[c] = "RUNNING"
           /\ \E u \in Tid : tproc[u] = c /\ Exists(u)
<1>1. Zombies(tproc[t], wait_pid[t]) # Matching(tproc[t], wait_pid[t])
  BY DEF IInv, Waiters
<1>2. PICK c \in Matching(tproc[t], wait_pid[t]) : pstate[c] # "ZOMBIE"
  BY <1>1 DEF Zombies
<1>3. tproc[t] \in Pid /\ children[tproc[t]] \subseteq Pid
  BY DEF IInv, TypeOK
<1>4. c \in Pid /\ c \in children[tproc[t]]
  BY <1>2, <1>3 DEF Matching
<1>5. c # KernelPid /\ pstate[c] # "NONE" /\ parent[c] = tproc[t]
  BY <1>3, <1>4 DEF IInv, FamilyTree
<1>6. pstate[c] = "RUNNING"
  BY <1>2, <1>4, <1>5 DEF IInv, TypeOK
<1>7. \E u \in Tid : tproc[u] = c /\ Exists(u)
  BY <1>4, <1>5, <1>6 DEF IInv, Ownership
<1> QED
  BY <1>2, <1>4, <1>5, <1>6, <1>7

\* While the boot thread does not wait, the safety properties the runs check
\* follow from the invariant: the boot thread is runnable, so nothing has halted.
LEMMA IInvImplies == IInv /\ MainIsFree => OneRunning /\ NeverHalts /\ LiveContext /\ NoLostWakeup
<1> SUFFICES ASSUME IInv, MainIsFree
             PROVE  OneRunning /\ NeverHalts /\ LiveContext /\ NoLostWakeup
  OBVIOUS
<1>1. Main \in Tid /\ tstate[Main] \in {"READY", "RUNNING"}
  BY BoundsAssumption DEF IInv, BootThread, MainIsFree, Main, Tid
<1>2. OneRunning /\ NeverHalts
  BY <1>1 DEF IInv, RunningThread, NeverHalts
<1>3. LiveContext
  BY <1>2 DEF IInv, LiveContext, OneRunning, Ownership, Exists, TypeOK
<1>4. ASSUME NEW t \in Tid, tstate[t] = "WAITING_CHILD"
      PROVE  /\ waiter[tproc[t]] = t
             /\ \E c \in Matching(tproc[t], wait_pid[t]), u \in Tid : tproc[u] = c /\ Exists(u)
             /\ Zombies(tproc[t], wait_pid[t]) = {}
  <2>1. t # Main /\ waiter[tproc[t]] = t /\ Zombies(tproc[t], wait_pid[t]) = {}
    BY <1>1, <1>4 DEF IInv, Waiters
  <2>2. \E c \in Matching(tproc[t], wait_pid[t]), u \in Tid : tproc[u] = c /\ Exists(u)
    BY <1>4, AwaitedChild
  <2> QED
    BY <2>1, <2>2
<1> QED
  BY <1>2, <1>3, <1>4 DEF WakerExists, NoLostWakeup

-----------------------------------------------------------------------------
(***************************************************************************)
(* Every action preserves the invariant.                                   *)
(***************************************************************************)

\* Waiters reads only which threads wait for a child, what for, and their children: a
\* step that leaves these as they are keeps it, whatever it does to other threads.
LEMMA WaitersFrame ==
  ASSUME TypeOK, Waiters,
         waiter' = waiter,
         \A t \in Tid : tstate'[t] = "WAITING_CHILD" <=> tstate[t] = "WAITING_CHILD",
         \A t \in Tid : tstate[t] = "WAITING_CHILD" =>
           /\ tproc'[t] = tproc[t]
           /\ Matching(tproc[t], wait_pid[t])' = Matching(tproc[t], wait_pid[t])
           /\ Zombies(tproc[t], wait_pid[t])' = Zombies(tproc[t], wait_pid[t])
  PROVE  Waiters'
<1>1. \A p \in Pid : waiter[p] # NoThread => waiter[p] \in Tid
  BY DEF TypeOK
<1>2. \A p \in Pid : waiter'[p] # NoThread =>
        tstate'[waiter'[p]] = "WAITING_CHILD" /\ tproc'[waiter'[p]] = p
  BY <1>1 DEF Waiters
<1>3. \A t \in Tid : tstate'[t] = "WAITING_CHILD" =>
        /\ tproc'[t] # KernelPid \/ t = Main
        /\ waiter'[tproc'[t]] = t
        /\ Zombies(tproc[t], wait_pid[t])' # Matching(tproc[t], wait_pid[t])'
        /\ tproc'[t] # KernelPid => Zombies(tproc[t], wait_pid[t])' = {}
  BY DEF Waiters
<1> QED
  BY <1>2, <1>3 DEF Waiters

\* A step that changes no process and no thread that waits for a child keeps Waiters.
LEMMA WaitersKept ==
  ASSUME TypeOK, Waiters,
         UNCHANGED <<tproc, pstate, children, waiter>>,
         \A t \in Tid : tstate'[t] = "WAITING_CHILD" <=> tstate[t] = "WAITING_CHILD",
         \A t \in Tid : tstate[t] = "WAITING_CHILD" => wait_pid'[t] = wait_pid[t]
  PROVE  Waiters'
<1>1. ASSUME NEW t \in Tid, tstate[t] = "WAITING_CHILD"
      PROVE  /\ Matching(tproc[t], wait_pid[t])' = Matching(tproc[t], wait_pid[t])
             /\ Zombies(tproc[t], wait_pid[t])' = Zombies(tproc[t], wait_pid[t])
  <2>1. wait_pid'[t] = wait_pid[t]
    BY <1>1
  <2> QED
    BY <2>1, Zenon DEF Matching, Zombies
<1> QED
  BY <1>1, WaitersFrame

\* A switch with nothing else: the timer, thread_yield() and the boot thread.
LEMMA PlainSwitch ==
  ASSUME IInv, NeverHalts,
         Schedule(tstate, wait_queue),
         UNCHANGED <<tproc, next_tid, proc_vars, call_vars, tty_vars>>,
         main_if' \in BOOLEAN
  PROVE  IInv'
<1>1. TypeOK /\ OneRunning /\ BootThread /\ BlockedReaders /\ cr3 = tproc[current]
  BY DEF IInv, RunningThread, NeverHalts
<1>2. /\ Switched(tstate, wait_queue)
      /\ RunningThread' /\ ReaperKeepsUp' /\ cr3' = tproc'[current']
      /\ tstate'[Main] \in {"READY", "RUNNING", "WAITING_CHILD"}
      /\ tstate'[Main] = "WAITING_CHILD" => tstate[Main] = "WAITING_CHILD"
      /\ \A n \in Ttys : wait_queue'[n] = wait_queue[n]
      /\ \A t \in Tid : Exists(t)' <=> Exists(t)
  <2>1. tstate \in [Tid -> ThreadState] /\ wait_queue \in [Ttys -> SUBSET Tid]
    BY <1>1 DEF TypeOK
  <2>2. /\ tstate[Main] \in {"READY", "RUNNING", "WAITING_CHILD"}
        /\ \A t \in Tid : tstate[t] = "RUNNING" => t = current
    BY <1>1 DEF BootThread, OneRunning
  <2>3. \A n \in Ttys : \A t \in wait_queue[n] : tstate[t] = "BLOCKED"
    BY <1>1 DEF BlockedReaders
  <2>4. NeverHalts /\ UNCHANGED tproc
    OBVIOUS
  <2> QED
    BY <1>1, <2>1, <2>2, <2>3, <2>4, SwitchedInv DEF Exists
<1>3. Switched(tstate, wait_queue)
  BY <1>2
<1>4. UNCHANGED <<tproc, next_tid, pstate, parent, children, waiter, next_pid, call, wait_pid, read_tty,
                  lines, active>>
  BY DEF proc_vars, call_vars, tty_vars
<1>5. TypeOK'
  BY <1>1, <1>3, <1>4 DEF TypeOK, Switched
<1>6. BootThread'
  <2>1. /\ tstate'[Main] \in {"READY", "RUNNING", "WAITING_CHILD"}
        /\ tstate'[Main] = "WAITING_CHILD" => tstate[Main] = "WAITING_CHILD"
    BY <1>2
  <2> QED
    BY <1>1, <1>4, <2>1 DEF BootThread
<1>7. FreshIds'
  <2>1. \A t \in Tid : tstate[t] = "NONE" => tstate'[t] = "NONE"
    BY <1>3 DEF Switched
  <2> QED
    BY <1>4, <2>1 DEF IInv, FreshIds
<1>8. Ownership'
  <2>1. \A t \in Tid : Exists(t)' <=> Exists(t)
    BY <1>2
  <2> QED
    BY <1>4, <2>1 DEF IInv, Ownership
<1>9. KernelLoops' /\ FamilyTree'
  BY <1>4 DEF IInv, KernelLoops, FamilyTree
<1>10. Waiters'
  <2>1. \A t \in Tid : tstate'[t] = "WAITING_CHILD" <=> tstate[t] = "WAITING_CHILD"
    BY <1>1, <1>3 DEF Switched
  <2> QED
    BY <1>1, <1>4, <2>1, WaitersKept DEF IInv
<1>11. BlockedReaders'
  <2>1. \A t \in Tid : tstate'[t] = "BLOCKED" <=> tstate[t] = "BLOCKED"
    BY <1>1, <1>3 DEF Switched
  <2>2. \A n \in Ttys : wait_queue'[n] = wait_queue[n]
    BY <1>2
  <2> QED
    BY <1>1, <1>4, <2>1, <2>2 DEF BlockedReaders, TypeOK
<1> QED
  BY <1>2, <1>5, <1>6, <1>7, <1>8, <1>9, <1>10, <1>11 DEF IInv

\* A kernel thread exits.
LEMMA ThreadExitStep == IInv /\ ThreadExit => IInv'
<1> SUFFICES ASSUME IInv, ThreadExit PROVE IInv'
  OBVIOUS
<1>1. TypeOK /\ OneRunning /\ BootThread /\ BlockedReaders /\ cr3 = tproc[current] /\ NeverHalts
  BY DEF IInv, RunningThread, NeverHalts, ThreadExit, InKernelThread
<1> DEFINE ts == [tstate EXCEPT ![current] = "DEAD"]
<1> DEFINE wq == wait_queue
<1>2. /\ ts \in [Tid -> ThreadState] /\ wq \in [Ttys -> SUBSET Tid]
      /\ ts[Main] = tstate[Main] /\ ts[Main] \in {"READY", "RUNNING", "WAITING_CHILD"}
      /\ \A t \in Tid : ts[t] = "RUNNING" => t = current
      /\ \A n \in Ttys : \A t \in wq[n] : ts[t] = "BLOCKED"
  BY <1>1 DEF TypeOK, OneRunning, BootThread, BlockedReaders, ThreadState,
              ThreadExit, InKernelThread
<1>3. Schedule(ts, wq) /\ UNCHANGED tproc
  BY DEF ThreadExit
<1> HIDE DEF ts, wq
<1>4. /\ Switched(ts, wq)
      /\ RunningThread' /\ ReaperKeepsUp' /\ cr3' = tproc'[current']
      /\ tstate'[Main] \in {"READY", "RUNNING", "WAITING_CHILD"}
      /\ tstate'[Main] = "WAITING_CHILD" => ts[Main] = "WAITING_CHILD"
      /\ \A n \in Ttys : wait_queue'[n] = wq[n]
      /\ \A t \in Tid : Exists(t)' <=> ts[t] \notin {"NONE", "DEAD"}
  BY <1>1, <1>2, <1>3, SwitchedInv
<1>5. /\ current \in Tid /\ current # Main /\ tproc[current] = KernelPid
      /\ \A t \in Tid : ts[t] = IF t = current THEN "DEAD" ELSE tstate[t]
      /\ tstate[current] = "RUNNING"
  BY <1>1 DEF ts, TypeOK, ThreadExit, InKernelThread, OneRunning
<1>6. UNCHANGED <<tproc, next_tid, proc_vars, call_vars, tty_vars, main_if>>
  BY SMTT(30) DEF ThreadExit
<1>7. UNCHANGED <<tproc, next_tid, pstate, parent, children, waiter, next_pid, call, wait_pid, read_tty,
                  lines, active, main_if>>
  BY <1>6 DEF proc_vars, call_vars, tty_vars
<1>8. Switched(ts, wq)
  BY <1>4
<1>9. \A t \in Tid : Exists(t)' <=> Exists(t) /\ t # current
  BY <1>4, <1>5 DEF Exists
<1>10. TypeOK'
  BY <1>1, <1>7, <1>8 DEF TypeOK, Switched
<1>11. BootThread' /\ FreshIds'
  <2>1. \A t \in Tid : tstate[t] = "NONE" => tstate'[t] = "NONE"
    BY <1>5, <1>8 DEF Switched
  <2>2. FreshIds'
    BY <1>7, <2>1 DEF IInv, FreshIds
  <2>3. /\ tstate'[Main] \in {"READY", "RUNNING", "WAITING_CHILD"}
        /\ tstate'[Main] = "WAITING_CHILD" => tstate[Main] = "WAITING_CHILD"
    BY <1>2, <1>4
  <2>4. BootThread'
    BY <1>1, <1>7, <2>3 DEF BootThread
  <2> QED
    BY <2>2, <2>4
<1>12. KernelLoops' /\ FamilyTree'
  BY <1>7 DEF IInv, KernelLoops, FamilyTree
<1>13. Ownership'
  <2>1. Ownership
    BY DEF IInv
  <2>2. \A t \in Tid : Exists(t)' => pstate'[tproc'[t]] = "RUNNING"
    BY <1>7, <1>9, <2>1 DEF Ownership
  <2>3. ASSUME NEW p \in Pid \ {KernelPid}, pstate'[p] = "RUNNING"
        PROVE  \E t \in Tid : Exists(t)' /\ tproc'[t] = p
    <3>1. PICK t \in Tid : Exists(t) /\ tproc[t] = p
      BY <1>7, <2>1, <2>3 DEF Ownership
    <3>2. t # current
      BY <1>5, <3>1
    <3> QED
      BY <1>7, <1>9, <3>1, <3>2
  <2>4. ASSUME NEW t \in Tid, NEW u \in Tid, Exists(t)', Exists(u)', tproc'[t] = tproc'[u],
               tproc'[t] # KernelPid
        PROVE  t = u
    BY <1>7, <1>9, <2>1, <2>4 DEF Ownership
  <2> QED
    BY <2>2, <2>3, <2>4 DEF Ownership
<1>14. Waiters'
  <2>1. \A t \in Tid : tstate'[t] = "WAITING_CHILD" <=> tstate[t] = "WAITING_CHILD"
    BY <1>1, <1>5, <1>8 DEF Switched
  <2> QED
    BY <1>1, <1>7, <2>1, WaitersKept DEF IInv
<1>15. BlockedReaders'
  <2>1. \A t \in Tid : tstate'[t] = "BLOCKED" <=> tstate[t] = "BLOCKED"
    BY <1>1, <1>5, <1>8 DEF Switched
  <2>2. \A n \in Ttys : wait_queue'[n] = wait_queue[n]
    BY <1>4 DEF wq
  <2> QED
    BY <1>1, <1>7, <2>1, <2>2 DEF BlockedReaders, TypeOK
<1> QED
  BY <1>4, <1>10, <1>11, <1>12, <1>13, <1>14, <1>15 DEF IInv

-----------------------------------------------------------------------------
\* sys_waitpid() blocks, in a user thread or in the boot thread.
LEMMA WaitpidBlockStep ==
  ASSUME IInv, NeverHalts, NEW pid \in Pid \cup {AnyChild},
         tproc[current] # KernelPid \/ current = Main,
         WaitpidBlock(pid),
         UNCHANGED tty_vars, main_if' \in BOOLEAN
  PROVE  IInv'
<1>1. TypeOK /\ OneRunning /\ BootThread /\ BlockedReaders /\ cr3 = tproc[current] /\ NeverHalts
  BY DEF IInv, RunningThread, NeverHalts
<1> DEFINE ts == [tstate EXCEPT ![current] = "WAITING_CHILD"]
<1> DEFINE wq == wait_queue
<1>2. /\ ts \in [Tid -> ThreadState] /\ wq \in [Ttys -> SUBSET Tid]
      /\ ts[Main] \in {"READY", "RUNNING", "WAITING_CHILD"}
      /\ \A t \in Tid : ts[t] = "RUNNING" => t = current
      /\ \A n \in Ttys : \A t \in wq[n] : ts[t] = "BLOCKED"
  BY <1>1 DEF TypeOK, OneRunning, BootThread, BlockedReaders, ThreadState
<1>3. Schedule(ts, wq) /\ UNCHANGED tproc
  BY DEF WaitpidBlock
<1> HIDE DEF ts, wq
<1>4. /\ Switched(ts, wq)
      /\ RunningThread' /\ ReaperKeepsUp' /\ cr3' = tproc'[current']
      /\ tstate'[Main] \in {"READY", "RUNNING", "WAITING_CHILD"}
      /\ tstate'[Main] = "WAITING_CHILD" => ts[Main] = "WAITING_CHILD"
      /\ \A n \in Ttys : wait_queue'[n] = wq[n]
      /\ \A t \in Tid : Exists(t)' <=> ts[t] \notin {"NONE", "DEAD"}
  BY <1>1, <1>2, <1>3, SwitchedInv
<1>5. /\ current \in Tid
      /\ \A t \in Tid : ts[t] = IF t = current THEN "WAITING_CHILD" ELSE tstate[t]
      /\ tstate[current] = "RUNNING"
  BY <1>1 DEF ts, TypeOK, OneRunning
<1>6. /\ waiter' = [waiter EXCEPT ![tproc[current]] = current]
      /\ call' = [call EXCEPT ![current] = "waitpid"]
      /\ wait_pid' = [wait_pid EXCEPT ![current] = pid]
      /\ Matching(tproc[current], pid) # {} /\ Zombies(tproc[current], pid) = {}
  BY DEF WaitpidBlock
<1>13. UNCHANGED <<tproc, next_tid, pstate, parent, children, next_pid, read_tty>>
  BY DEF WaitpidBlock
<1>14. UNCHANGED <<lines, active>> /\ main_if' \in BOOLEAN
  BY DEF tty_vars
<1>7. /\ \A t \in Tid : Exists(t)' <=> Exists(t)
      /\ \A t \in Tid :
            tstate'[t] = "WAITING_CHILD" <=> t = current \/ tstate[t] = "WAITING_CHILD"
      /\ \A t \in Tid : tstate'[t] = "BLOCKED" <=> tstate[t] = "BLOCKED"
      /\ \A t \in Tid : tstate[t] = "NONE" => tstate'[t] = "NONE"
      /\ \A n \in Ttys : wait_queue'[n] = wait_queue[n]
  <2>1. \A t \in Tid : /\ ts[t] = "BLOCKED" <=> tstate'[t] = "BLOCKED"
                       /\ ts[t] = "WAITING_CHILD" <=> tstate'[t] = "WAITING_CHILD"
                       /\ ts[t] = "NONE" => tstate'[t] = "NONE"
    BY <1>4 DEF Switched
  <2>2. \A n \in Ttys : wait_queue'[n] = wait_queue[n]
    BY <1>4 DEF wq
  <2>3. \A t \in Tid : Exists(t)' <=> Exists(t)
    BY <1>4, <1>5 DEF Exists
  <2> QED
    BY <1>5, <2>1, <2>2, <2>3
<1>8. TypeOK'
  <2>1. /\ waiter' \in [Pid -> Tid \cup {NoThread}]
        /\ call' \in [Tid -> {"none", "waitpid", "ttyread"}]
        /\ wait_pid' \in [Tid -> Pid \cup {AnyChild}]
    BY <1>1, <1>6 DEF TypeOK
  <2>2. /\ tstate' \in [Tid -> ThreadState] /\ current' \in Tid /\ cr3' \in Pid
        /\ wait_queue' \in [Ttys -> SUBSET Tid] /\ halted' \in BOOLEAN
    BY <1>4 DEF Switched
  <2> QED
    BY <1>1, <1>13, <1>14, <2>1, <2>2, Zenon DEF TypeOK
<1>9. BootThread' /\ FreshIds' /\ KernelLoops' /\ FamilyTree'
  <2>1. BootThread' /\ KernelLoops' /\ FamilyTree'
    <3>1. BootThread'
      <4>1. Main \in Tid /\ call \in [Tid -> {"none", "waitpid", "ttyread"}]
        BY <1>1, BoundsAssumption DEF Main, Tid, TypeOK
      <4>2. CASE current = Main
        <5>1. call'[Main] = "waitpid"
          BY <1>6, <4>1, <4>2
        <5> QED
          BY <1>1, <1>4, <1>13, <5>1 DEF BootThread
      <4>3. CASE current # Main
        <5>1. call'[Main] = call[Main] /\ ts[Main] = tstate[Main]
          BY <1>5, <1>6, <4>1, <4>3
        <5> QED
          BY <1>1, <1>4, <1>13, <5>1 DEF BootThread
      <4> QED
        BY <4>2, <4>3
    <3>2. FamilyTree'
      BY <1>13 DEF IInv, FamilyTree
    <3>3. KernelLoops'
      BY <1>1, <1>5, <1>6, <1>13 DEF IInv, KernelLoops, TypeOK
    <3> QED
      BY <3>1, <3>2, <3>3
  <2>2. current < next_tid
    <3>1. FreshIds /\ next_tid \in Int /\ current \in Int
      BY <1>5, BoundsAssumption DEF IInv, TypeOK, Tid
    <3>2. ~(current >= next_tid)
      BY <1>5, <3>1 DEF FreshIds
    <3> QED
      BY <3>1, <3>2
  <2>3. FreshIds'
    <3>1. FreshIds
      BY DEF IInv
    <3>3. next_tid \in Int /\ Tid \subseteq Int
      BY <1>1, BoundsAssumption DEF TypeOK, Tid
    <3>2. \A t \in Tid : t # current => call'[t] = call[t]
      BY <1>1, <1>6 DEF TypeOK
    <3> QED
      BY <1>5, <1>7, <1>13, <2>2, <3>1, <3>2, <3>3 DEF FreshIds
  <2> QED
    BY <2>1, <2>3
<1>10. Ownership'
  <2>1. Ownership
    BY DEF IInv
  <2> QED
    BY <1>7, <1>13, <2>1 DEF Ownership
<1>11. Waiters'
  <2>1. ASSUME NEW t \in Tid, tstate[t] = "WAITING_CHILD"
        PROVE  t # current /\ tproc[t] # tproc[current]
    <3>1. t # current /\ Exists(t) /\ Exists(current)
      BY <1>5, <2>1 DEF Exists
    <3>2. CASE tproc[t] # KernelPid
      BY <1>5, <3>1, <3>2 DEF IInv, Ownership
    <3>3. CASE tproc[t] = KernelPid
      <4>1. t = Main
        BY <2>1, <3>3 DEF IInv, Waiters
      <4> QED
        BY <3>1, <3>3, <4>1
    <3> QED
      BY <3>2, <3>3
  <2>2. ASSUME NEW p \in Pid, waiter'[p] # NoThread
        PROVE  tstate'[waiter'[p]] = "WAITING_CHILD" /\ tproc'[waiter'[p]] = p
    <3>1. CASE p = tproc[current]
      <4>1. waiter'[p] = current
        BY <1>1, <1>6, <3>1 DEF TypeOK
      <4> QED
        BY <1>5, <1>7, <1>13, <3>1, <4>1
    <3>2. CASE p # tproc[current]
      <4>1. waiter'[p] = waiter[p] /\ waiter[p] \in Tid
        BY <1>1, <1>6, <2>2, <3>2 DEF TypeOK
      <4>2. tstate[waiter[p]] = "WAITING_CHILD" /\ tproc[waiter[p]] = p
        BY <2>2, <4>1 DEF IInv, Waiters
      <4> QED
        BY <1>7, <1>13, <4>1, <4>2
    <3> QED
      BY <3>1, <3>2
  <2>3. ASSUME NEW t \in Tid, tstate'[t] = "WAITING_CHILD"
        PROVE  /\ tproc'[t] # KernelPid \/ t = Main
               /\ waiter'[tproc'[t]] = t
               /\ Zombies(tproc[t], wait_pid'[t]) # Matching(tproc[t], wait_pid'[t])
               /\ tproc[t] # KernelPid => Zombies(tproc[t], wait_pid'[t]) = {}
    <3>1. CASE t = current
      <4>1. waiter'[tproc[current]] = current /\ wait_pid'[current] = pid
        BY <1>1, <1>5, <1>6 DEF TypeOK
      <4> QED
        BY <1>6, <1>13, <3>1, <4>1
    <3>2. CASE t # current
      <4>1. tstate[t] = "WAITING_CHILD" /\ tproc[t] # tproc[current]
        BY <1>7, <2>1, <2>3, <3>2
      <4>2. waiter'[tproc[t]] = waiter[tproc[t]] /\ wait_pid'[t] = wait_pid[t]
        BY <1>1, <1>5, <1>6, <3>2, <4>1 DEF TypeOK
      <4> QED
        BY <1>13, <4>1, <4>2 DEF IInv, Waiters
    <3> QED
      BY <3>1, <3>2
  <2>4. ASSUME NEW t \in Tid, tstate'[t] = "WAITING_CHILD"
        PROVE  /\ Zombies(tproc[t], wait_pid[t])' # Matching(tproc[t], wait_pid[t])'
               /\ tproc[t] # KernelPid => Zombies(tproc[t], wait_pid[t])' = {}
    <3>1. /\ Matching(tproc[t], wait_pid[t])' = Matching(tproc[t], wait_pid'[t])
          /\ Zombies(tproc[t], wait_pid[t])' = Zombies(tproc[t], wait_pid'[t])
      BY <1>13, Zenon DEF Matching, Zombies
    <3> QED
      BY <2>3, <2>4, <3>1
  <2> QED
    BY <1>13, <2>2, <2>3, <2>4 DEF Waiters
<1>12. BlockedReaders'
  <2>1. wait_queue \in [Ttys -> SUBSET Tid] /\ read_tty \in [Tid -> Ttys]
    BY <1>1 DEF TypeOK
  <2> QED
    BY <1>1, <1>7, <1>13, <1>14, <2>1 DEF BlockedReaders
<1> QED
  BY <1>4, <1>8, <1>9, <1>10, <1>11, <1>12 DEF IInv

\* A system call returns having changed nothing but the number of lines of a
\* terminal nobody is queued on.
LEMMA ReturnStep ==
  ASSUME IInv, NeverHalts, Return,
         UNCHANGED <<thread_vars, proc_vars, active, main_if>>,
         lines' \in [Ttys -> 0..MaxLines],
         \A n \in Ttys : lines[n] = 0 => lines'[n] = 0
  PROVE  IInv'
<1>1. /\ call' = [call EXCEPT ![current] = "none"]
      /\ wait_pid' = [wait_pid EXCEPT ![current] = AnyChild]
      /\ read_tty' = [read_tty EXCEPT ![current] = 0]
      /\ current \in Tid /\ tstate[current] = "RUNNING" /\ 0 \in Ttys
  BY BoundsAssumption, SMTT(30) DEF Return, IInv, TypeOK, NeverHalts, RunningThread, OneRunning, Ttys
<1> USE DEF thread_vars, proc_vars
<1>2. TypeOK'
  BY <1>1 DEF IInv, TypeOK
<1>3. RunningThread' /\ (cr3 = tproc[current])' /\ BootThread'
  <2>1. RunningThread' /\ (cr3 = tproc[current])'
    BY DEF IInv, RunningThread, OneRunning
  <2>2. BootThread'
    <3>1. call'[Main] = call[Main] \/ (call'[Main] = "none" /\ tstate[Main] = "RUNNING")
      BY <1>1, BoundsAssumption DEF IInv, TypeOK, Main, Tid
    <3> QED
      BY <3>1 DEF IInv, BootThread
  <2> QED
    BY <2>1, <2>2
<1>4. FreshIds' /\ Ownership' /\ KernelLoops' /\ ReaperKeepsUp' /\ FamilyTree'
  <2>1. \A t \in Tid : call[t] = "none" => call'[t] = "none"
    BY <1>1 DEF IInv, TypeOK
  <2>2. FreshIds' /\ KernelLoops'
    BY <2>1 DEF IInv, FreshIds, KernelLoops
  <2>3. ReaperKeepsUp' /\ FamilyTree'
    BY DEF IInv, ReaperKeepsUp, FamilyTree
  <2>4. Ownership'
    BY DEF IInv, Ownership, Exists
  <2> QED
    BY <2>2, <2>3, <2>4
<1>5. Waiters'
  <2>1. \A t \in Tid : tstate[t] = "WAITING_CHILD" => wait_pid'[t] = wait_pid[t]
    BY <1>1 DEF IInv, TypeOK
  <2> QED
    BY <2>1, WaitersKept DEF IInv
<1>6. BlockedReaders'
  <2>1. \A t \in Tid : tstate[t] = "BLOCKED" => read_tty'[t] = read_tty[t]
    BY <1>1 DEF IInv, TypeOK
  <2> QED
    BY <2>1 DEF IInv, BlockedReaders, TypeOK
<1> QED
  BY <1>2, <1>3, <1>4, <1>5, <1>6 DEF IInv

\* sys_waitpid() returns -ECHILD.
LEMMA WaitpidNoChildStep ==
  ASSUME IInv, NeverHalts, NEW pid \in Pid \cup {AnyChild},
         WaitpidNoChild(pid),
         UNCHANGED <<tty_vars, main_if>>
  PROVE  IInv'
<1>1. UNCHANGED <<thread_vars, proc_vars>> /\ Return
  BY DEF WaitpidNoChild
<1>2. lines \in [Ttys -> 0..MaxLines] /\ lines' = lines /\ active' = active
  BY DEF IInv, TypeOK, tty_vars
<1> QED
  BY <1>1, <1>2, ReturnStep

\* sys_waitpid() reaps a zombie.
LEMMA WaitpidReapStep ==
  ASSUME IInv, NeverHalts, NEW pid \in Pid \cup {AnyChild},
         tproc[current] # KernelPid \/ current = Main,
         WaitpidReap(pid),
         UNCHANGED <<tty_vars, main_if>>
  PROVE  IInv'
<1>1. PICK z \in Zombies(tproc[current], pid) :
        /\ children' = [children EXCEPT ![parent[z]] = @ \ {z}]
        /\ pstate' = [pstate EXCEPT ![z] = "NONE"]
  BY Zenon DEF WaitpidReap
<1>2. /\ call' = [call EXCEPT ![current] = "none"]
      /\ wait_pid' = [wait_pid EXCEPT ![current] = AnyChild]
      /\ read_tty' = [read_tty EXCEPT ![current] = 0]
      /\ current \in Tid /\ tstate[current] = "RUNNING" /\ 0 \in Ttys
      /\ tproc[current] \in Pid
  <2>1. /\ call' = [call EXCEPT ![current] = "none"]
        /\ wait_pid' = [wait_pid EXCEPT ![current] = AnyChild]
        /\ read_tty' = [read_tty EXCEPT ![current] = 0]
    BY DEF WaitpidReap, Return
  <2>2. OneRunning /\ TypeOK
    BY DEF IInv, RunningThread, NeverHalts
  <2>3. current \in Tid /\ tproc[current] \in Pid
    BY <2>2 DEF TypeOK
  <2>4. tstate[current] = "RUNNING"
    BY <2>2, <2>3 DEF OneRunning
  <2>5. 0 \in Ttys
    BY BoundsAssumption DEF Ttys
  <2> QED
    BY <2>1, <2>3, <2>4, <2>5
<1>3. /\ z \in Pid /\ z # KernelPid /\ pstate[z] = "ZOMBIE"
      /\ parent[z] = tproc[current]
  BY <1>2 DEF Zombies, Matching, IInv, FamilyTree, TypeOK
<1>4. UNCHANGED <<thread_vars, parent, waiter, next_pid>>
  BY DEF WaitpidReap
<1> USE <1>4 DEF thread_vars, tty_vars
<1>5. /\ \A p \in Pid : pstate'[p] = IF p = z THEN "NONE" ELSE pstate[p]
      /\ \A p \in Pid : children'[p] = IF p = parent[z] THEN children[p] \ {z} ELSE children[p]
  BY <1>1, <1>3, Zenon DEF IInv, TypeOK
<1>13. TypeOK
  BY DEF IInv
<1>14. /\ call' \in [Tid -> {"none", "waitpid", "ttyread"}]
       /\ wait_pid' \in [Tid -> Pid \cup {AnyChild}] /\ read_tty' \in [Tid -> Ttys]
       /\ \A t \in Tid : /\ call[t] = "none" => call'[t] = "none"
                         /\ t # current => call'[t] = call[t] /\ wait_pid'[t] = wait_pid[t]
                         /\ t # current => read_tty'[t] = read_tty[t]
  BY <1>2, <1>13 DEF TypeOK
<1>6. TypeOK'
  <2>1. pstate' \in [Pid -> {"NONE", "RUNNING", "ZOMBIE"}]
    BY <1>1, <1>13 DEF TypeOK
  <2>2. children' \in [Pid -> SUBSET Pid]
    <3>1. children \in [Pid -> SUBSET Pid]
      BY <1>13 DEF TypeOK
    <3> QED
      BY <1>1, <3>1
  <2> QED
    BY <1>13, <1>14, <2>1, <2>2, Zenon DEF TypeOK
<1>7. RunningThread' /\ (cr3 = tproc[current])' /\ BootThread' /\ ReaperKeepsUp'
  <2>1. RunningThread' /\ (cr3 = tproc[current])' /\ ReaperKeepsUp'
    BY DEF IInv, RunningThread, OneRunning, ReaperKeepsUp
  <2>2. KernelPid \in Pid /\ Main \in Tid
    BY BoundsAssumption DEF KernelPid, Pid, Main, Tid
  <2>4. call'[Main] = call[Main] \/ (call'[Main] = "none" /\ tstate[Main] = "RUNNING")
    BY <1>2, <1>14, <2>2, <1>13 DEF TypeOK
  <2>3. BootThread'
    BY <1>3, <1>5, <2>2, <2>4 DEF IInv, BootThread
  <2> QED
    BY <2>1, <2>3
<1>8. FreshIds' /\ KernelLoops'
  <2>1. FreshIds /\ KernelLoops
    BY DEF IInv
  <2>2. \A p \in Pid : pstate[p] = "NONE" => pstate'[p] = "NONE"
    BY <1>5
  <2> QED
    BY <1>14, <2>1, <2>2 DEF FreshIds, KernelLoops
<1>9. Ownership'
  <2>1. Ownership /\ tproc \in [Tid -> Pid]
    BY <1>13 DEF IInv, TypeOK
  <2>2. \A p \in Pid : pstate'[p] = "RUNNING" <=> pstate[p] = "RUNNING"
    BY <1>3, <1>5
  <2>3. \A t \in Tid : Exists(t)' <=> Exists(t)
    BY DEF Exists
  <2> QED
    BY <2>1, <2>2, <2>3 DEF Ownership
<1>10. FamilyTree'
  <2>1. ASSUME NEW p \in Pid, NEW c \in Pid
        PROVE  c \in children'[p] <=> c # KernelPid /\ pstate'[c] # "NONE" /\ parent'[c] = p
    <3>1. c \in children[p] <=> c # KernelPid /\ pstate[c] # "NONE" /\ parent[c] = p
      BY DEF IInv, FamilyTree
    <3>2. parent' = parent
      OBVIOUS
    <3>3. CASE c = z
      BY <1>3, <1>5, <3>1, <3>2, <3>3, Zenon
    <3>4. CASE c # z
      BY <1>3, <1>5, <3>1, <3>2, <3>4, Zenon
    <3> QED
      BY <3>3, <3>4
  <2>2. ASSUME NEW c \in Pid \ {KernelPid}, pstate'[c] # "NONE"
        PROVE  pstate'[parent'[c]] = "RUNNING"
    <3>1. c # z /\ pstate[c] # "NONE"
      BY <1>5, <2>2
    <3>2. parent[c] \in Pid /\ pstate[parent[c]] = "RUNNING"
      BY <3>1 DEF IInv, FamilyTree, TypeOK
    <3> QED
      BY <1>3, <1>5, <3>2
  <2> QED
    BY <2>1, <2>2 DEF FamilyTree
<1>11. Waiters'
  <2>1. ASSUME NEW t \in Tid, tstate[t] = "WAITING_CHILD"
        PROVE  /\ wait_pid'[t] = wait_pid[t]
               /\ tproc[t] \in Pid
               /\ children'[tproc[t]] = children[tproc[t]]
               /\ z \notin children[tproc[t]]
    <3>1. t # current /\ Exists(t) /\ Exists(current)
      BY <1>2, <2>1 DEF Exists
    <3>2. tproc[t] # tproc[current]
      <4>1. CASE tproc[t] # KernelPid
        BY <1>2, <3>1, <4>1 DEF IInv, Ownership
      <4>2. CASE tproc[t] = KernelPid
        <5>1. t = Main
          BY <2>1, <4>2 DEF IInv, Waiters
        <5> QED
          BY <3>1, <4>2, <5>1
      <4> QED
        BY <4>1, <4>2
    <3>3. tproc[t] \in Pid
      BY DEF IInv, TypeOK
    <3>4. z \notin children[tproc[t]]
      BY <1>3, <3>2, <3>3 DEF IInv, FamilyTree
    <3>5. wait_pid'[t] = wait_pid[t]
      BY <1>14, <3>1
    <3> QED
      BY <1>3, <1>5, <3>2, <3>3, <3>4, <3>5
  <2>2. ASSUME NEW t \in Tid, tstate[t] = "WAITING_CHILD"
        PROVE  /\ Matching(tproc[t], wait_pid[t])' = Matching(tproc[t], wait_pid[t])
               /\ Zombies(tproc[t], wait_pid[t])' = Zombies(tproc[t], wait_pid[t])
    <3>1. \A c \in children[tproc[t]] : pstate'[c] = pstate[c]
      <4>1. z \notin children[tproc[t]] /\ children[tproc[t]] \subseteq Pid
        BY <2>1, <2>2 DEF IInv, TypeOK
      <4> QED
        BY <1>5, <4>1
    <3>2. wait_pid'[t] = wait_pid[t] /\ children'[tproc[t]] = children[tproc[t]] /\ tproc' = tproc
      BY <2>1, <2>2
    <3>3. Matching(tproc[t], wait_pid[t])' = Matching(tproc[t], wait_pid[t])
      BY <3>2, Zenon DEF Matching
    <3>4. Zombies(tproc[t], wait_pid[t])' = Zombies(tproc[t], wait_pid[t])
      BY <3>1, <3>2 DEF Matching, Zombies
    <3> QED
      BY <3>3, <3>4
  <2> QED
    BY <2>2, WaitersFrame DEF IInv
<1>12. BlockedReaders'
  <2>1. \A t \in Tid : tstate[t] = "BLOCKED" => read_tty'[t] = read_tty[t]
    BY <1>2, <1>14
  <2>2. wait_queue \in [Ttys -> SUBSET Tid] /\ BlockedReaders
    BY <1>13 DEF IInv, TypeOK
  <2> QED
    BY <2>1, <2>2 DEF BlockedReaders
<1> QED
  BY <1>6, <1>7, <1>8, <1>9, <1>10, <1>11, <1>12 DEF IInv
=============================================================================
