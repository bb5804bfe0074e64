---------------------------- MODULE KernelProofs ----------------------------
(***************************************************************************)
(* Theorems about modules Kernel and BootWait, for any number of threads,  *)
(* processes, terminals and lines.                                         *)
(***************************************************************************)
EXTENDS KernelStepProofs, BootWait
LOCAL INSTANCE WellFoundedInduction

\* No walk over a children list meets a process that was freed.
LEMMA ListsAreLive == IInv => \A p \in Pid : ~Dangling(p)
<1> SUFFICES ASSUME IInv, NEW p \in Pid, NEW c \in children[p] PROVE pstate[c] # "NONE"
  BY DEF Dangling
<1>1. c \in Pid
  BY DEF IInv, TypeOK
<1> QED
  BY <1>1 DEF IInv, FamilyTree

LEMMA WalksEnd == IInv => ~WalksFreed(tproc[current])
<1> SUFFICES ASSUME IInv PROVE ~Dangling(tproc[current])
  BY DEF WalksFreed
<1>1. tproc[current] \in Pid
  BY DEF IInv, TypeOK
<1> QED
  BY <1>1, ListsAreLive

\* sys_exit() and a fault in user mode.
LEMMA SysExitOrFaultStep == IInv /\ SysExitOrFault => IInv'
<1> SUFFICES ASSUME IInv, InUser, Exits PROVE IInv'
  BY WalksEnd DEF SysExitOrFault
<1> DEFINE proc == tproc[current]
<1> DEFINE w == waiter[parent[proc]]
<1> DEFINE ts == AfterExit(proc)
<1>1. TypeOK /\ OneRunning /\ BootThread /\ BlockedReaders /\ cr3 = tproc[current] /\ NeverHalts
  BY DEF IInv, RunningThread, NeverHalts, InUser
<1>2. /\ current \in Tid /\ proc \in Pid /\ proc # KernelPid
      /\ KernelPid \in Pid /\ Main \in Tid /\ parent[proc] \in Pid
      /\ tstate[current] = "RUNNING" /\ current # Main
  <2>1. current \in Tid /\ proc \in Pid /\ proc # KernelPid /\ parent[proc] \in Pid
    BY <1>1 DEF TypeOK, InUser
  <2>2. KernelPid \in Pid /\ Main \in Tid
    BY BoundsAssumption DEF KernelPid, Pid, Main, Tid
  <2> QED
    BY <1>1, <2>1, <2>2 DEF OneRunning, BootThread
<1>3. pstate[proc] = "RUNNING" /\ pstate[parent[proc]] = "RUNNING"
  BY <1>2 DEF IInv, Ownership, Exists, FamilyTree
<1>4. \A t \in Tid : Exists(t) /\ tproc[t] = proc => t = current
  BY <1>2 DEF IInv, Ownership, Exists
<1>5. /\ ts \in [Tid -> ThreadState]
      /\ \A t \in Tid : ts[t] = IF t = current THEN "DEAD"
                                ELSE IF t = w /\ tstate[t] = "WAITING_CHILD" THEN "READY"
                                ELSE tstate[t]
  <2>1. \A t \in Tid : tproc[t] = proc /\ tstate[t] # "NONE" => t = current \/ tstate[t] = "DEAD"
    BY <1>4 DEF Exists
  <2>2. ts \in [Tid -> ThreadState]
    BY <1>1 DEF AfterExit, TypeOK, ThreadState
  <2>3. \A t \in Tid : ts[t] = IF tproc[t] = proc /\ tstate[t] # "NONE" THEN "DEAD"
                               ELSE IF t = w /\ tstate[t] = "WAITING_CHILD" THEN "READY"
                               ELSE tstate[t]
    BY DEF AfterExit
  <2> HIDE DEF ts, w
  <2> QED
    BY <1>2, <2>1, <2>2, <2>3
<1>6. Schedule(ts, wait_queue) /\ ProcessExit(proc)
      /\ UNCHANGED <<tproc, next_tid, call_vars, tty_vars, main_if>>
  BY DEF Exits
<1> HIDE DEF ts
<1>7. /\ Switched(ts, wait_queue)
      /\ RunningThread' /\ ReaperKeepsUp' /\ cr3' = tproc'[current']
      /\ tstate'[Main] \in {"READY", "RUNNING", "WAITING_CHILD"}
      /\ tstate'[Main] = "WAITING_CHILD" => ts[Main] = "WAITING_CHILD"
      /\ \A n \in Ttys : wait_queue'[n] = wait_queue[n]
      /\ \A t \in Tid : Exists(t)' <=> ts[t] \notin {"NONE", "DEAD"}
  <2>1. /\ ts[Main] \in {"READY", "RUNNING", "WAITING_CHILD"}
        /\ \A t \in Tid : ts[t] = "RUNNING" => t = current
    BY <1>1, <1>2, <1>5 DEF BootThread, OneRunning
  <2>2. \A n \in Ttys : \A t \in wait_queue[n] : ts[t] = "BLOCKED"
    BY <1>1, <1>2, <1>5 DEF BlockedReaders, TypeOK
  <2>3. wait_queue \in [Ttys -> SUBSET Tid]
    BY <1>1 DEF TypeOK
  <2> QED
    BY <1>1, <1>5, <1>6, <2>1, <2>2, <2>3, SwitchedInv
<1>8. /\ \A t \in Tid : Exists(t)' <=> Exists(t) /\ t # current
      /\ \A t \in Tid : tstate'[t] = "WAITING_CHILD" <=> tstate[t] = "WAITING_CHILD" /\ t # w
      /\ \A t \in Tid : tstate'[t] = "BLOCKED" <=> tstate[t] = "BLOCKED"
      /\ \A t \in Tid : tstate[t] = "NONE" => tstate'[t] = "NONE"
  BY <1>2, <1>5, <1>7 DEF Exists, Switched
<1>9. /\ pstate' = [pstate EXCEPT ![proc] = "ZOMBIE"]
      /\ parent' = [p \in Pid |-> IF p \in children[proc] THEN KernelPid ELSE parent[p]]
      /\ children' = [children EXCEPT ![KernelPid] = @ \cup children[proc], ![proc] = {}]
      /\ waiter' = [waiter EXCEPT ![parent[proc]] = NoThread]
      /\ next_pid' = next_pid
  BY <1>6 DEF ProcessExit, ProcessReparentChildren
<1> HIDE DEF proc, w
<1>10. /\ \A p \in Pid : pstate'[p] = IF p = proc THEN "ZOMBIE" ELSE pstate[p]
       /\ \A p \in Pid : parent'[p] = IF p \in children[proc] THEN KernelPid ELSE parent[p]
       /\ \A p \in Pid : children'[p] = IF p = proc THEN {}
                                        ELSE IF p = KernelPid THEN children[p] \cup children[proc]
                                        ELSE children[p]
       /\ \A p \in Pid : waiter'[p] = IF p = parent[proc] THEN NoThread ELSE waiter[p]
  BY <1>1, <1>2, <1>9, Zenon DEF TypeOK
<1>18. UNCHANGED <<tproc, next_tid, call, wait_pid, read_tty, lines, active, main_if>>
  BY <1>6 DEF call_vars, tty_vars
<1> USE <1>18
<1>11. TypeOK'
  <2>1. /\ pstate' \in [Pid -> {"NONE", "RUNNING", "ZOMBIE"}]
        /\ parent' \in [Pid -> Pid] /\ waiter' \in [Pid -> Tid \cup {NoThread}]
    BY <1>1, <1>2, <1>9 DEF TypeOK
  <2>2. children' \in [Pid -> SUBSET Pid]
    BY <1>1, <1>2, <1>9 DEF TypeOK
  <2> QED
    BY <1>1, <1>7, <1>9, <2>1, <2>2, Zenon DEF TypeOK, Switched
<1>12. BootThread' /\ KernelLoops'
  <2>1. KernelLoops'
    BY DEF IInv, KernelLoops
  <2>2. tstate'[Main] = "WAITING_CHILD" => tstate[Main] = "WAITING_CHILD"
    BY <1>2, <1>8
  <2>3. pstate'[KernelPid] = pstate[KernelPid]
    BY <1>2, <1>10
  <2>4. BootThread'
    BY <1>1, <1>7, <2>2, <2>3 DEF BootThread
  <2> QED
    BY <2>1, <2>4
<1>13. FreshIds'
  BY <1>2, <1>3, <1>8, <1>9, <1>10 DEF IInv, FreshIds
<1>14. Ownership'
  <2>1. ASSUME NEW t \in Tid, Exists(t)'
        PROVE  pstate'[tproc'[t]] = "RUNNING"
    <3>1. tproc[t] # proc /\ pstate[tproc[t]] = "RUNNING" /\ tproc[t] \in Pid
      BY <1>1, <1>4, <1>8, <2>1, SMTT(30) DEF IInv, Ownership, TypeOK
    <3> QED
      BY <1>10, <3>1, SMTT(30)
  <2>2. ASSUME NEW p \in Pid \ {KernelPid}, pstate'[p] = "RUNNING"
        PROVE  \E t \in Tid : Exists(t)' /\ tproc'[t] = p
    <3>1. p # proc /\ pstate[p] = "RUNNING"
      BY <1>10, <2>2
    <3>2. PICK t \in Tid : Exists(t) /\ tproc[t] = p
      BY <3>1 DEF IInv, Ownership
    <3> QED
      BY <1>8, <3>1, <3>2 DEF proc
  <2>3. ASSUME NEW t \in Tid, NEW u \in Tid, Exists(t)', Exists(u)',
               tproc'[t] = tproc'[u], tproc'[t] # KernelPid
        PROVE  t = u
    BY <1>8, <2>3 DEF IInv, Ownership
  <2> QED
    BY <2>1, <2>2, <2>3 DEF Ownership
<1>15. FamilyTree'
  <2>1. ASSUME NEW p \in Pid, NEW c \in Pid
        PROVE  c \in children'[p] <=> c # KernelPid /\ pstate'[c] # "NONE" /\ parent'[c] = p
    <3>1. /\ c \in children[p] <=> c # KernelPid /\ pstate[c] # "NONE" /\ parent[c] = p
          /\ c \in children[proc] <=> c # KernelPid /\ pstate[c] # "NONE" /\ parent[c] = proc
      BY <1>2 DEF IInv, FamilyTree
    <3>2. pstate'[c] # "NONE" <=> pstate[c] # "NONE"
      BY <1>3, <1>10
    <3>3. CASE p = proc
      BY <1>2, <1>10, <3>1, <3>2, <3>3
    <3>4. CASE p = KernelPid
      BY <1>2, <1>10, <3>1, <3>2, <3>4, Zenon
    <3>5. CASE p # proc /\ p # KernelPid
      BY <1>2, <1>10, <3>1, <3>2, <3>5, Zenon
    <3> QED
      BY <3>3, <3>4, <3>5
  <2>2. ASSUME NEW c \in Pid \ {KernelPid}, pstate'[c] # "NONE"
        PROVE  pstate'[parent'[c]] = "RUNNING"
    <3>1. pstate[c] # "NONE"
      BY <1>3, <1>10, <2>2
    <3>2. CASE c \in children[proc]
      BY <1>1, <1>2, <1>10, <3>2 DEF BootThread
    <3>3. CASE c \notin children[proc]
      <4>1. parent[c] # proc /\ parent[c] \in Pid /\ pstate[parent[c]] = "RUNNING"
        BY <1>1, <1>2, <3>1, <3>3, SMTT(30) DEF IInv, FamilyTree, TypeOK
      <4>2. parent'[c] = parent[c]
        BY <1>10, <3>3
      <4>3. pstate'[parent[c]] = pstate[parent[c]]
        BY <1>10, <4>1
      <4> QED
        BY <4>1, <4>2, <4>3
    <3> QED
      BY <3>2, <3>3
  <2> QED
    BY <2>1, <2>2 DEF FamilyTree
<1>16. Waiters'
  <2>1. ASSUME NEW p \in Pid, waiter'[p] # NoThread
        PROVE  tstate'[waiter'[p]] = "WAITING_CHILD" /\ tproc'[waiter'[p]] = p
    <3>1. p # parent[proc] /\ waiter'[p] = waiter[p] /\ waiter[p] \in Tid
      BY <1>1, <1>10, <2>1, SMTT(30) DEF TypeOK
    <3>2. tstate[waiter[p]] = "WAITING_CHILD" /\ tproc[waiter[p]] = p
      BY <2>1, <3>1 DEF IInv, Waiters
    <3>3. waiter[p] # w
      BY <1>2, <2>1, <3>1, <3>2, SMTT(30) DEF IInv, Waiters, w
    <3> QED
      BY <1>8, <3>1, <3>2, <3>3
  <2>2. ASSUME NEW t \in Tid, tstate'[t] = "WAITING_CHILD"
        PROVE  /\ tstate[t] = "WAITING_CHILD" /\ tproc[t] \in Pid
               /\ tproc[t] # parent[proc] /\ tproc[t] # proc
               /\ tproc[t] # KernelPid \/ t = Main
               /\ waiter'[tproc[t]] = t
    <3>1. tstate[t] = "WAITING_CHILD" /\ t # w /\ tproc[t] \in Pid
      BY <1>1, <1>8, <2>2, SMTT(30) DEF TypeOK
    <3>2. waiter[tproc[t]] = t /\ (tproc[t] # KernelPid \/ t = Main)
      BY <3>1 DEF IInv, Waiters
    <3>3. tproc[t] # parent[proc]
      BY <3>1, <3>2 DEF w
    <3>4. tproc[t] # proc
      BY <1>2, <1>4, <3>1, SMTT(30) DEF Exists
    <3> QED
      BY <1>10, <3>1, <3>2, <3>3, <3>4
  <2>3. ASSUME NEW t \in Tid, tstate'[t] = "WAITING_CHILD", tproc[t] # KernelPid
        PROVE  /\ Matching(tproc[t], wait_pid[t])' = Matching(tproc[t], wait_pid[t])
               /\ Zombies(tproc[t], wait_pid[t])' = Zombies(tproc[t], wait_pid[t])
    <3>1. children'[tproc[t]] = children[tproc[t]] /\ children[tproc[t]] \subseteq Pid
      BY <1>1, <1>10, <2>2, <2>3, Zenon DEF TypeOK
    <3>2. proc \notin children[tproc[t]]
      <4>1. tproc[t] \in Pid /\ parent[proc] # tproc[t]
        BY <2>2, <2>3
      <4> QED
        BY <1>2, <4>1 DEF IInv, FamilyTree
    <3>3. \A c \in children[tproc[t]] : pstate'[c] = pstate[c]
      BY <1>10, <3>1, <3>2
    <3> QED
      <4>1. Matching(tproc[t], wait_pid[t])' = Matching(tproc[t], wait_pid[t])
        BY <1>18, <3>1, Zenon DEF Matching
      <4>2. \A c \in Matching(tproc[t], wait_pid[t]) : pstate'[c] = pstate[c]
        BY <3>3, Zenon DEF Matching
      <4>3. Zombies(tproc[t], wait_pid[t])' = Zombies(tproc[t], wait_pid[t])
        BY <1>18, <4>1, <4>2, Zenon DEF Zombies
      <4> QED
        BY <4>1, <4>3
  \* The boot thread: the orphans join its children, and the child it waits for
  \* is not the one that exits.
  <2>4. ASSUME NEW t \in Tid, tstate'[t] = "WAITING_CHILD", tproc[t] = KernelPid
        PROVE  Zombies(tproc[t], wait_pid[t])' # Matching(tproc[t], wait_pid[t])'
    <3>1. tstate[t] = "WAITING_CHILD" /\ tproc[t] # parent[proc] /\ tproc[t] # proc
      BY <2>2, <2>4
    <3>2. PICK c \in Matching(tproc[t], wait_pid[t]) :
            c \in Pid /\ parent[c] = tproc[t] /\ pstate[c] = "RUNNING"
      BY <3>1, AwaitedChild
    <3>3. c \in children[tproc[t]] /\ wait_pid[t] \in {AnyChild, c}
      BY <3>2, Zenon DEF Matching
    <3>4. c \in children'[tproc[t]]
      BY <1>2, <1>10, <2>4, <3>1, <3>3, Zenon
    <3>5. c # proc
      BY <3>1, <3>2
    <3>6. pstate'[c] = "RUNNING"
      BY <1>10, <3>2, <3>5
    <3>7. c \in Matching(tproc[t], wait_pid[t])'
      BY <3>3, <3>4, Zenon DEF Matching
    <3>8. c \notin Zombies(tproc[t], wait_pid[t])'
      BY <3>6 DEF Zombies
    <3> QED
      BY <3>7, <3>8
  <2>5. ASSUME NEW t \in Tid, tstate'[t] = "WAITING_CHILD"
        PROVE  /\ Zombies(tproc[t], wait_pid[t])' # Matching(tproc[t], wait_pid[t])'
               /\ tproc[t] # KernelPid => Zombies(tproc[t], wait_pid[t])' = {}
    <3>1. tstate[t] = "WAITING_CHILD" /\ Waiters
      BY <2>2, <2>5 DEF IInv
    <3> QED
      BY <2>3, <2>4, <2>5, <3>1 DEF Waiters
  <2> QED
    BY <2>1, <2>2, <2>5 DEF Waiters
<1>17. BlockedReaders'
  BY <1>1, <1>7, <1>8, SMTT(20) DEF BlockedReaders, TypeOK
<1> QED
  BY <1>7, <1>11, <1>12, <1>13, <1>14, <1>15, <1>16, <1>17 DEF IInv

\* tty_read_vfs() takes a line, or part of one.
LEMMA TtyTakeLineStep ==
  ASSUME IInv, NeverHalts, NEW n \in Ttys,
         TtyTakeLine(n),
         UNCHANGED <<proc_vars, active, main_if>>
  PROVE  IInv'
<1>1. lines[n] \in 0..MaxLines /\ lines \in [Ttys -> 0..MaxLines] /\ lines[n] > 0
  BY DEF IInv, TypeOK, TtyTakeLine
<1>2. /\ lines' \in [Ttys -> 0..MaxLines]
      /\ \A m \in Ttys : lines[m] = 0 => lines'[m] = 0
  BY <1>1, OptionsAssumption DEF TtyTakeLine
<1>3. Return /\ UNCHANGED thread_vars
  BY DEF TtyTakeLine
<1> QED
  BY <1>2, <1>3, ReturnStep

\* tty_read_vfs() finds no line and blocks.
LEMMA TtyBlockStep ==
  ASSUME IInv, NeverHalts, NEW m \in Ttys,
         tproc[current] # KernelPid,
         TtyBlock(m),
         UNCHANGED <<proc_vars, active, main_if>>
  PROVE  IInv'
<1>1. TypeOK /\ OneRunning /\ BootThread /\ BlockedReaders /\ cr3 = tproc[current] /\ NeverHalts
  BY DEF IInv, RunningThread, NeverHalts
<1> DEFINE ts == [tstate EXCEPT ![current] = "BLOCKED"]
<1> DEFINE wq == [wait_queue EXCEPT ![m] = @ \cup {current}]
<1>2. /\ ts \in [Tid -> ThreadState] /\ wq \in [Ttys -> SUBSET Tid]
      /\ ts[Main] = tstate[Main] /\ ts[Main] \in {"READY", "RUNNING", "WAITING_CHILD"}
      /\ \A t \in Tid : ts[t] = "RUNNING" => t = current
      /\ \A n \in Ttys : \A t \in wq[n] : ts[t] = "BLOCKED"
  BY <1>1 DEF TypeOK, OneRunning, BootThread, BlockedReaders, ThreadState
<1>3. Schedule(ts, wq) /\ UNCHANGED tproc
  BY DEF TtyBlock
<1> HIDE DEF ts, wq
<1>4. /\ Switched(ts, wq)
      /\ RunningThread' /\ ReaperKeepsUp' /\ cr3' = tproc'[current']
      /\ tstate'[Main] \in {"READY", "RUNNING", "WAITING_CHILD"}
      /\ tstate'[Main] = "WAITING_CHILD" => ts[Main] = "WAITING_CHILD"
      /\ \A n \in Ttys : wait_queue'[n] = wq[n]
      /\ \A t \in Tid : Exists(t)' <=> ts[t] \notin {"NONE", "DEAD"}
  BY <1>1, <1>2, <1>3, SwitchedInv
<1>5. /\ current \in Tid
      /\ \A t \in Tid : ts[t] = IF t = current THEN "BLOCKED" ELSE tstate[t]
      /\ tstate[current] = "RUNNING"
  BY <1>1 DEF ts, TypeOK, OneRunning
<1>6. /\ UNCHANGED <<tproc, next_tid, wait_pid, lines>>
      /\ lines[m] = 0
      /\ call' = [call EXCEPT ![current] = "ttyread"]
      /\ read_tty' = [read_tty EXCEPT ![current] = m]
  BY DEF TtyBlock
<1>7. /\ \A t \in Tid : Exists(t)' <=> Exists(t)
      /\ \A t \in Tid : tstate'[t] = "WAITING_CHILD" <=> tstate[t] = "WAITING_CHILD"
      /\ \A t \in Tid : tstate'[t] = "BLOCKED" <=> t = current \/ tstate[t] = "BLOCKED"
      /\ \A t \in Tid : tstate[t] = "NONE" => tstate'[t] = "NONE"
  <2>1. \A t \in Tid : Exists(t)' <=> Exists(t)
    BY <1>4, <1>5 DEF Exists
  <2>2. Switched(ts, wq)
    BY <1>4
  <2> QED
    BY <1>5, <2>1, <2>2 DEF Switched
<1> USE <1>6 DEF proc_vars
<1>70. \A n \in Ttys : wait_queue'[n] = IF n = m THEN wait_queue[n] \cup {current}
                                        ELSE wait_queue[n]
  <2>1. \A n \in Ttys : wq[n] = IF n = m THEN wait_queue[n] \cup {current} ELSE wait_queue[n]
    BY <1>1, Zenon DEF wq, TypeOK
  <2> QED
    BY <1>4, <2>1
<1>8. TypeOK'
  <2>1. /\ call' \in [Tid -> {"none", "waitpid", "ttyread"}]
        /\ read_tty' \in [Tid -> Ttys]
    BY <1>1, <1>6 DEF TypeOK
  <2>2. /\ tstate' \in [Tid -> ThreadState] /\ current' \in Tid /\ cr3' \in Pid
        /\ wait_queue' \in [Ttys -> SUBSET Tid] /\ halted' \in BOOLEAN
    BY <1>4 DEF Switched
  <2> QED
    BY <1>1, <2>1, <2>2, Zenon DEF TypeOK
<1>9. BootThread' /\ FreshIds' /\ KernelLoops' /\ FamilyTree'
  <2>1. FreshIds /\ KernelLoops /\ FamilyTree
    BY DEF IInv
  <2>2. \A t \in Tid : t # current => call'[t] = call[t]
    BY <1>1, <1>6 DEF TypeOK
  <2>3. current < next_tid /\ next_tid \in Int /\ Tid \subseteq Int
    <3>1. next_tid \in Int /\ Tid \subseteq Int
      BY <1>1, BoundsAssumption DEF TypeOK, Tid
    <3>2. ~(current >= next_tid)
      BY <1>5, <2>1 DEF FreshIds
    <3> QED
      BY <1>5, <3>1, <3>2
  <2>4. FreshIds'
    BY <1>5, <1>6, <1>7, <2>1, <2>2, <2>3 DEF FreshIds
  <2>5. BootThread' /\ FamilyTree'
    <3>1. FamilyTree'
      BY <2>1 DEF FamilyTree
    <3>2. Main \in Tid /\ current # Main
      BY <1>1, BoundsAssumption DEF BootThread, Main, Tid
    <3>3. call'[Main] = call[Main]
      BY <2>2, <3>2
    <3>4. BootThread'
      BY <1>1, <1>2, <1>4, <1>6, <3>3 DEF BootThread
    <3> QED
      BY <3>1, <3>4
  <2>6. KernelLoops'
    BY <1>5, <1>6, <2>1, <2>2 DEF KernelLoops
  <2> QED
    BY <2>4, <2>5, <2>6
<1>10. Ownership'
  <2>1. Ownership
    BY DEF IInv
  <2> QED
    BY <1>7, <2>1 DEF Ownership
<1>11. Waiters'
  BY <1>1, <1>6, <1>7, WaitersKept DEF IInv
<1>12. BlockedReaders'
  <2>1. \A t \in Tid : read_tty'[t] = IF t = current THEN m ELSE read_tty[t]
    BY <1>1 DEF TypeOK
  <2>2. ASSUME NEW n \in Ttys, NEW t \in wait_queue'[n]
        PROVE  tstate'[t] = "BLOCKED" /\ read_tty'[t] = n /\ lines'[n] = 0
    <3>1. CASE t = current /\ n = m
      BY <1>5, <1>7, <2>1, <3>1
    <3>2. CASE t \in wait_queue[n]
      <4>1. t \in Tid /\ tstate[t] = "BLOCKED" /\ read_tty[t] = n /\ lines[n] = 0
        BY <1>1, <3>2 DEF BlockedReaders, TypeOK
      <4> QED
        BY <1>5, <1>7, <2>1, <4>1
    <3> QED
      BY <1>70, <2>2, <3>1, <3>2, Zenon
  <2>3. ASSUME NEW t \in Tid, tstate'[t] = "BLOCKED"
        PROVE  t \in wait_queue'[read_tty'[t]]
    <3>1. CASE t = current
      BY <1>70, <2>1, <3>1, Zenon
    <3>2. CASE t # current
      <4>1. t \in wait_queue[read_tty[t]] /\ read_tty[t] \in Ttys
        BY <1>1, <1>7, <2>3, <3>2 DEF BlockedReaders, TypeOK
      <4> QED
        BY <1>70, <2>1, <3>2, <4>1, Zenon
    <3> QED
      BY <3>1, <3>2
  <2> QED
    BY <2>2, <2>3 DEF BlockedReaders
<1> QED
  BY <1>4, <1>8, <1>9, <1>10, <1>11, <1>12 DEF IInv

\* A newline arrives.
LEMMA KeyboardNewlineStep == IInv /\ KeyboardNewline => IInv'
<1> SUFFICES ASSUME IInv, KeyboardNewline PROVE IInv'
  OBVIOUS
<1>1. /\ UNCHANGED <<tproc, next_tid, current, cr3, halted, proc_vars, call_vars,
                     active, main_if>>
      /\ tstate' = [t \in Tid |-> IF t \in wait_queue[active] THEN "READY" ELSE tstate[t]]
      /\ wait_queue' = [wait_queue EXCEPT ![active] = {}]
      /\ \E k \in {lines[active], lines[active] + 1} \cap (1..MaxLines) :
           lines' = [lines EXCEPT ![active] = k]
  BY Zenon DEF KeyboardNewline
<1>2. TypeOK /\ BlockedReaders /\ active \in Ttys
  BY DEF IInv, TypeOK
<1> USE <1>1 DEF proc_vars, call_vars
<1>3. /\ \A t \in wait_queue[active] : t \in Tid /\ tstate[t] = "BLOCKED" /\ read_tty[t] = active
      /\ \A t \in Tid : tstate'[t] = IF t \in wait_queue[active] THEN "READY" ELSE tstate[t]
      /\ \A n \in Ttys : wait_queue'[n] = IF n = active THEN {} ELSE wait_queue[n]
      /\ \A n \in Ttys : n # active => lines'[n] = lines[n]
  BY <1>2 DEF BlockedReaders, TypeOK
<1>4. TypeOK'
  <2>1. lines' \in [Ttys -> 0..MaxLines]
    BY <1>2, OptionsAssumption DEF TypeOK
  <2> QED
    BY <1>2, <2>1 DEF TypeOK, ThreadState
<1>5. /\ \A t \in Tid : Exists(t)' <=> Exists(t)
      /\ \A t \in Tid : tstate'[t] = "WAITING_CHILD" <=> tstate[t] = "WAITING_CHILD"
      /\ \A t \in Tid : tstate'[t] = "RUNNING" <=> tstate[t] = "RUNNING"
      /\ \A t \in Tid : tstate'[t] = "DEAD" <=> tstate[t] = "DEAD"
      /\ \A t \in Tid : tstate'[t] = "NONE" <=> tstate[t] = "NONE"
  BY <1>3 DEF Exists
<1>6. RunningThread' /\ (cr3 = tproc[current])' /\ ReaperKeepsUp'
  <2>1. ~halted
    BY DEF KeyboardNewline, Interruptible
  <2> QED
    BY <1>5, <2>1 DEF IInv, RunningThread, OneRunning, ReaperKeepsUp
<1>7. BootThread'
  <2>1. Main \in Tid /\ BootThread
    BY BoundsAssumption DEF IInv, Main, Tid
  <2>2. tstate'[Main] = tstate[Main]
    BY <1>3, <2>1 DEF BootThread
  <2> QED
    BY <2>1, <2>2 DEF BootThread
<1>8. FreshIds' /\ Ownership' /\ KernelLoops' /\ FamilyTree'
  <2>1. FreshIds /\ Ownership /\ KernelLoops /\ FamilyTree
    BY DEF IInv
  <2>2. FreshIds' /\ KernelLoops'
    BY <1>5, <2>1 DEF FreshIds, KernelLoops
  <2>3. Ownership'
    BY <1>5, <2>1 DEF Ownership
  <2>4. FamilyTree'
    BY <2>1 DEF FamilyTree
  <2> QED
    BY <2>2, <2>3, <2>4
<1>9. Waiters'
  BY <1>2, <1>5, WaitersKept DEF IInv
<1>10. BlockedReaders'
  <2>1. ASSUME NEW n \in Ttys, NEW t \in wait_queue'[n]
        PROVE  tstate'[t] = "BLOCKED" /\ read_tty'[t] = n /\ lines'[n] = 0
    <3>1. n # active /\ t \in wait_queue[n] /\ t \in Tid
      BY <1>2, <1>3, <2>1 DEF TypeOK
    <3>2. read_tty[t] = n /\ tstate[t] = "BLOCKED" /\ lines[n] = 0
      BY <1>2, <3>1 DEF BlockedReaders
    <3> QED
      BY <1>3, <3>1, <3>2
  <2>2. ASSUME NEW t \in Tid, tstate'[t] = "BLOCKED"
        PROVE  t \in wait_queue'[read_tty'[t]]
    <3>1. t \notin wait_queue[active] /\ tstate[t] = "BLOCKED" /\ read_tty[t] \in Ttys
      BY <1>2, <1>3, <2>2 DEF TypeOK
    <3>2. t \in wait_queue[read_tty[t]]
      BY <1>2, <3>1 DEF BlockedReaders
    <3> QED
      BY <1>3, <3>1, <3>2
  <2> QED
    BY <2>1, <2>2 DEF BlockedReaders
<1> QED
  BY <1>4, <1>6, <1>7, <1>8, <1>9, <1>10 DEF IInv

\* IInv does not depend on which terminal is the active one.
LEMMA ActiveTerminalFree ==
  ASSUME IInv, active' \in Ttys,
         UNCHANGED <<thread_vars, proc_vars, call_vars, lines, main_if>>
  PROVE  IInv'
<1>1. UNCHANGED <<tstate, current, cr3, wait_queue, next_tid, tproc, halted, pstate, parent,
                  children, waiter, next_pid, call, wait_pid, read_tty, lines, main_if>>
  BY DEF thread_vars, proc_vars, call_vars
<1>2. TypeOK'
  BY <1>1, SMTT(30) DEF IInv, TypeOK
<1>3. RunningThread' /\ (cr3 = tproc[current])' /\ BootThread'
  BY <1>1 DEF IInv, RunningThread, OneRunning, BootThread
<1>4. FreshIds' /\ KernelLoops' /\ ReaperKeepsUp' /\ FamilyTree'
  BY <1>1 DEF IInv, FreshIds, KernelLoops, ReaperKeepsUp, FamilyTree
<1>5. Ownership'
  BY <1>1 DEF IInv, Ownership, Exists
<1>6. Waiters'
  BY <1>1, WaitersKept DEF IInv
<1>7. BlockedReaders'
  BY <1>1 DEF IInv, BlockedReaders
<1> QED
  BY <1>2, <1>3, <1>4, <1>5, <1>6, <1>7 DEF IInv

\* The active terminal changes.
LEMMA KeyboardSwitchStep == IInv /\ KeyboardSwitch => IInv'
  BY ActiveTerminalFree DEF KeyboardSwitch

\* thread_create() for a process, in terms of threads: the new thread is the
\* only one whose state or process changes, and it did not exist before.
LEMMA ThreadCreateFacts ==
  ASSUME IInv, NeverHalts, NEW p \in Pid, ThreadCreate(p)
  PROVE  /\ next_tid \in Tid /\ tstate[next_tid] = "NONE" /\ call[next_tid] = "none"
         /\ next_tid # Main /\ next_tid # current
         /\ tstate' \in [Tid -> ThreadState] /\ tproc' \in [Tid -> Pid]
         /\ \A t \in Tid : tstate'[t] = IF t = next_tid THEN "READY" ELSE tstate[t]
         /\ \A t \in Tid : tproc'[t] = IF t = next_tid THEN p ELSE tproc[t]
         /\ \A t \in Tid : Exists(t)' <=> Exists(t) \/ t = next_tid
         /\ next_tid' = next_tid + 1 /\ next_tid' \in 0..MaxTid + 1
         /\ UNCHANGED <<current, cr3, wait_queue, halted>>
<1>1. next_tid \in Tid /\ next_tid \in Nat
  BY BoundsAssumption DEF IInv, TypeOK, ThreadCreate, Tid
<1>2. tstate[next_tid] = "NONE" /\ call[next_tid] = "none"
  BY <1>1 DEF IInv, FreshIds, Tid
<1>3. next_tid # Main /\ next_tid # current
  BY <1>2 DEF IInv, BootThread, RunningThread, NeverHalts, OneRunning, TypeOK
<1>4. /\ tstate' = [tstate EXCEPT ![next_tid] = "READY"]
      /\ tproc' = [tproc EXCEPT ![next_tid] = p]
      /\ next_tid' = next_tid + 1 /\ next_tid <= MaxTid
      /\ UNCHANGED <<current, cr3, wait_queue, halted>>
  BY DEF ThreadCreate
<1>5. /\ tstate' \in [Tid -> ThreadState] /\ tproc' \in [Tid -> Pid]
      /\ \A t \in Tid : tstate'[t] = IF t = next_tid THEN "READY" ELSE tstate[t]
      /\ \A t \in Tid : tproc'[t] = IF t = next_tid THEN p ELSE tproc[t]
  BY <1>1, <1>4 DEF IInv, TypeOK, ThreadState
<1>6. next_tid' \in 0..MaxTid + 1
  BY <1>1, <1>4, BoundsAssumption
<1>7. \A t \in Tid : Exists(t)' <=> Exists(t) \/ t = next_tid
  BY <1>5 DEF Exists
<1> QED
  BY <1>1, <1>2, <1>3, <1>4, <1>5, <1>6, <1>7

\* The boot thread starts a kernel thread.
LEMMA MainCreatesThreadStep == IInv /\ MainCreatesThread => IInv'
<1> SUFFICES ASSUME IInv, MainCreatesThread PROVE IInv'
  OBVIOUS
<1>1. /\ ThreadCreate(KernelPid) /\ UNCHANGED <<proc_vars, call_vars, tty_vars, main_if>>
      /\ NeverHalts
  BY DEF MainCreatesThread, NeverHalts
<1>2. KernelPid \in Pid /\ Main \in Tid
  BY BoundsAssumption, SMTT(30) DEF KernelPid, Pid, Main, Tid
<1>3. /\ next_tid \in Tid /\ tstate[next_tid] = "NONE" /\ call[next_tid] = "none"
      /\ next_tid # Main /\ next_tid # current
      /\ tstate' \in [Tid -> ThreadState] /\ tproc' \in [Tid -> Pid]
      /\ \A t \in Tid : tstate'[t] = IF t = next_tid THEN "READY" ELSE tstate[t]
      /\ \A t \in Tid : tproc'[t] = IF t = next_tid THEN KernelPid ELSE tproc[t]
      /\ \A t \in Tid : Exists(t)' <=> Exists(t) \/ t = next_tid
      /\ next_tid' = next_tid + 1 /\ next_tid' \in 0..MaxTid + 1
      /\ UNCHANGED <<current, cr3, wait_queue, halted>>
  BY <1>1, <1>2, ThreadCreateFacts
<1> USE <1>1 DEF proc_vars, call_vars, tty_vars
<1>4. TypeOK'
  BY <1>3, SMTT(30) DEF IInv, TypeOK
<1>5. RunningThread' /\ (cr3 = tproc[current])' /\ BootThread' /\ ReaperKeepsUp'
  <2>1. /\ OneRunning /\ ~halted /\ cr3 = tproc[current] /\ BootThread /\ ReaperKeepsUp
        /\ current \in Tid
    BY DEF IInv, TypeOK, RunningThread, NeverHalts
  <2>2. RunningThread' /\ ReaperKeepsUp'
    BY <1>3, <2>1 DEF RunningThread, OneRunning, ReaperKeepsUp
  <2> QED
    BY <1>2, <1>3, <2>1, <2>2 DEF BootThread
<1>6. FreshIds'
  BY <1>3, BoundsAssumption DEF IInv, FreshIds, Tid
<1>7. Ownership'
  <2>1. ASSUME NEW t \in Tid, Exists(t)'
        PROVE  pstate'[tproc'[t]] = "RUNNING"
    BY <1>2, <1>3, <2>1 DEF IInv, Ownership, BootThread
  <2>2. ASSUME NEW p \in Pid \ {KernelPid}, pstate'[p] = "RUNNING"
        PROVE  \E t \in Tid : Exists(t)' /\ tproc'[t] = p
    <3>1. PICK t \in Tid : Exists(t) /\ tproc[t] = p
      BY <2>2 DEF IInv, Ownership
    <3>2. t # next_tid
      BY <1>3, <3>1 DEF Exists
    <3> QED
      BY <1>3, <3>1, <3>2, SMTT(30)
  <2>3. ASSUME NEW t \in Tid, NEW u \in Tid, Exists(t)', Exists(u)',
               tproc'[t] = tproc'[u], tproc'[t] # KernelPid
        PROVE  t = u
    <3>1. t # next_tid /\ u # next_tid
      BY <1>3, <2>3
    <3>2. Exists(t) /\ Exists(u) /\ tproc[t] = tproc[u] /\ tproc[t] # KernelPid
      BY <1>3, <2>3, <3>1
    <3> QED
      BY <3>2 DEF IInv, Ownership
  <2> QED
    BY <2>1, <2>2, <2>3, Zenon DEF Ownership
<1>8. KernelLoops' /\ FamilyTree'
  <2>1. \A t \in Tid : call[t] # "none" => tproc'[t] = tproc[t]
    BY <1>3
  <2>2. KernelLoops'
    BY <2>1 DEF IInv, KernelLoops
  <2>3. FamilyTree'
    BY DEF IInv, FamilyTree
  <2> QED
    BY <2>2, <2>3
<1>9. Waiters'
  <2>1. \A t \in Tid : tstate'[t] = "WAITING_CHILD" <=> tstate[t] = "WAITING_CHILD"
    BY <1>3
  <2>2. ASSUME NEW t \in Tid, tstate[t] = "WAITING_CHILD"
        PROVE  /\ tproc'[t] = tproc[t]
               /\ Matching(tproc[t], wait_pid[t])' = Matching(tproc[t], wait_pid[t])
               /\ Zombies(tproc[t], wait_pid[t])' = Zombies(tproc[t], wait_pid[t])
    <3>1. tproc'[t] = tproc[t] /\ UNCHANGED <<pstate, children, wait_pid>>
      BY <1>3, <2>2
    <3> QED
      BY <3>1, Zenon DEF Matching, Zombies
  <2>3. TypeOK /\ Waiters /\ waiter' = waiter
    BY DEF IInv
  <2> QED
    BY <2>1, <2>2, <2>3, WaitersFrame
<1>10. BlockedReaders'
  <2>1. \A t \in Tid : tstate'[t] = "BLOCKED" <=> tstate[t] = "BLOCKED"
    BY <1>3
  <2>2. UNCHANGED <<wait_queue, read_tty, lines>>
    BY <1>3
  <2> QED
    BY <2>1, <2>2 DEF IInv, BlockedReaders, TypeOK
<1> QED
  BY <1>3, <1>4, <1>5, <1>6, <1>7, <1>8, <1>9, <1>10 DEF IInv

\* sys_spawn() succeeds.
LEMMA SpawnSucceedsStep ==
  ASSUME IInv, InUser, SpawnSucceeds,
         UNCHANGED <<call_vars, tty_vars, main_if>>
  PROVE  IInv'
<1> DEFINE self == tproc[current]
<1>1. /\ self \in Pid /\ self # KernelPid /\ pstate[self] = "RUNNING"
      /\ current \in Tid /\ tstate[current] = "RUNNING"
      /\ KernelPid \in Pid /\ Main \in Tid
  <2>1. KernelPid \in Pid /\ Main \in Tid
    BY BoundsAssumption DEF KernelPid, Pid, Main, Tid
  <2>2. current \in Tid /\ self \in Pid /\ self # KernelPid
    BY DEF IInv, TypeOK, InUser
  <2>3. tstate[current] = "RUNNING"
    BY <2>2 DEF IInv, RunningThread, OneRunning, InUser
  <2>4. pstate[self] = "RUNNING"
    BY <2>2, <2>3 DEF IInv, Ownership, Exists
  <2> QED
    BY <2>1, <2>2, <2>3, <2>4
<1>2. /\ next_pid \in Pid /\ next_pid \in Nat /\ pstate[next_pid] = "NONE"
      /\ next_pid # KernelPid /\ next_pid # self
  <2>1. next_pid \in Pid /\ next_pid \in Nat
    BY BoundsAssumption DEF IInv, TypeOK, SpawnSucceeds, ProcessCreate, Pid
  <2>2. pstate[next_pid] = "NONE"
    BY <2>1 DEF IInv, FreshIds, Pid
  <2> QED
    BY <1>1, <2>1, <2>2 DEF IInv, BootThread
<1>3. /\ next_pid' = next_pid + 1 /\ next_pid <= MaxPid
      /\ pstate' = [pstate EXCEPT ![next_pid] = "RUNNING"]
      /\ parent' = [parent EXCEPT ![next_pid] = self]
      /\ children' = [children EXCEPT ![self] = @ \cup {next_pid}]
      /\ waiter' = waiter
      /\ ThreadCreate(next_pid)
  BY DEF SpawnSucceeds, ProcessCreate
<1> HIDE DEF self
<1>4. /\ next_tid \in Tid /\ tstate[next_tid] = "NONE" /\ call[next_tid] = "none"
      /\ next_tid # Main /\ next_tid # current
      /\ tstate' \in [Tid -> ThreadState] /\ tproc' \in [Tid -> Pid]
      /\ \A t \in Tid : tstate'[t] = IF t = next_tid THEN "READY" ELSE tstate[t]
      /\ \A t \in Tid : tproc'[t] = IF t = next_tid THEN next_pid ELSE tproc[t]
      /\ \A t \in Tid : Exists(t)' <=> Exists(t) \/ t = next_tid
      /\ next_tid' = next_tid + 1 /\ next_tid' \in 0..MaxTid + 1
      /\ UNCHANGED <<current, cr3, wait_queue, halted>>
  <2>1. NeverHalts
    BY DEF InUser, NeverHalts
  <2> QED
    BY <1>2, <1>3, <2>1, ThreadCreateFacts
<1>5. /\ \A p \in Pid : pstate'[p] = IF p = next_pid THEN "RUNNING" ELSE pstate[p]
      /\ \A p \in Pid : parent'[p] = IF p = next_pid THEN self ELSE parent[p]
      /\ \A p \in Pid : children'[p] = IF p = self THEN children[p] \cup {next_pid}
                                       ELSE children[p]
  BY <1>1, <1>2, <1>3, Zenon DEF IInv, TypeOK
<1> USE DEF call_vars, tty_vars
<1>6. TypeOK'
  <2>1. next_pid' \in 0..MaxPid + 1
    BY <1>2, <1>3, BoundsAssumption
  <2> QED
    BY <1>1, <1>2, <1>3, <1>4, <2>1 DEF IInv, TypeOK
<1>7. RunningThread' /\ (cr3 = tproc[current])' /\ BootThread' /\ ReaperKeepsUp'
  <2>1. RunningThread'
    BY <1>1, <1>4 DEF IInv, RunningThread, OneRunning, InUser
  <2>2. (cr3 = tproc[current])' /\ ReaperKeepsUp'
    <3>1. tproc'[current] = tproc[current] /\ current' = current /\ cr3' = cr3
      BY <1>1, <1>4
    <3>2. \A t \in Tid : tstate'[t] = "DEAD" <=> tstate[t] = "DEAD"
      BY <1>4
    <3> QED
      BY <3>1, <3>2 DEF IInv, ReaperKeepsUp
  <2>3. BootThread'
    BY <1>1, <1>2, <1>4, <1>5 DEF IInv, BootThread
  <2> QED
    BY <2>1, <2>2, <2>3, SMTT(30)
<1>8. FreshIds'
  <2>1. FreshIds /\ next_tid \in Int /\ next_pid \in Int /\ call' = call
    BY <1>2, <1>4, BoundsAssumption DEF IInv, Tid
  <2>2. next_tid' > 0 /\ next_pid' > 0
    BY <1>3, <1>4, <2>1 DEF FreshIds
  <2>3. ASSUME NEW t \in Tid, t >= next_tid'
        PROVE  tstate'[t] = "NONE" /\ call'[t] = "none"
    <3>1. t # next_tid /\ t >= next_tid
      BY <1>4, <2>1, <2>3 DEF Tid
    <3> QED
      BY <1>4, <2>1, <3>1 DEF FreshIds
  <2>4. ASSUME NEW p \in Pid, p >= next_pid'
        PROVE  pstate'[p] = "NONE"
    <3>1. p # next_pid /\ p >= next_pid
      BY <1>3, <2>1, <2>4 DEF Pid
    <3> QED
      BY <1>5, <2>1, <3>1 DEF FreshIds
  <2> QED
    BY <2>2, <2>3, <2>4 DEF FreshIds
<1>9. Ownership'
  <2>1. \A t \in Tid : Exists(t) => tproc[t] # next_pid
    BY <1>2 DEF IInv, Ownership
  <2>2. ASSUME NEW t \in Tid, Exists(t)'
        PROVE  pstate'[tproc'[t]] = "RUNNING"
    <3>1. CASE t = next_tid
      BY <1>2, <1>4, <1>5, <3>1
    <3>2. CASE t # next_tid
      <4>1. Exists(t) /\ tproc'[t] = tproc[t] /\ tproc[t] \in Pid
        BY <1>4, <2>2, <3>2 DEF IInv, TypeOK
      <4>2. pstate[tproc[t]] = "RUNNING"
        BY <4>1 DEF IInv, Ownership
      <4> QED
        BY <1>5, <4>1, <4>2
    <3> QED
      BY <3>1, <3>2
  <2>3. ASSUME NEW p \in Pid \ {KernelPid}, pstate'[p] = "RUNNING"
        PROVE  \E t \in Tid : Exists(t)' /\ tproc'[t] = p
    <3>1. CASE p = next_pid
      BY <1>4, <3>1
    <3>2. CASE p # next_pid
      <4>1. PICK t \in Tid : Exists(t) /\ tproc[t] = p
        BY <1>5, <2>3, <3>2 DEF IInv, Ownership
      <4>2. t # next_tid
        BY <1>4, <4>1 DEF Exists
      <4> QED
        BY <1>4, <4>1, <4>2
    <3> QED
      BY <3>1, <3>2
  <2>4. ASSUME NEW t \in Tid, NEW u \in Tid, Exists(t)', Exists(u)',
               tproc'[t] = tproc'[u], tproc'[t] # KernelPid
        PROVE  t = u
    <3>1. CASE t = next_tid \/ u = next_tid
      BY <1>4, <2>1, <2>4, <3>1
    <3>2. CASE t # next_tid /\ u # next_tid
      <4>1. Exists(t) /\ Exists(u) /\ tproc[t] = tproc[u] /\ tproc[t] # KernelPid
        BY <1>4, <2>4, <3>2
      <4> QED
        BY <4>1 DEF IInv, Ownership
    <3> QED
      BY <3>1, <3>2
  <2> QED
    BY <2>2, <2>3, <2>4 DEF Ownership
<1>10. KernelLoops'
  BY <1>4 DEF IInv, KernelLoops
<1>11. FamilyTree'
  <2>1. ASSUME NEW p \in Pid, NEW c \in Pid
        PROVE  c \in children'[p] <=> c # KernelPid /\ pstate'[c] # "NONE" /\ parent'[c] = p
    <3>1. c \in children[p] <=> c # KernelPid /\ pstate[c] # "NONE" /\ parent[c] = p
      BY DEF IInv, FamilyTree
    <3>2. CASE c = next_pid
      BY <1>1, <1>2, <1>5, <3>1, <3>2, Zenon
    <3>3. CASE c # next_pid
      <4>1. pstate'[c] = pstate[c] /\ parent'[c] = parent[c]
        BY <1>5, <3>3
      <4>2. c \in children'[p] <=> c \in children[p]
        BY <1>5, <3>3, Zenon
      <4> QED
        BY <3>1, <4>1, <4>2
    <3> QED
      BY <3>2, <3>3
  <2>2. ASSUME NEW c \in Pid \ {KernelPid}, pstate'[c] # "NONE"
        PROVE  pstate'[parent'[c]] = "RUNNING"
    <3>1. CASE c = next_pid
      BY <1>1, <1>2, <1>5, <3>1
    <3>2. CASE c # next_pid
      <4>1. pstate[parent[c]] = "RUNNING" /\ parent[c] \in Pid
        <5>1. pstate[c] # "NONE"
          BY <1>5, <2>2, <3>2
        <5> QED
          BY <5>1 DEF IInv, FamilyTree, TypeOK
      <4> QED
        BY <1>2, <1>5, <3>2, <4>1, Zenon
    <3> QED
      BY <3>1, <3>2
  <2> QED
    BY <2>1, <2>2 DEF FamilyTree
<1>12. Waiters'
  <2>1. \A t \in Tid : tstate'[t] = "WAITING_CHILD" <=> tstate[t] = "WAITING_CHILD"
    BY <1>4
  <2>2. \A t \in Tid : tstate[t] = "WAITING_CHILD" => tproc'[t] = tproc[t]
    BY <1>4
  <2>3. ASSUME NEW t \in Tid, tstate[t] = "WAITING_CHILD"
        PROVE  /\ children'[tproc[t]] = children[tproc[t]]
               /\ \A c \in children[tproc[t]] : pstate'[c] = pstate[c]
    <3>1. tproc[t] # self
      BY <1>1, <2>3 DEF IInv, Ownership, Exists, self
    <3>2. tproc[t] \in Pid /\ children[tproc[t]] \subseteq Pid
      BY DEF IInv, TypeOK
    <3>3. next_pid \notin children[tproc[t]]
      BY <1>2, <3>2, Zenon DEF IInv, FamilyTree
    <3> QED
      BY <1>5, <3>1, <3>2, <3>3, Zenon
  <2>4. ASSUME NEW t \in Tid, tstate[t] = "WAITING_CHILD"
        PROVE  /\ Matching(tproc[t], wait_pid[t])' = Matching(tproc[t], wait_pid[t])
               /\ Zombies(tproc[t], wait_pid[t])' = Zombies(tproc[t], wait_pid[t])
    BY <2>2, <2>3, <2>4 DEF Matching, Zombies
  <2> QED
    BY <1>3, <2>1, <2>2, <2>4, WaitersFrame DEF IInv
<1>13. BlockedReaders'
  <2>1. \A t \in Tid : tstate'[t] = "BLOCKED" <=> tstate[t] = "BLOCKED"
    BY <1>4
  <2>2. UNCHANGED <<wait_queue, read_tty, lines>>
    BY <1>4
  <2> QED
    BY <2>1, <2>2 DEF IInv, BlockedReaders, TypeOK
<1> QED
  BY <1>6, <1>7, <1>8, <1>9, <1>10, <1>11, <1>12, <1>13 DEF IInv

\* sys_spawn() is given a bad image.
LEMMA SpawnBadImageStep ==
  ASSUME IInv, SpawnBadImage,
         UNCHANGED <<call_vars, tty_vars, main_if>>
  PROVE  IInv'
<1>1. /\ next_pid <= MaxPid /\ next_pid' = next_pid + 1
      /\ UNCHANGED <<pstate, parent, children, waiter, thread_vars>>
  BY DEF SpawnBadImage
<1> USE <1>1 DEF thread_vars, call_vars, tty_vars
<1>2. next_pid' \in 0..MaxPid + 1 /\ next_pid \in Nat
  <2>1. next_pid \in 0..MaxPid + 1
    BY DEF IInv, TypeOK
  <2>2. MaxPid \in Nat
    BY BoundsAssumption
  <2> QED
    BY <2>1, <2>2
<1>3. TypeOK'
  BY <1>2 DEF IInv, TypeOK
<1>4. FreshIds'
  BY <1>2, BoundsAssumption, SMTT(30) DEF IInv, FreshIds, Pid
<1>5. /\ RunningThread' /\ (cr3 = tproc[current])' /\ BootThread'
      /\ Ownership' /\ KernelLoops' /\ ReaperKeepsUp' /\ FamilyTree'
  <2>1. RunningThread' /\ (cr3 = tproc[current])' /\ BootThread'
    BY DEF IInv, RunningThread, OneRunning, BootThread
  <2>2. KernelLoops' /\ ReaperKeepsUp' /\ FamilyTree'
    BY DEF IInv, KernelLoops, ReaperKeepsUp, FamilyTree
  <2>3. Ownership'
    BY DEF IInv, Ownership, Exists
  <2> QED
    BY <2>1, <2>2, <2>3
<1>6. Waiters' /\ BlockedReaders'
  <2>1. Waiters'
    BY WaitersKept DEF IInv
  <2>2. BlockedReaders'
    BY DEF IInv, BlockedReaders
  <2> QED
    BY <2>1, <2>2
<1> QED
  BY <1>3, <1>4, <1>5, <1>6 DEF IInv


-----------------------------------------------------------------------------
\* While allocations succeed, every step of user code, kernel threads and
\* interrupts preserves the invariant, whatever the boot thread is doing.
LEMMA ThreadsIInv ==
  ASSUME OutOfMemory = FALSE
  PROVE  IInv /\ ThreadsAndInterrupts => IInv'
<1> SUFFICES ASSUME IInv, ThreadsAndInterrupts PROVE IInv'
  OBVIOUS
<1>1. CASE SysSpawn
  <2>1. InUser /\ UNCHANGED <<call_vars, tty_vars, main_if>>
    BY <1>1 DEF SysSpawn
  <2>2. SpawnSucceeds \/ SpawnBadImage
    BY <1>1 DEF SysSpawn, SpawnNoAddressSpace, SpawnNoThread
  <2> QED
    BY <2>1, <2>2, SpawnSucceedsStep, SpawnBadImageStep
<1>2. CASE SysExitOrFault
  BY <1>2, SysExitOrFaultStep
<1>3. CASE SysWaitpid \/ ResumeWaitpid
  <2>1. PICK pid \in Pid \cup {AnyChild} : Waitpid(pid)
    BY <1>3 DEF SysWaitpid, ResumeWaitpid, IInv, TypeOK
  <2>2. NeverHalts /\ (tproc[current] # KernelPid \/ current = Main)
    BY <1>3 DEF SysWaitpid, ResumeWaitpid, InUser, IInv, KernelLoops, TypeOK, NeverHalts
  <2>3. /\ UNCHANGED <<tty_vars, main_if>> /\ main_if' \in BOOLEAN
        /\ WaitpidNoChild(pid) \/ WaitpidReap(pid) \/ WaitpidBlock(pid)
    BY <2>1, WalksEnd DEF Waitpid, IInv, TypeOK
  <2> QED
    BY <2>2, <2>3, WaitpidNoChildStep, WaitpidReapStep, WaitpidBlockStep
<1>4. CASE SysReadTty \/ ResumeTtyRead
  <2>1. PICK n \in Ttys : TtyReadVfs(n)
    BY <1>4 DEF SysReadTty, ResumeTtyRead, IInv, TypeOK
  <2>2. NeverHalts /\ tproc[current] # KernelPid
    BY <1>4 DEF SysReadTty, ResumeTtyRead, InUser, IInv, KernelLoops, BootThread, TypeOK, NeverHalts
  <2>3. UNCHANGED <<proc_vars, active, main_if>> /\ (TtyTakeLine(n) \/ TtyBlock(n))
    BY <2>1 DEF TtyReadVfs
  <2> QED
    BY <2>2, <2>3, TtyTakeLineStep, TtyBlockStep
<1>5. CASE ThreadYield \/ Timer
  <2>1. /\ Schedule(tstate, wait_queue) /\ NeverHalts
        /\ UNCHANGED <<tproc, next_tid, proc_vars, call_vars, tty_vars>>
    BY <1>5 DEF ThreadYield, InKernelThread, Timer, Interruptible, NeverHalts
  <2>2. main_if' \in BOOLEAN
    BY <1>5 DEF ThreadYield, Timer, IInv, TypeOK
  <2> QED
    BY <2>1, <2>2, PlainSwitch
<1>6. CASE ThreadExit
  BY <1>6, ThreadExitStep
<1>7. CASE KeyboardNewline \/ KeyboardSwitch
  BY <1>7, KeyboardNewlineStep, KeyboardSwitchStep
<1> QED
  BY <1>1, <1>2, <1>3, <1>4, <1>5, <1>6, <1>7 DEF ThreadsAndInterrupts

\* Nor do they make the boot thread wait: only user threads enter a kernel loop.
LEMMA ThreadsMainIsFree == IInv /\ MainIsFree /\ ThreadsAndInterrupts => MainIsFree'
<1> SUFFICES ASSUME IInv, MainIsFree, ThreadsAndInterrupts PROVE MainIsFree'
  OBVIOUS
<1>1. call \in [Tid -> {"none", "waitpid", "ttyread"}] /\ Main \in Tid /\ current \in Tid
  BY BoundsAssumption DEF IInv, TypeOK, Main, Tid
<1>2. CASE UNCHANGED call
  BY <1>2 DEF MainIsFree
<1>3. CASE SysWaitpid \/ ResumeWaitpid \/ SysReadTty \/ ResumeTtyRead
  <2>1. current # Main
    BY <1>3 DEF SysWaitpid, ResumeWaitpid, SysReadTty, ResumeTtyRead, InUser, MainIsFree,
                IInv, BootThread
  <2>2. (\E pid \in Pid \cup {AnyChild} : Waitpid(pid)) \/ (\E n \in Ttys : TtyReadVfs(n))
    BY <1>3 DEF SysWaitpid, ResumeWaitpid, SysReadTty, ResumeTtyRead, IInv, TypeOK
  <2>3. \E s \in {"none", "waitpid", "ttyread"} : call' = [call EXCEPT ![current] = s]
    BY <2>2, WalksEnd DEF Waitpid, WaitpidNoChild, WaitpidReap, WaitpidBlock, TtyReadVfs,
                TtyTakeLine, TtyBlock, Return
  <2> QED
    BY <1>1, <2>1, <2>3 DEF MainIsFree
<1>4. CASE \/ SysSpawn \/ SysExitOrFault \/ ThreadYield \/ ThreadExit
           \/ KeyboardNewline \/ KeyboardSwitch \/ Timer
  BY <1>2, <1>4, WalksEnd DEF SysSpawn, SysExitOrFault, Exits, ThreadYield, ThreadExit, KeyboardNewline,
                    KeyboardSwitch, Timer, call_vars
<1> QED
  BY <1>3, <1>4 DEF ThreadsAndInterrupts

\* A turn of the boot thread's loop, with or without starting a thread.
LEMMA MainStep == IInv /\ (MainSchedule \/ MainCreatesThread) => IInv' /\ call' = call
<1> SUFFICES ASSUME IInv, MainSchedule \/ MainCreatesThread PROVE IInv' /\ call' = call
  OBVIOUS
<1>1. CASE MainSchedule
  <2>1. /\ Schedule(tstate, wait_queue) /\ NeverHalts /\ main_if' \in BOOLEAN
        /\ UNCHANGED <<tproc, next_tid, proc_vars, call_vars, tty_vars>>
    BY <1>1 DEF MainSchedule, NeverHalts
  <2> QED
    BY <2>1, PlainSwitch DEF call_vars
<1>2. CASE MainCreatesThread
  BY <1>2, MainCreatesThreadStep DEF MainCreatesThread, call_vars
<1> QED
  BY <1>1, <1>2

\* While allocations succeed, every step of the kernel preserves the invariant, and
\* the boot thread never waits.
LEMMA NextIInv ==
  ASSUME OutOfMemory = FALSE
  PROVE  IInv /\ MainIsFree /\ [Next]_vars => IInv' /\ MainIsFree'
<1> SUFFICES ASSUME IInv, MainIsFree, [Next]_vars PROVE IInv' /\ MainIsFree'
  OBVIOUS
<1>1. CASE ThreadsAndInterrupts
  BY <1>1, ThreadsIInv, ThreadsMainIsFree
<1>2. CASE MainSchedule \/ MainCreatesThread
  BY <1>2, MainStep DEF MainIsFree
<1>3. CASE UNCHANGED vars
  <2>1. UNCHANGED <<thread_vars, proc_vars, call_vars, lines, main_if, active>>
    BY <1>3 DEF vars, tty_vars
  <2>2. active \in Ttys
    BY DEF IInv, TypeOK
  <2> QED
    BY <2>1, <2>2, ActiveTerminalFree DEF MainIsFree, call_vars
<1> QED
  BY <1>1, <1>2, <1>3 DEF Next

\* While allocations succeed, the invariant holds in every reachable state, and the
\* boot thread is never inside waitpid.
THEOREM Invariance ==
  ASSUME OutOfMemory = FALSE
  PROVE  Spec => [](IInv /\ MainIsFree)
<1>1. IInv /\ MainIsFree /\ [Next]_vars => IInv' /\ MainIsFree'
  BY NextIInv, Zenon
<1> QED
  BY InitIInv, <1>1, PTL DEF Spec

\* Type correctness of the kernel's scheduling, process and terminal state.
THEOREM TypeCorrect ==
  ASSUME OutOfMemory = FALSE
  PROVE  Spec => []TypeOK
<1>1. IInv => TypeOK
  BY DEF IInv
<1> QED
  BY Invariance, <1>1, PTL

\* However many threads block, exit or are created, schedule() always finds one
\* to run: "No READY threads left. Halting." is unreachable, and exactly the
\* current thread is RUNNING.
THEOREM SchedulerNeverHalts ==
  ASSUME OutOfMemory = FALSE
  PROVE  Spec => [](OneRunning /\ NeverHalts)
<1> QED
  BY Invariance, IInvImplies, PTL

\* CR3 always selects the page tables of the current thread's process, and that
\* process has neither exited nor been destroyed.
THEOREM ContextIsLive ==
  ASSUME OutOfMemory = FALSE
  PROVE  Spec => []LiveContext
<1> QED
  BY Invariance, IInvImplies, PTL

\* No thread sleeps in sys_waitpid() over a child that has already exited, and
\* one whose exit wakes it is always there.
THEOREM WaitpidNeverMissesAnExit ==
  ASSUME OutOfMemory = FALSE
  PROVE  Spec => []NoLostWakeup
<1> QED
  BY Invariance, IInvImplies, PTL

\* A reader sleeps on a terminal only while no complete line is there, and is in
\* the queue that the next newline wakes.
THEOREM ReadersSleepSoundly ==
  ASSUME OutOfMemory = FALSE
  PROVE  Spec => []BlockedReaders
<1>1. IInv => BlockedReaders
  BY DEF IInv
<1> QED
  BY Invariance, <1>1, PTL

\* thread_reap_dead() at the head of schedule() keeps up with thread_exit(): at most
\* one exited thread, the one the CPU has just left, awaits it.
THEOREM ReaperIsNeverBehind ==
  ASSUME OutOfMemory = FALSE
  PROVE  Spec => []ReaperKeepsUp
<1>1. IInv => ReaperKeepsUp
  BY DEF IInv
<1> QED
  BY Invariance, <1>1, PTL

\* Parent pointers and children lists agree, and every parent is alive.
THEOREM ProcessTreeIsSound ==
  ASSUME OutOfMemory = FALSE
  PROVE  Spec => []FamilyTree
<1>1. IInv => FamilyTree
  BY DEF IInv
<1> QED
  BY Invariance, <1>1, PTL

\* A process that has exited keeps its exit status until a step of its own
\* parent, the reaping turn of sys_waitpid(), frees it.
THEOREM ExitStatusIsKept ==
  ASSUME OutOfMemory = FALSE
  PROVE  Spec => ZombieUntilReaped
<1> DEFINE Kept(p) == \/ pstate'[p] = "ZOMBIE"
                      \/ pstate'[p] = "NONE" /\ parent[p] = tproc[current]
<1>1. ASSUME IInv, [Next]_vars, NEW p \in Pid, pstate[p] = "ZOMBIE"
      PROVE  Kept(p)
  <2>1. pstate \in [Pid -> {"NONE", "RUNNING", "ZOMBIE"}] /\ next_pid \in 0..MaxPid + 1
    BY <1>1 DEF IInv, TypeOK
  <2>2. CASE UNCHANGED pstate
    BY <1>1, <2>2
  <2>3. CASE SysSpawn
    <3>1. UNCHANGED pstate \/ pstate' = [pstate EXCEPT ![next_pid] = "RUNNING"]
      BY <2>3 DEF SysSpawn, SpawnSucceeds, SpawnBadImage, SpawnNoAddressSpace,
                  SpawnNoThread, ProcessCreate
    <3>2. p # next_pid
      BY <1>1, <2>1, SMTT(30) DEF IInv, FreshIds, Pid
    <3> QED
      BY <1>1, <2>1, <3>1, <3>2
  <2>4. CASE SysExitOrFault
    BY <1>1, <2>1, <2>4, WalksEnd DEF SysExitOrFault, Exits, ProcessExit
  <2>5. CASE \E pid \in Pid \cup {AnyChild} : WaitpidReap(pid)
    <3>1. PICK pid \in Pid \cup {AnyChild} : WaitpidReap(pid)
      BY <2>5
    <3>2. PICK z \in Zombies(tproc[current], pid) : pstate' = [pstate EXCEPT ![z] = "NONE"]
      BY <3>1, Zenon DEF WaitpidReap
    <3>3. tproc[current] \in Pid /\ children[tproc[current]] \subseteq Pid
      BY <1>1 DEF IInv, TypeOK
    <3>4. z \in children[tproc[current]] /\ z \in Pid
      BY <3>2, <3>3 DEF Zombies, Matching
    <3>5. parent[z] = tproc[current]
      BY <1>1, <3>3, <3>4 DEF IInv, FamilyTree
    <3> QED
      BY <1>1, <2>1, <3>2, <3>4, <3>5
  <2>6. CASE SysWaitpid \/ ResumeWaitpid
    <3>1. PICK pid \in Pid \cup {AnyChild} : Waitpid(pid)
      BY <1>1, <2>6 DEF SysWaitpid, ResumeWaitpid, IInv, TypeOK
    <3>2. WaitpidReap(pid) \/ UNCHANGED pstate
      BY <1>1, <3>1, WalksEnd DEF Waitpid, WaitpidNoChild, WaitpidBlock, proc_vars
    <3> QED
      BY <2>2, <2>5, <3>1, <3>2
  <2>7. CASE \/ SysReadTty \/ ResumeTtyRead \/ ThreadYield \/ ThreadExit \/ KeyboardNewline
             \/ KeyboardSwitch \/ Timer \/ MainCreatesThread \/ MainSchedule
             \/ UNCHANGED vars
    <3>1. UNCHANGED pstate
      BY <2>7 DEF SysReadTty, ResumeTtyRead, TtyReadVfs, ThreadYield, ThreadExit,
                  KeyboardNewline, KeyboardSwitch, Timer, MainCreatesThread,
                  MainSchedule, vars, proc_vars
    <3> QED
      BY <2>2, <3>1
  <2> QED
    BY <1>1, <2>3, <2>4, <2>6, <2>7 DEF Next, ThreadsAndInterrupts
<1>2. IInv /\ [Next]_vars => [\A p \in Pid : pstate[p] = "ZOMBIE" => Kept(p)]_vars
  BY <1>1
<1> QED
  BY Invariance, <1>2, PTL DEF Spec, ZombieUntilReaped

-----------------------------------------------------------------------------
(***************************************************************************)
(* BootWait: the boot thread waits for its children as well, and the       *)
(* machine may halt.                                                       *)
(***************************************************************************)

\* The boot state.
LEMMA BootInitIInv == BootInit /\ Quiet => BootIInv
<1> SUFFICES ASSUME BootInit, Quiet PROVE BootIInv
  OBVIOUS
<1>1. IInv
  BY InitIInv DEF BootInit
<1>2. ElderParents
  BY BoundsAssumption DEF BootInit, Init, ElderParents, KernelPid, Pid
<1>3. ScanIsFresh
  BY DEF BootInit, ScanIsFresh
<1> QED
  BY <1>1, <1>2, <1>3 DEF BootIInv

\* The scan of sys_waitpid() in the boot thread reaps, or finds a child to wait for
\* and has yet to change anything that another thread can see.
LEMMA BootScanStep == BootIInv /\ BootScan => IInv' /\ ScanIsFresh'
<1> SUFFICES ASSUME BootIInv, BootScan PROVE IInv' /\ ScanIsFresh'
  OBVIOUS
<1>1. /\ IInv /\ NeverHalts /\ current = Main /\ call[Main] = "none" /\ ~scanned
      /\ UNCHANGED <<tty_vars, main_if>>
  BY DEF BootIInv, BootScan, NeverHalts
<1>2. PICK pid \in (Pid \ {KernelPid}) \cup {AnyChild} :
        \/ WaitpidReap(pid) /\ UNCHANGED scanned
        \/ /\ Matching(KernelPid, pid) # {}
           /\ Zombies(KernelPid, pid) = {}
           /\ scanned' = TRUE
           /\ wait_pid' = [wait_pid EXCEPT ![Main] = pid]
           /\ UNCHANGED <<thread_vars, proc_vars, call, read_tty>>
  BY DEF BootScan
<1>3. CASE WaitpidReap(pid) /\ UNCHANGED scanned
  BY <1>1, <1>3, WaitpidReapStep DEF ScanIsFresh
<1>4. CASE /\ Matching(KernelPid, pid) # {}
           /\ Zombies(KernelPid, pid) = {}
           /\ scanned' = TRUE
           /\ wait_pid' = [wait_pid EXCEPT ![Main] = pid]
           /\ UNCHANGED <<thread_vars, proc_vars, call, read_tty>>
  <2>1. UNCHANGED <<tstate, current, cr3, wait_queue, next_tid, tproc, halted, pstate, parent,
                    children, waiter, next_pid, call, read_tty, lines, active, main_if>>
    BY <1>1, <1>4 DEF thread_vars, proc_vars, tty_vars
  <2>2. Main \in Tid /\ wait_pid \in [Tid -> Pid \cup {AnyChild}]
    BY <1>1, BoundsAssumption DEF Main, Tid, IInv, TypeOK
  <2>3. /\ wait_pid' \in [Tid -> Pid \cup {AnyChild}] /\ wait_pid'[Main] = pid
        /\ \A t \in Tid : t # Main => wait_pid'[t] = wait_pid[t]
    BY <1>4, <2>2
  <2>4. tstate[Main] = "RUNNING"
    BY <1>1, <2>2 DEF IInv, RunningThread, OneRunning, NeverHalts
  <2>5. TypeOK'
    BY <1>1, <2>1, <2>3 DEF IInv, TypeOK
  <2>6. RunningThread' /\ (cr3 = tproc[current])' /\ BootThread'
    BY <1>1, <2>1 DEF IInv, RunningThread, OneRunning, BootThread
  <2>7. FreshIds' /\ KernelLoops' /\ ReaperKeepsUp' /\ FamilyTree'
    <3>1. FreshIds' /\ KernelLoops'
      BY <1>1, <2>1 DEF IInv, FreshIds, KernelLoops
    <3>2. ReaperKeepsUp' /\ FamilyTree'
      BY <1>1, <2>1 DEF IInv, ReaperKeepsUp, FamilyTree
    <3> QED
      BY <3>1, <3>2
  <2>8. Ownership'
    BY <1>1, <2>1 DEF IInv, Ownership, Exists
  <2>9. Waiters'
    <3>1. \A t \in Tid : tstate[t] = "WAITING_CHILD" => wait_pid'[t] = wait_pid[t]
      BY <2>3, <2>4
    <3> QED
      BY <1>1, <2>1, <3>1, WaitersKept DEF IInv
  <2>10. BlockedReaders'
    BY <1>1, <2>1 DEF IInv, BlockedReaders
  <2>11. ScanIsFresh'
    <3>1. /\ Matching(KernelPid, wait_pid[Main])' = Matching(KernelPid, pid)
          /\ Zombies(KernelPid, wait_pid[Main])' = Zombies(KernelPid, pid)
      BY <2>1, <2>3, Zenon DEF Matching, Zombies
    <3> QED
      BY <1>1, <1>4, <2>1, <3>1 DEF ScanIsFresh, NeverHalts
  <2> QED
    BY <2>5, <2>6, <2>7, <2>8, <2>9, <2>10, <2>11 DEF IInv
<1> QED
  BY <1>2, <1>3, <1>4

\* thread_block_on_process() in the boot thread is waitpid's block: what the scan found
\* is still so.
LEMMA BootBlockStep == BootIInv /\ BootBlock => IInv' /\ ScanIsFresh'
<1> SUFFICES ASSUME BootIInv, BootBlock PROVE IInv' /\ ScanIsFresh'
  OBVIOUS
<1>1. /\ IInv /\ NeverHalts /\ current = Main
      /\ Matching(KernelPid, wait_pid[Main]) # {}
      /\ Zombies(KernelPid, wait_pid[Main]) = {}
  BY DEF BootIInv, ScanIsFresh, BootBlock, NeverHalts
<1>2. tproc[Main] = KernelPid
  BY <1>1 DEF IInv, BootThread
<1>3. wait_pid[Main] \in Pid \cup {AnyChild} /\ wait_pid' = [wait_pid EXCEPT ![current] = wait_pid[Main]]
  BY <1>1, BoundsAssumption DEF IInv, TypeOK, Main, Tid, BootBlock
<1>4. WaitpidBlock(wait_pid[Main])
  BY <1>1, <1>2, <1>3 DEF BootBlock, WaitpidBlock
<1>5. UNCHANGED tty_vars /\ main_if' \in BOOLEAN
  BY DEF BootBlock
<1>6. IInv'
  BY <1>1, <1>3, <1>4, <1>5, WaitpidBlockStep
<1>7. ScanIsFresh'
  BY DEF BootBlock, ScanIsFresh
<1> QED
  BY <1>6, <1>7

\* Between the scan and the block only the keyboard interrupts, if anything: nobody
\* else can exit, spawn or wait.
LEMMA ScanStaysFresh ==
  ASSUME BootIInv, ThreadsAndInterrupts, UNCHANGED scanned
  PROVE  ScanIsFresh'
<1>1. CASE ~scanned
  BY <1>1 DEF ScanIsFresh
<1>2. CASE scanned
  <2>1. /\ ~halted /\ current = Main /\ call[Main] = "none" /\ tproc[Main] = KernelPid
        /\ Matching(KernelPid, wait_pid[Main]) # {}
        /\ Zombies(KernelPid, wait_pid[Main]) = {}
    BY <1>2 DEF BootIInv, ScanIsFresh, IInv, BootThread
  <2>2. KeyboardNewline \/ KeyboardSwitch
    BY <2>1 DEF BootIInv, Quiet, Interruptible, ThreadsAndInterrupts, SysSpawn, SysExitOrFault, SysWaitpid, ResumeWaitpid,
                SysReadTty, ResumeTtyRead, ThreadYield, ThreadExit, Timer, InUser, InKernelThread
  <2>3. UNCHANGED <<halted, current, call, children, pstate, wait_pid>>
    BY <2>2 DEF KeyboardNewline, KeyboardSwitch, thread_vars, proc_vars, call_vars
  <2>4. /\ Matching(KernelPid, wait_pid[Main])' = Matching(KernelPid, wait_pid[Main])
        /\ Zombies(KernelPid, wait_pid[Main])' = Zombies(KernelPid, wait_pid[Main])
    BY <2>3, Zenon DEF Matching, Zombies
  <2> QED
    BY <2>1, <2>3, <2>4 DEF ScanIsFresh
<1> QED
  BY <1>1, <1>2

\* Pids only grow, so a new process is younger than its parent, and an orphan is
\* younger than kernel_process.
LEMMA ElderParentsStep ==
  ASSUME OutOfMemory = FALSE, IInv, ElderParents, BootNext
  PROVE  ElderParents'
<1>1. /\ Pid \subseteq Nat /\ KernelPid = 0 /\ KernelPid \in Pid
      /\ pstate \in [Pid -> {"NONE", "RUNNING", "ZOMBIE"}] /\ parent \in [Pid -> Pid]
      /\ tproc[current] \in Pid /\ next_pid \in 0..MaxPid + 1 /\ current \in Tid
      /\ children \in [Pid -> SUBSET Pid]
  BY BoundsAssumption DEF IInv, TypeOK, Pid, KernelPid
<1>2. ASSUME parent' = parent, \A p \in Pid : pstate[p] = "NONE" => pstate'[p] = "NONE"
      PROVE  ElderParents'
  BY <1>2 DEF ElderParents
<1>3. CASE SysSpawn
  <2>1. InUser /\ (SpawnSucceeds \/ SpawnBadImage)
    BY <1>3 DEF SysSpawn, SpawnNoAddressSpace, SpawnNoThread
  <2>2. CASE SpawnBadImage
    BY <1>2, <2>2 DEF SpawnBadImage
  <2>3. CASE SpawnSucceeds
    <3>1. /\ parent' = [parent EXCEPT ![next_pid] = tproc[current]]
          /\ pstate' = [pstate EXCEPT ![next_pid] = "RUNNING"]
      BY <2>3 DEF SpawnSucceeds, ProcessCreate
    <3>2. pstate[tproc[current]] = "RUNNING"
      BY <1>1, <2>1 DEF InUser, IInv, RunningThread, OneRunning, Ownership, Exists
    <3>3. tproc[current] < next_pid
      <4>1. ~(tproc[current] >= next_pid)
        <5>1. tproc[current] >= next_pid => pstate[tproc[current]] = "NONE"
          BY <1>1, Zenon DEF IInv, FreshIds
        <5> QED
          BY <3>2, <5>1
      <4>2. tproc[current] \in Nat
        BY <1>1, Zenon
      <4>3. next_pid \in Int
        BY <1>1
      <4> QED
        BY <4>1, <4>2, <4>3
    <3>4. ASSUME NEW p \in Pid \ {KernelPid}, pstate'[p] # "NONE"
          PROVE  parent'[p] < p
      <4>1. CASE p = next_pid
        BY <1>1, <3>1, <3>3, <4>1
      <4>2. CASE p # next_pid
        BY <1>1, <3>1, <3>4, <4>2 DEF ElderParents
      <4> QED
        BY <4>1, <4>2
    <3> QED
      BY <3>4 DEF ElderParents
  <2> QED
    BY <2>1, <2>2, <2>3
<1>4. CASE SysExitOrFault
  <2> DEFINE proc == tproc[current]
  <2>1. /\ pstate' = [pstate EXCEPT ![proc] = "ZOMBIE"]
        /\ parent' = [p \in Pid |-> IF p \in children[proc] THEN KernelPid ELSE parent[p]]
    BY <1>4, WalksEnd DEF SysExitOrFault, Exits, ProcessExit, ProcessReparentChildren
  <2>2. pstate[proc] # "NONE"
    BY <1>1, <1>4 DEF SysExitOrFault, InUser, IInv, RunningThread, OneRunning, Ownership, Exists
  <2> HIDE DEF proc
  <2>3. ASSUME NEW p \in Pid \ {KernelPid}, pstate'[p] # "NONE"
        PROVE  parent'[p] < p
    <3>1. pstate[p] # "NONE"
      BY <1>1, <2>1, <2>2, <2>3
    <3>2. parent[p] < p /\ KernelPid < p
      BY <1>1, <3>1 DEF ElderParents
    <3>3. parent'[p] = IF p \in children[proc] THEN KernelPid ELSE parent[p]
      BY <2>1
    <3> QED
      BY <3>2, <3>3
  <2> QED
    BY <2>3 DEF ElderParents
<1>5. ASSUME NEW pid \in Pid \cup {AnyChild}, WaitpidReap(pid)
      PROVE  ElderParents'
  <2>1. parent' = parent /\ \E z : pstate' = [pstate EXCEPT ![z] = "NONE"]
    BY <1>5 DEF WaitpidReap
  <2> QED
    BY <1>1, <1>2, <2>1
<1>6. CASE SysWaitpid \/ ResumeWaitpid
  <2>1. PICK pid \in Pid \cup {AnyChild} : Waitpid(pid)
    BY <1>6 DEF SysWaitpid, ResumeWaitpid, IInv, TypeOK
  <2>2. WaitpidReap(pid) \/ UNCHANGED <<parent, pstate>>
    BY <2>1, WalksEnd DEF Waitpid, WaitpidNoChild, WaitpidBlock, proc_vars
  <2> QED
    BY <1>2, <1>5, <2>2
<1>7. CASE BootScan
  <2>1. \/ \E pid \in Pid \cup {AnyChild} : WaitpidReap(pid)
        \/ UNCHANGED <<parent, pstate>>
    BY <1>7 DEF BootScan, proc_vars
  <2> QED
    BY <1>2, <1>5, <2>1
<1>8. CASE \/ SysReadTty \/ ResumeTtyRead \/ ThreadYield \/ ThreadExit \/ KeyboardNewline
           \/ KeyboardSwitch \/ Timer \/ BootIdle \/ BootBlock
  <2>1. UNCHANGED <<parent, pstate>>
    BY <1>8 DEF SysReadTty, ResumeTtyRead, TtyReadVfs, ThreadYield, ThreadExit,
                KeyboardNewline, KeyboardSwitch, Timer, BootIdle, MainCreatesThread,
                MainSchedule, BootBlock, proc_vars
  <2> QED
    BY <1>2, <2>1
<1> QED
  BY <1>3, <1>4, <1>6, <1>7, <1>8 DEF BootNext, ThreadsAndInterrupts

\* Nothing turns the boot thread's interrupts on.
LEMMA QuietStays ==
  ASSUME IInv, Quiet, BootNext
  PROVE  Quiet'
<1>1. CASE UNCHANGED main_if
  BY <1>1 DEF Quiet
<1>2. CASE BootBlock \/ MainSchedule
  BY <1>2 DEF Quiet, BootBlock, MainSchedule
<1>3. CASE SysWaitpid \/ ResumeWaitpid
  <2>1. PICK pid : Waitpid(pid)
    BY <1>3 DEF SysWaitpid, ResumeWaitpid
  <2> QED
    BY <1>1, <2>1 DEF Waitpid, WalksFreed
<1>4. CASE \/ SysSpawn \/ SysExitOrFault \/ SysReadTty \/ ResumeTtyRead \/ ThreadYield
           \/ ThreadExit \/ KeyboardNewline \/ KeyboardSwitch \/ Timer
           \/ MainCreatesThread \/ BootScan
  BY <1>1, <1>4 DEF SysSpawn, SysExitOrFault, Exits, WalksFreed, SysReadTty, ResumeTtyRead,
                    TtyReadVfs, ThreadYield, ThreadExit, KeyboardNewline, KeyboardSwitch,
                    Timer, MainCreatesThread, BootScan
<1> QED
  BY <1>2, <1>3, <1>4 DEF BootNext, BootIdle, ThreadsAndInterrupts

\* Every step with a waiting boot thread preserves the invariant.
LEMMA BootNextIInv ==
  ASSUME OutOfMemory = FALSE
  PROVE  BootIInv /\ [BootNext]_boot_vars => BootIInv'
<1> SUFFICES ASSUME BootIInv, [BootNext]_boot_vars PROVE BootIInv'
  OBVIOUS
<1>1. IInv /\ ElderParents /\ ScanIsFresh /\ Quiet
  BY DEF BootIInv
<1>2. CASE BootNext
  <2>1. ElderParents' /\ Quiet'
    BY <1>1, <1>2, ElderParentsStep, QuietStays
  <2>2. CASE ThreadsAndInterrupts /\ UNCHANGED scanned
    BY <1>1, <2>1, <2>2, ThreadsIInv, ScanStaysFresh DEF BootIInv
  <2>3. CASE BootIdle
    <3>1. IInv'
      BY <1>1, <2>3, MainStep DEF BootIdle
    <3>2. ScanIsFresh'
      BY <2>3 DEF BootIdle, ScanIsFresh
    <3> QED
      BY <2>1, <3>1, <3>2 DEF BootIInv
  <2>4. CASE BootScan \/ BootBlock
    BY <2>1, <2>4, BootScanStep, BootBlockStep DEF BootIInv
  <2> QED
    BY <1>2, <2>2, <2>3, <2>4 DEF BootNext
<1>3. CASE UNCHANGED boot_vars
  <2>1. /\ UNCHANGED <<thread_vars, proc_vars, call_vars, lines, main_if, active>>
        /\ UNCHANGED scanned
    BY <1>3 DEF boot_vars, vars, tty_vars
  <2>2. active \in Ttys
    BY <1>1 DEF IInv, TypeOK
  <2>3. IInv'
    BY <1>1, <2>1, <2>2, ActiveTerminalFree
  <2>4. UNCHANGED <<halted, current, call, children, pstate, parent, wait_pid>>
    BY <2>1 DEF thread_vars, proc_vars, call_vars
  <2>5. ElderParents'
    BY <1>1, <2>4 DEF ElderParents
  <2>6. ScanIsFresh'
    BY <1>1, <2>1, <2>4 DEF ScanIsFresh, Matching, Zombies
  <2>7. Quiet'
    BY <1>1, <2>1 DEF Quiet
  <2> QED
    BY <2>3, <2>5, <2>6, <2>7 DEF BootIInv
<1> QED
  BY <1>2, <1>3

\* A non-empty set of pids has a greatest element.
LEMMA GreatestPid ==
  ASSUME NEW S \in SUBSET Pid, S # {}
  PROVE  \E p \in S : \A q \in S : q <= p
<1> DEFINE D == {d \in Nat : MaxPid - d \in S}
<1>1. MaxPid \in Nat /\ \A p \in S : p \in Nat /\ p <= MaxPid
  BY BoundsAssumption DEF Pid
<1>2. PICK r \in S : TRUE
  OBVIOUS
<1>3. ASSUME NEW p \in S PROVE MaxPid - p \in D
  <2>1. MaxPid - p \in Nat /\ MaxPid - (MaxPid - p) = p
    BY <1>1
  <2> QED
    BY <2>1
<1>4. D \subseteq Nat /\ D # {}
  BY <1>2, <1>3
<1>5. PICK d \in D : \A e \in D : <<e, d>> \notin OpToRel(<, Nat)
  BY <1>4, NatLessThanWellFounded, WFMin, Zenon
<1>6. \A e \in D : ~(e < d)
  BY <1>4, <1>5, Zenon DEF OpToRel
<1>7. d \in Nat /\ MaxPid - d \in S
  BY <1>5
<1>8. ASSUME NEW q \in S PROVE q <= MaxPid - d
  <2>1. ~(MaxPid - q < d)
    BY <1>3, <1>6
  <2> HIDE DEF D
  <2> QED
    BY <1>1, <1>7, <2>1
<1> QED
  BY <1>7, <1>8

\* Why a halted machine has a reader: if everybody waited for a child, the youngest
\* process with a waiting thread would wait for a child that is younger still and has a
\* waiting thread too.
LEMMA WaitsEnd == IInv /\ ElderParents => HaltsOnlyOnInput
<1> SUFFICES ASSUME IInv, ElderParents, halted, \A t \in Tid : tstate[t] # "BLOCKED"
             PROVE  FALSE
  BY DEF HaltsOnlyOnInput
<1> DEFINE S == {p \in Pid : \E t \in Tid : tproc[t] = p /\ tstate[t] = "WAITING_CHILD"}
<1>1. ASSUME NEW t \in Tid, Exists(t) PROVE tstate[t] = "WAITING_CHILD"
  <2>1. tstate[t] \in ThreadState
    BY DEF IInv, TypeOK
  <2>2. tstate[t] \notin {"READY", "RUNNING"}
    BY DEF IInv, RunningThread
  <2> QED
    BY <1>1, <2>1, <2>2 DEF ThreadState, Exists
<1>2. Main \in Tid /\ tstate[Main] = "WAITING_CHILD" /\ tproc[Main] \in Pid
  <2>1. Main \in Tid
    BY BoundsAssumption DEF Main, Tid
  <2>2. Exists(Main)
    BY DEF IInv, BootThread, Exists
  <2>3. tproc[Main] \in Pid
    BY <2>1 DEF IInv, TypeOK
  <2> QED
    BY <1>1, <2>1, <2>2, <2>3
<1>3. S # {}
  BY <1>2
<1>4. PICK p \in S : \A q \in S : q <= p
  BY <1>3, GreatestPid
<1>5. PICK t \in Tid : tproc[t] = p /\ tstate[t] = "WAITING_CHILD"
  BY <1>4
<1>6. PICK c \in Pid \ {KernelPid} :
        parent[c] = p /\ pstate[c] = "RUNNING" /\ \E u \in Tid : tproc[u] = c /\ Exists(u)
  BY <1>5, AwaitedChild
<1>7. c \in S
  BY <1>1, <1>6
<1>8. p < c
  BY <1>6 DEF ElderParents
<1> QED
  BY <1>4, <1>7, <1>8, BoundsAssumption DEF Pid

\* When the boot thread waits for children too, schedule() can run out of threads, but
\* only while somebody waits for the keyboard: waits for children never lock each other
\* up, for any number of processes, with preemption as test_preempt() leaves it, once the
\* boot thread runs with interrupts off, as it does after its first wait that blocks; or
\* without preemption.  Allocations succeed.
THEOREM WaitsForChildrenEnd ==
  ASSUME OutOfMemory = FALSE
  PROVE  QuietSpec => []HaltsOnlyOnInput
<1>1. BootIInv /\ [BootNext]_boot_vars => BootIInv'
  BY BootNextIInv, Zenon
<1>2. BootIInv => HaltsOnlyOnInput
  BY WaitsEnd DEF BootIInv
<1> QED
  BY BootInitIInv, <1>1, <1>2, PTL DEF QuietSpec, QuietInit
=============================================================================
