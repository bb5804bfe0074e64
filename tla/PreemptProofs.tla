---------------------------- MODULE PreemptProofs ----------------------------
(***************************************************************************)
(* Proofs about Preempt, for any number of threads and a boot thread that  *)
(* runs with interrupts disabled: the inductive invariant, that threads    *)
(* can be resumed, and that every step is a step of RoundRobin.            *)
(***************************************************************************)
EXTENDS Preempt, TLAPS

\* The top frame is replaced by f in the only call of schedule() on this stack: the
\* CPU is at f.pc, still with interrupts disabled, and the other stacks are as before.
LEMMA FrameReplaced ==
  ASSUME IInv, Depth = 1, NEW f \in Frames, f.restore = Top.restore,
         stack' = [stack EXCEPT ![cpu][Depth] = f],
         UNCHANGED <<cpu, IF_flag>>
  PROVE  /\ stack' \in [Threads -> Seq(Frames)]
         /\ \A t \in Threads \ {cpu} : stack'[t] = stack[t]
         /\ Depth' = 1 /\ Top' = f /\ Pc' = f.pc /\ ~IF_flag'
         /\ \A t \in Threads : Len(stack'[t]) = 1 =>
              stack'[t][1].restore = IF t = 0 THEN "keep" ELSE "on"
<1>1. cpu \in Threads /\ stack \in [Threads -> Seq(Frames)]
  BY DEF IInv, TypeOK
<1>2. stack[cpu] \in Seq(Frames) /\ Len(stack[cpu]) = 1
  BY <1>1 DEF Depth
<1> DEFINE q == [stack[cpu] EXCEPT ![1] = f]
<1>3. q \in Seq(Frames) /\ Len(q) = 1 /\ q[1] = f
  BY <1>2
<1>4. stack' = [stack EXCEPT ![cpu] = q]
  BY <1>2 DEF Depth
<1> HIDE DEF q
<1>5. /\ stack' \in [Threads -> Seq(Frames)] /\ stack'[cpu] = q
      /\ \A t \in Threads \ {cpu} : stack'[t] = stack[t]
  BY <1>1, <1>3, <1>4
<1>6. Depth' = 1 /\ Top' = f
  BY <1>3, <1>5 DEF Depth, Top
<1>7. Pc' = f.pc /\ ~IF_flag'
  BY <1>6 DEF Pc, IInv, OneCall
<1>8. \A t \in Threads : Len(stack'[t]) = 1 =>
        stack'[t][1].restore = IF t = 0 THEN "keep" ELSE "on"
  <2>1. f.restore = IF cpu = 0 THEN "keep" ELSE "on"
    BY <1>1, <1>2 DEF IInv, OneCall, Top, Depth
  <2> QED
    BY <1>3, <1>5, <2>1 DEF IInv, OneCall
<1> QED
  BY <1>5, <1>6, <1>7, <1>8

\* In a call of schedule() the top of the stack is its frame.
LEMMA TopFrame == ASSUME IInv, Depth = 1 PROVE Top \in Frames
<1>1. stack[cpu] \in Seq(Frames)
  BY DEF IInv, TypeOK
<1>2. stack[cpu][1] \in Frames
  BY <1>1 DEF Depth
<1> QED
  BY <1>2 DEF Top

\* Control moves to statement pc: the frame keeps old, next and restore.
LEMMA GotoFacts ==
  ASSUME IInv, Depth = 1, NEW pc \in PCs, Goto(pc), UNCHANGED <<cpu, IF_flag>>
  PROVE  /\ stack' \in [Threads -> Seq(Frames)]
         /\ \A t \in Threads \ {cpu} : stack'[t] = stack[t]
         /\ Depth' = 1 /\ Pc' = pc /\ ~IF_flag'
         /\ Top'.old = Top.old /\ Top'.next = Top.next
         /\ Top.old \in Threads /\ Top.next \in Threads
         /\ \A t \in Threads : Len(stack'[t]) = 1 =>
              stack'[t][1].restore = IF t = 0 THEN "keep" ELSE "on"
<1> DEFINE f == [Top EXCEPT !.pc = pc]
<1>1. Top \in Frames
  BY TopFrame
<1>2. f \in Frames /\ f.restore = Top.restore /\ f.pc = pc /\ f.old = Top.old /\ f.next = Top.next
  BY <1>1 DEF Frames
<1>3. stack' = [stack EXCEPT ![cpu][Depth] = f]
  BY DEF Goto, Top
<1> HIDE DEF f
<1>4. Top.old \in Threads /\ Top.next \in Threads
  BY <1>1 DEF Frames
<1> QED
  BY <1>2, <1>3, <1>4, FrameReplaced

\* At a statement of schedule() the stack has one frame.
LEMMA AtFacts ==
  ASSUME IInv, NEW pc, At(pc)
  PROVE  Depth = 1 /\ Pc = pc
<1>1. Depth \in Nat
  BY DEF IInv, TypeOK, Depth
<1> QED
  BY <1>1 DEF At, Pc, IInv, OneCall

\* A step that changes neither the stacks of suspended threads nor their saved
\* stack pointers leaves them suspended.
LEMMA StaySuspended ==
  ASSUME IInv, UNCHANGED cpu,
         \A t \in Threads \ {cpu} : stack'[t] = stack[t] /\ rsp'[t] = rsp[t]
  PROVE  \A t \in Threads \ {cpu'} : Suspended(t)'
  BY DEF IInv, Suspended

\* What is left to show after a step to another statement of the same call: where
\* the flag stands, and what the call has decided.
LEMMA StepWithin ==
  ASSUME IInv, Depth = 1, NEW pc \in PCs, Goto(pc), UNCHANGED <<cpu, IF_flag>>,
         current' \in Threads, in_scheduler' \in BOOLEAN,
         tstate' \in [Threads -> {"READY", "RUNNING", "BLOCKED"}],
         rsp' \in [Threads -> [stack : Threads, depth : 0..2]],
         \A t \in Threads \ {cpu} : rsp'[t] = rsp[t],
         in_scheduler' <=> pc \in {"requeue", "scan", "take", "running", "leave"},
         Decided', States'
  PROVE  IInv'
<1>1. /\ stack' \in [Threads -> Seq(Frames)]
      /\ \A t \in Threads \ {cpu} : stack'[t] = stack[t]
      /\ Depth' = 1 /\ Pc' = pc /\ ~IF_flag'
      /\ \A t \in Threads : Len(stack'[t]) = 1 =>
              stack'[t][1].restore = IF t = 0 THEN "keep" ELSE "on"
  BY GotoFacts
<1>2. TypeOK'
  BY <1>1 DEF IInv, TypeOK
<1>3. OneCall'
  BY <1>1 DEF OneCall
<1>4. \A t \in Threads \ {cpu'} : Suspended(t)'
  BY <1>1, StaySuspended
<1> QED
  BY <1>2, <1>3, <1>4 DEF IInv

-----------------------------------------------------------------------------
\* if (in_scheduler) return; never returns early, for the flag is clear on entry.
LEMMA TestStep == IInv /\ Test => IInv'
<1> SUFFICES ASSUME IInv, Test PROVE IInv'
  OBVIOUS
<1>1. Depth = 1 /\ Pc = "test"
  BY AtFacts DEF Test
<1>2. ~in_scheduler
  BY <1>1 DEF IInv, OneCall
<1>3. Goto("enter") /\ UNCHANGED <<current, tstate, in_scheduler, IF_flag, cpu, rsp>>
  BY <1>2, Zenon DEF Test
<1>4. "enter" \in PCs
  BY DEF PCs
<1>5. Pc' = "enter"
  BY <1>1, <1>3, <1>4, GotoFacts
<1>6. Decided' /\ States'
  BY <1>1, <1>3, <1>5 DEF IInv, Decided, States
<1> QED
  BY <1>1, <1>2, <1>3, <1>4, <1>6, StepWithin DEF IInv, TypeOK

\* in_scheduler = true;
LEMMA EnterStep == IInv /\ Enter => IInv'
<1> SUFFICES ASSUME IInv, Enter PROVE IInv'
  OBVIOUS
<1>1. Depth = 1 /\ Pc = "enter"
  BY AtFacts DEF Enter
<1>2. Goto("requeue") /\ UNCHANGED <<current, tstate, IF_flag, cpu, rsp>>
  BY DEF Enter
<1>3. "requeue" \in PCs
  BY DEF PCs
<1>4. Pc' = "requeue"
  BY <1>1, <1>2, <1>3, GotoFacts
<1>5. Decided' /\ States'
  BY <1>1, <1>2, <1>4 DEF IInv, Decided, States
<1> QED
  BY <1>1, <1>2, <1>3, <1>5, StepWithin DEF Enter, IInv, TypeOK

\* From here until the choice is made no thread is RUNNING.
LEMMA RequeueStep == IInv /\ Requeue => IInv'
<1> SUFFICES ASSUME IInv, Requeue PROVE IInv'
  OBVIOUS
<1>1. Depth = 1 /\ Pc = "requeue"
  BY AtFacts DEF Requeue
<1>2. Goto("scan") /\ UNCHANGED <<current, in_scheduler, IF_flag, cpu, rsp>>
  BY DEF Requeue
<1>3. "scan" \in PCs
  BY DEF PCs
<1>4. Pc' = "scan"
  BY <1>1, <1>2, <1>3, GotoFacts
<1>5. /\ tstate' \in [Threads -> {"READY", "RUNNING", "BLOCKED"}]
      /\ \A t \in Threads : tstate'[t] # "RUNNING"
  BY <1>1 DEF Requeue, IInv, TypeOK, States
<1>6. Decided' /\ States'
  BY <1>1, <1>2, <1>4, <1>5 DEF IInv, Decided, States
<1> QED
  BY <1>1, <1>2, <1>3, <1>5, <1>6, StepWithin DEF IInv, OneCall, TypeOK

\* Nobody is RUNNING, so the threads that are not READY are BLOCKED: next is the
\* first thread after this one that is not blocked.
LEMMA ScanStep == IInv /\ Scan => IInv'
<1> SUFFICES ASSUME IInv, Scan PROVE IInv'
  OBVIOUS
<1>1. Depth = 1 /\ Pc = "scan"
  BY AtFacts DEF Scan
<1>2. UNCHANGED <<current, tstate, in_scheduler, IF_flag, cpu, rsp>>
  BY DEF Scan
<1>3. current = cpu /\ cpu \in Threads /\ tstate \in [Threads -> {"READY", "RUNNING", "BLOCKED"}]
  BY <1>1 DEF IInv, Decided, TypeOK
<1>4. PICK k \in 1..NumThreads :
        /\ tstate[(cpu + k) % NumThreads] = "READY"
        /\ \A j \in 1..k - 1 : tstate[(cpu + j) % NumThreads] # "READY"
        /\ stack' = [stack EXCEPT ![cpu][Depth] =
                       [Top EXCEPT !.pc = "take", !.old = cpu,
                                   !.next = (cpu + k) % NumThreads]]
  BY <1>3 DEF Scan, Top
<1>5. \A j \in 1..NumThreads : (cpu + j) % NumThreads \in Threads
  BY <1>3, PreemptAssumption DEF Threads
<1> DEFINE f == [Top EXCEPT !.pc = "take", !.old = cpu, !.next = (cpu + k) % NumThreads]
<1>6. Top \in Frames
  BY <1>1, TopFrame
<1>7. /\ f \in Frames /\ f.restore = Top.restore /\ f.pc = "take"
      /\ f.old = cpu /\ f.next = (cpu + k) % NumThreads
  BY <1>3, <1>5, <1>6 DEF Frames, PCs
<1>8. stack' = [stack EXCEPT ![cpu][Depth] = f]
  BY <1>4
<1> HIDE DEF f
<1>9. /\ stack' \in [Threads -> Seq(Frames)]
      /\ \A t \in Threads \ {cpu} : stack'[t] = stack[t]
      /\ Depth' = 1 /\ Top' = f /\ Pc' = "take" /\ ~IF_flag'
      /\ \A t \in Threads : Len(stack'[t]) = 1 =>
              stack'[t][1].restore = IF t = 0 THEN "keep" ELSE "on"
  BY <1>1, <1>2, <1>7, <1>8, FrameReplaced
<1>10. \A t \in Threads : tstate[t] # "RUNNING"
  BY <1>1 DEF IInv, States
<1>11. \A j \in 1..k - 1 : tstate[(cpu + j) % NumThreads] = "BLOCKED"
  BY <1>3, <1>4, <1>5, <1>10, PreemptAssumption
<1>12. NextReady(Top.next)'
  <2>1. \E m \in 1..NumThreads :
          /\ Top'.next = (cpu + m) % NumThreads /\ tstate[Top'.next] # "BLOCKED"
          /\ \A j \in 1..m - 1 : tstate[(cpu + j) % NumThreads] = "BLOCKED"
    BY <1>4, <1>7, <1>9, <1>11
  <2> QED
    BY <1>2, <2>1, Zenon DEF NextReady
<1>13. Decided'
  BY <1>2, <1>3, <1>7, <1>9, <1>12 DEF Decided
<1>14. States'
  BY <1>2, <1>9, <1>10 DEF States
<1>15. TypeOK' /\ OneCall'
  BY <1>1, <1>2, <1>9 DEF IInv, TypeOK, OneCall
<1>16. \A t \in Threads \ {cpu'} : Suspended(t)'
  BY <1>2, <1>9, StaySuspended
<1> QED
  BY <1>13, <1>14, <1>15, <1>16 DEF IInv

\* current = next;
LEMMA TakeStep == IInv /\ Take => IInv'
<1> SUFFICES ASSUME IInv, Take PROVE IInv'
  OBVIOUS
<1>1. Depth = 1 /\ Pc = "take"
  BY AtFacts DEF Take
<1>2. /\ Goto("running") /\ current' = Top.next
      /\ UNCHANGED <<tstate, in_scheduler, IF_flag, cpu, rsp>>
  BY DEF Take
<1>3. "running" \in PCs
  BY DEF PCs
<1>4. Pc' = "running" /\ Top'.old = Top.old /\ Top'.next = Top.next /\ Top.next \in Threads
  BY <1>1, <1>2, <1>3, GotoFacts
<1>5. NextReady(Top.next)'
  BY <1>1, <1>2, <1>4 DEF IInv, Decided, NextReady
<1>6. Decided'
  BY <1>1, <1>2, <1>4, <1>5 DEF IInv, Decided
<1>7. States'
  BY <1>1, <1>2, <1>4 DEF IInv, States
<1> QED
  BY <1>1, <1>2, <1>3, <1>4, <1>6, <1>7, StepWithin DEF IInv, OneCall, TypeOK

\* current->state = THREAD_RUNNING;
LEMMA RunningStep == IInv /\ Running => IInv'
<1> SUFFICES ASSUME IInv, Running PROVE IInv'
  OBVIOUS
<1>1. Depth = 1 /\ Pc = "running"
  BY AtFacts DEF Running
<1>2. /\ Goto("leave") /\ tstate' = [tstate EXCEPT ![current] = "RUNNING"]
      /\ UNCHANGED <<current, in_scheduler, IF_flag, cpu, rsp>>
  BY DEF Running
<1>3. "leave" \in PCs
  BY DEF PCs
<1>4. Pc' = "leave" /\ Top'.old = Top.old /\ Top'.next = Top.next /\ Top.next \in Threads
  BY <1>1, <1>2, <1>3, GotoFacts
<1>5. /\ current = Top.next /\ current \in Threads /\ cpu \in Threads
      /\ NextReady(Top.next) /\ Top.old = cpu
      /\ tstate \in [Threads -> {"READY", "RUNNING", "BLOCKED"}]
  BY <1>1 DEF IInv, Decided, TypeOK
<1>6. /\ tstate' \in [Threads -> {"READY", "RUNNING", "BLOCKED"}]
      /\ tstate'[current] = "RUNNING"
      /\ \A t \in Threads \ {current} : tstate'[t] = tstate[t]
  BY <1>2, <1>5
<1>7. NextReady(Top.next)'
  <2>1. PICK k \in 1..NumThreads :
          /\ Top.next = (cpu + k) % NumThreads /\ tstate[Top.next] # "BLOCKED"
          /\ \A j \in 1..k - 1 : tstate[(cpu + j) % NumThreads] = "BLOCKED"
    BY <1>5 DEF NextReady
  <2>2. \A j \in 1..k - 1 : (cpu + j) % NumThreads \in Threads
    BY <1>5, PreemptAssumption DEF Threads
  <2>3. \A j \in 1..k - 1 : tstate'[(cpu + j) % NumThreads] = "BLOCKED"
    BY <1>5, <1>6, <2>1, <2>2
  <2>4. \E m \in 1..NumThreads :
          /\ Top'.next = (cpu + m) % NumThreads /\ tstate'[Top'.next] # "BLOCKED"
          /\ \A j \in 1..m - 1 : tstate'[(cpu + j) % NumThreads] = "BLOCKED"
    BY <1>4, <1>5, <1>6, <2>1, <2>3
  <2> QED
    BY <1>2, <2>4, Zenon DEF NextReady
<1>8. Decided'
  BY <1>1, <1>2, <1>4, <1>5, <1>7 DEF Decided
<1>9. States'
  BY <1>1, <1>2, <1>4, <1>6 DEF IInv, States
<1> QED
  BY <1>1, <1>2, <1>3, <1>6, <1>8, <1>9, StepWithin DEF IInv, OneCall, TypeOK

\* in_scheduler = false; the threads differ where context_switch() is called.
LEMMA LeaveStep == IInv /\ Leave => IInv'
<1> SUFFICES ASSUME IInv, Leave PROVE IInv'
  OBVIOUS
<1>1. Depth = 1 /\ Pc = "leave"
  BY AtFacts DEF Leave
<1>2. /\ current = Top.next /\ Top.old = cpu /\ NextReady(Top.next)
      /\ tstate[current] = "RUNNING" /\ \A t \in Threads : tstate[t] = "RUNNING" => t = current
  BY <1>1 DEF IInv, Decided, States
<1> DEFINE pc == IF Top.old # current THEN "save" ELSE "return"
<1>3. Goto(pc) /\ ~in_scheduler' /\ UNCHANGED <<current, tstate, IF_flag, cpu, rsp>>
  BY DEF Leave
<1>4. /\ pc \in PCs /\ pc \notin {"requeue", "scan", "take", "running", "leave"}
      /\ pc \in {"save", "return"} /\ (pc = "save" <=> Top.next # cpu)
  BY <1>2 DEF PCs
<1> HIDE DEF pc
<1>5. Pc' = pc /\ Top'.old = Top.old /\ Top'.next = Top.next
  BY <1>1, <1>3, <1>4, GotoFacts
<1>6. NextReady(Top.next)'
  BY <1>2, <1>3, <1>5 DEF NextReady
<1>7. Decided'
  BY <1>2, <1>3, <1>4, <1>5, <1>6 DEF Decided
<1>8. States'
  BY <1>2, <1>3, <1>4, <1>5 DEF States
<1> QED
  BY <1>1, <1>3, <1>4, <1>7, <1>8, StepWithin DEF IInv, TypeOK, Leave

\* context_switch() saves the stack pointer of the thread it executes on.
LEMMA SaveStep == IInv /\ Save => IInv'
<1> SUFFICES ASSUME IInv, Save PROVE IInv'
  OBVIOUS
<1>1. Depth = 1 /\ Pc = "save"
  BY AtFacts DEF Save
<1>2. Top.old = cpu /\ Top.next # cpu /\ current = Top.next /\ NextReady(Top.next)
  BY <1>1 DEF IInv, Decided
<1>3. /\ Goto("load") /\ rsp' = [rsp EXCEPT ![cpu] = [stack |-> cpu, depth |-> 1]]
      /\ UNCHANGED <<current, tstate, in_scheduler, IF_flag, cpu>>
  BY <1>1, <1>2 DEF Save
<1>4. "load" \in PCs
  BY DEF PCs
<1>5. Pc' = "load" /\ Top'.old = Top.old /\ Top'.next = Top.next
  BY <1>1, <1>3, <1>4, GotoFacts
<1>6. /\ rsp' \in [Threads -> [stack : Threads, depth : 0..2]]
      /\ rsp'[cpu] = [stack |-> cpu, depth |-> 1]
      /\ \A t \in Threads \ {cpu} : rsp'[t] = rsp[t]
  BY <1>3 DEF IInv, TypeOK
<1>7. NextReady(Top.next)'
  BY <1>2, <1>3, <1>5 DEF NextReady
<1>8. Decided'
  BY <1>2, <1>3, <1>5, <1>6, <1>7 DEF Decided
<1>9. States'
  BY <1>1, <1>3, <1>5 DEF IInv, States
<1>10. ~in_scheduler
  BY <1>1 DEF IInv, OneCall
<1> QED
  <2>1. /\ current' \in Threads /\ in_scheduler' \in BOOLEAN
        /\ tstate' \in [Threads -> {"READY", "RUNNING", "BLOCKED"}]
        /\ in_scheduler' <=> "load" \in {"requeue", "scan", "take", "running", "leave"}
    BY <1>3, <1>10 DEF IInv, TypeOK
  <2> QED
    BY <1>1, <1>3, <1>4, <1>6, <1>8, <1>9, <2>1, StepWithin

\* What the two stacks hold after context_switch() has changed from one to the other:
\* the one it left is suspended in its call, the other goes on as it was suspended.
LEMMA LoadFacts ==
  ASSUME IInv, Load
  PROVE  /\ Top.next \in Threads \ {cpu} /\ current = Top.next /\ cpu' = Top.next
         /\ stack' \in [Threads -> Seq(Frames)]
         /\ Len(stack'[cpu]) = 1 /\ stack'[cpu][1].pc = "return"
         /\ stack'[cpu][1].restore = stack[cpu][1].restore /\ Len(stack[cpu]) = 1
         /\ Len(stack'[Top.next]) = 1 /\ stack'[Top.next][1] = stack[Top.next][1]
         /\ \A t \in Threads \ {cpu, Top.next} : stack'[t] = stack[t]
<1>1. Depth = 1 /\ Pc = "load"
  BY AtFacts DEF Load
<1>2. Top \in Frames
  BY <1>1, TopFrame
<1> DEFINE n == Top.next
           q == [stack[cpu] EXCEPT ![1] = [Top EXCEPT !.pc = "return"]]
<1>3. n \in Threads \ {cpu} /\ current = n /\ cpu \in Threads
  BY <1>1, <1>2 DEF IInv, Decided, TypeOK, Frames
<1>4. Suspended(n)
  BY <1>3 DEF IInv
<1>5. /\ stack \in [Threads -> Seq(Frames)] /\ stack[n] \in Seq(Frames)
      /\ stack[cpu] \in Seq(Frames) /\ Len(stack[cpu]) = 1
  BY <1>1, <1>3 DEF IInv, TypeOK, Depth
<1>6. rsp[n].stack = n /\ rsp[n].depth = 1 /\ Len(stack[n]) = 1
  BY <1>4 DEF Suspended
<1>7. [Top EXCEPT !.pc = "return"] \in Frames /\ [Top EXCEPT !.pc = "return"].pc = "return"
      /\ [Top EXCEPT !.pc = "return"].restore = Top.restore
  BY <1>2 DEF Frames, PCs
<1>8. q \in Seq(Frames) /\ Len(q) = 1 /\ q[1].pc = "return" /\ q[1].restore = Top.restore
  BY <1>5, <1>7
<1>9. Top = stack[cpu][1]
  BY <1>1 DEF Top
<1>10. /\ cpu' = n
       /\ stack' = [stack EXCEPT ![cpu] = q, ![n] = SubSeq(@, 1, 1)]
  <2>1. /\ cpu' = rsp[n].stack
        /\ stack' = [stack EXCEPT ![cpu][Depth].pc = "return",
                                  ![rsp[n].stack] = SubSeq(@, 1, rsp[n].depth)]
    BY DEF Load
  <2> QED
    BY <1>1, <1>6, <1>9, <2>1
<1> HIDE DEF n, q
<1>11. [stack EXCEPT ![cpu] = q][n] = stack[n]
  BY <1>3, <1>5
<1>12. /\ SubSeq(stack[n], 1, 1) \in Seq(Frames) /\ Len(SubSeq(stack[n], 1, 1)) = 1
       /\ SubSeq(stack[n], 1, 1)[1] = stack[n][1]
  BY <1>5, <1>6
<1>13. /\ stack' \in [Threads -> Seq(Frames)]
       /\ stack'[cpu] = q /\ stack'[n] = SubSeq(stack[n], 1, 1)
       /\ \A t \in Threads \ {cpu, n} : stack'[t] = stack[t]
  BY <1>3, <1>5, <1>8, <1>10, <1>11, <1>12
<1> QED
  BY <1>3, <1>5, <1>8, <1>9, <1>10, <1>12, <1>13 DEF n

\* context_switch() returns in the call the other thread was suspended in.
LEMMA LoadStep == IInv /\ Load => IInv'
<1> SUFFICES ASSUME IInv, Load PROVE IInv'
  OBVIOUS
<1>1. Depth = 1 /\ Pc = "load"
  BY AtFacts DEF Load
<1> DEFINE n == Top.next
<1>2. /\ n \in Threads \ {cpu} /\ current = n /\ cpu' = n
      /\ stack' \in [Threads -> Seq(Frames)]
      /\ Len(stack'[cpu]) = 1 /\ stack'[cpu][1].pc = "return"
      /\ stack'[cpu][1].restore = stack[cpu][1].restore /\ Len(stack[cpu]) = 1
      /\ Len(stack'[n]) = 1 /\ stack'[n][1] = stack[n][1]
      /\ \A t \in Threads \ {cpu, n} : stack'[t] = stack[t]
  BY LoadFacts
<1>3. UNCHANGED <<current, tstate, in_scheduler, IF_flag, rsp>>
  BY DEF Load
<1> HIDE DEF n
<1>4. Suspended(n) /\ rsp[cpu] = [stack |-> cpu, depth |-> 1] /\ cpu \in Threads
  BY <1>1, <1>2 DEF IInv, Decided, TypeOK
<1>5. Depth' = 1 /\ Pc' = "return"
  BY <1>2, <1>4 DEF Depth, Pc, Top, Suspended
<1>6. TypeOK'
  BY <1>2, <1>3 DEF IInv, TypeOK
<1>7. OneCall'
  <2>1. ~IF_flag' /\ ~in_scheduler'
    BY <1>1, <1>3 DEF IInv, OneCall
  <2>2. \A t \in Threads : Len(stack'[t]) = 1 =>
              stack'[t][1].restore = IF t = 0 THEN "keep" ELSE "on"
    BY <1>2, <1>4 DEF IInv, OneCall, Suspended
  <2> QED
    BY <1>5, <2>1, <2>2 DEF OneCall
<1>8. Decided' /\ States'
  BY <1>1, <1>2, <1>3, <1>5 DEF IInv, Decided, States
<1>9. \A t \in Threads \ {cpu'} : Suspended(t)'
  BY <1>2, <1>3, <1>4 DEF IInv, Suspended
<1> QED
  BY <1>6, <1>7, <1>8, <1>9 DEF IInv

\* schedule() returns to the thread's own code.
LEMMA ReturnStep == IInv /\ Return => IInv'
<1> SUFFICES ASSUME IInv, Return PROVE IInv'
  OBVIOUS
<1>1. Depth = 1 /\ Pc = "return"
  BY AtFacts DEF Return
<1>2. UNCHANGED <<current, tstate, in_scheduler, cpu, rsp>>
  BY DEF Return
<1>3. cpu \in Threads /\ stack \in [Threads -> Seq(Frames)]
  BY DEF IInv, TypeOK
<1>4. stack[cpu] \in Seq(Frames)
  BY <1>3
<1>5. SubSeq(stack[cpu], 1, 0) \in Seq(Frames) /\ Len(SubSeq(stack[cpu], 1, 0)) = 0
  BY <1>4
<1>6. stack' = [stack EXCEPT ![cpu] = SubSeq(stack[cpu], 1, 0)]
  BY <1>1 DEF Return
<1>7. /\ stack' \in [Threads -> Seq(Frames)] /\ Len(stack'[cpu]) = 0
      /\ \A t \in Threads \ {cpu} : stack'[t] = stack[t]
  BY <1>3, <1>5, <1>6
<1>8. Depth' = 0 /\ Pc' = "own"
  BY <1>2, <1>7 DEF Depth, Pc
<1>9. IF_flag' \in BOOLEAN /\ (IF_flag' => cpu # 0)
  <2>1. ~IF_flag /\ Top.restore = IF cpu = 0 THEN "keep" ELSE "on"
    BY <1>1, <1>3 DEF IInv, OneCall, Top, Depth
  <2>2. IF_flag' = (IF_flag \/ Top.restore = "on")
    BY DEF Return
  <2> QED
    BY <2>1, <2>2
<1>10. TypeOK'
  BY <1>2, <1>7, <1>9 DEF IInv, TypeOK
<1>11. OneCall'
  <2>1. ~in_scheduler'
    BY <1>1, <1>2 DEF IInv, OneCall
  <2>2. \A t \in Threads : Len(stack'[t]) = 1 =>
              stack'[t][1].restore = IF t = 0 THEN "keep" ELSE "on"
    <3>1. SUFFICES ASSUME NEW t \in Threads, Len(stack'[t]) = 1
                   PROVE  stack'[t][1].restore = IF t = 0 THEN "keep" ELSE "on"
      OBVIOUS
    <3>2. t # cpu
      <4>1. Len(stack'[cpu]) # 1
        BY <1>7
      <4> QED
        BY <3>1, <4>1, Zenon
    <3>3. stack'[t] = stack[t] /\ Len(stack[t]) = 1
      BY <1>7, <3>1, <3>2, Zenon
    <3>4. Len(stack[t]) = 1 => stack[t][1].restore = IF t = 0 THEN "keep" ELSE "on"
      BY DEF IInv, OneCall
    <3> QED
      BY <3>3, <3>4
  <2> QED
    BY <1>2, <1>8, <1>9, <2>1, <2>2 DEF OneCall
<1>12. Decided' /\ States'
  BY <1>1, <1>2, <1>8 DEF IInv, Decided, States
<1>13. \A t \in Threads \ {cpu'} : Suspended(t)'
  BY <1>2, <1>7, StaySuspended
<1> QED
  BY <1>10, <1>11, <1>12, <1>13 DEF IInv
-----------------------------------------------------------------------------
\* A call of schedule() with interrupts disabled, from the thread's own code.
LEMMA CallStep ==
  ASSUME IInv, Depth = 0, Push(Frame("test", IF cpu = 0 THEN "keep" ELSE "on")), ~IF_flag',
         IF_flag' \in BOOLEAN, UNCHANGED <<current, in_scheduler, cpu, rsp>>,
         tstate' \in [Threads -> {"READY", "RUNNING", "BLOCKED"}],
         \A t \in Threads : tstate'[t] = "RUNNING" => tstate[t] = "RUNNING"
  PROVE  IInv'
<1> DEFINE f == Frame("test", IF cpu = 0 THEN "keep" ELSE "on")
<1>1. cpu \in Threads /\ stack \in [Threads -> Seq(Frames)] /\ 0 \in Threads
  BY PreemptAssumption DEF IInv, TypeOK, Threads
<1>2. f \in Frames /\ f.pc = "test" /\ f.restore = IF cpu = 0 THEN "keep" ELSE "on"
  BY <1>1 DEF Frame, Frames, PCs
<1>3. stack' = [stack EXCEPT ![cpu] = Append(stack[cpu], f)]
  BY DEF Push
<1> HIDE DEF f
<1>4. stack[cpu] \in Seq(Frames) /\ Len(stack[cpu]) = 0
  BY <1>1 DEF Depth
<1>5. /\ Append(stack[cpu], f) \in Seq(Frames)
      /\ Len(Append(stack[cpu], f)) = 1 /\ Append(stack[cpu], f)[1] = f
  BY <1>2, <1>4
<1>6. /\ stack' \in [Threads -> Seq(Frames)] /\ Len(stack'[cpu]) = 1 /\ stack'[cpu][1] = f
      /\ \A t \in Threads \ {cpu} : stack'[t] = stack[t]
  BY <1>1, <1>3, <1>5
<1>7. Depth' = 1 /\ Pc' = "test"
  BY <1>2, <1>6 DEF Depth, Pc, Top
<1>8. Pc = "own" /\ ~in_scheduler
  BY DEF IInv, OneCall, Pc
<1>9. TypeOK'
  BY <1>6 DEF IInv, TypeOK
<1>10. OneCall'
  <2>1. \A t \in Threads : Len(stack'[t]) = 1 =>
              stack'[t][1].restore = IF t = 0 THEN "keep" ELSE "on"
    BY <1>2, <1>6 DEF IInv, OneCall
  <2> QED
    BY <1>7, <1>8, <2>1 DEF OneCall
<1>11. Decided' /\ States'
  BY <1>7, <1>8 DEF IInv, Decided, States
<1>12. \A t \in Threads \ {cpu'} : Suspended(t)'
  BY <1>6, StaySuspended
<1> QED
  BY <1>9, <1>10, <1>11, <1>12 DEF IInv

\* The boot thread calls schedule() in its loop.
LEMMA MainCallsStep == IInv /\ MainCalls => IInv'
<1> SUFFICES ASSUME IInv, MainCalls PROVE IInv'
  OBVIOUS
<1>1. Push(Frame("test", IF cpu = 0 THEN "keep" ELSE "on")) /\ Depth = 0
  BY DEF MainCalls, Push
<1>2. ~IF_flag' /\ IF_flag' \in BOOLEAN
  BY DEF MainCalls, IInv, OneCall, TypeOK
<1> QED
  BY <1>1, <1>2, CallStep DEF MainCalls, IInv, TypeOK

\* thread_yield(), and a system call that blocks.
LEMMA YieldStep == IInv /\ (Yield \/ Block) => IInv'
<1> SUFFICES ASSUME IInv, Yield \/ Block PROVE IInv'
  OBVIOUS
<1>1. Push(Frame("test", IF cpu = 0 THEN "keep" ELSE "on")) /\ Depth = 0
  BY DEF Yield, Block, Push
<1>2. IF_flag' = FALSE /\ UNCHANGED <<current, in_scheduler, cpu, rsp>>
  BY DEF Yield, Block
<1>3. /\ tstate' \in [Threads -> {"READY", "RUNNING", "BLOCKED"}]
      /\ \A t \in Threads : tstate'[t] = "RUNNING" => tstate[t] = "RUNNING"
  BY DEF IInv, TypeOK, Yield, Block
<1> QED
  BY <1>1, <1>2, <1>3, CallStep

\* A timer interrupt is never taken inside schedule() or in the boot thread.
LEMMA TimerIrqStep == IInv /\ TimerIrq => IInv'
<1> SUFFICES ASSUME IInv, TimerIrq PROVE IInv'
  OBVIOUS
<1>1. Depth = 0 /\ cpu # 0
  BY DEF TimerIrq, IInv, OneCall
<1>2. Push(Frame("test", IF cpu = 0 THEN "keep" ELSE "on"))
  BY <1>1 DEF TimerIrq, Push
<1>3. IF_flag' = FALSE /\ UNCHANGED <<current, tstate, in_scheduler, cpu, rsp>>
  BY DEF TimerIrq
<1> QED
  BY <1>1, <1>2, <1>3, CallStep DEF IInv, TypeOK

\* A blocked thread is woken by the code of another.
LEMMA WakeStep == IInv /\ Wake => IInv'
<1> SUFFICES ASSUME IInv, Wake PROVE IInv'
  OBVIOUS
<1>1. Depth = 0 /\ UNCHANGED <<current, in_scheduler, IF_flag, cpu, stack, rsp>>
  BY DEF Wake
<1>2. Depth' = Depth /\ Pc' = Pc /\ Pc = "own"
  BY <1>1 DEF Depth, Pc, Top
<1>3. /\ tstate' \in [Threads -> {"READY", "RUNNING", "BLOCKED"}]
      /\ \A t \in Threads : tstate'[t] = "RUNNING" => tstate[t] = "RUNNING"
      /\ tstate[current] = "RUNNING" => tstate'[current] = "RUNNING"
  BY DEF IInv, TypeOK, Wake
<1>4. TypeOK'
  BY <1>1, <1>3 DEF IInv, TypeOK
<1>5. OneCall'
  BY <1>1, <1>2 DEF IInv, OneCall
<1>6. Decided' /\ States'
  BY <1>1, <1>2, <1>3 DEF IInv, Decided, States
<1>7. \A t \in Threads \ {cpu'} : Suspended(t)'
  BY <1>1, StaySuspended
<1> QED
  BY <1>4, <1>5, <1>6, <1>7 DEF IInv

-----------------------------------------------------------------------------
\* The boot thread starts with interrupts disabled, the others as thread_create() leaves them.
LEMMA InitIInv == MainIF = FALSE /\ Init => IInv
<1> SUFFICES ASSUME MainIF = FALSE, Init PROVE IInv
  OBVIOUS
<1>1. 0 \in Threads
  BY PreemptAssumption DEF Threads
<1>2. <<>> \in Seq(Frames) /\ <<Frame("return", "on")>> \in Seq(Frames)
  BY <1>1 DEF Frames, Frame, PCs
<1>3. /\ Len(<<>>) = 0 /\ Len(<<Frame("return", "on")>>) = 1
      /\ <<Frame("return", "on")>>[1].pc = "return" /\ <<Frame("return", "on")>>[1].restore = "on"
  BY DEF Frame
<1>4. /\ stack \in [Threads -> Seq(Frames)] /\ stack[0] = <<>>
      /\ \A t \in Threads \ {0} : stack[t] = <<Frame("return", "on")>>
  BY <1>1, <1>2 DEF Init
<1>5. Depth = 0 /\ Pc = "own"
  BY <1>3, <1>4 DEF Init, Depth, Pc
<1>6. TypeOK
  BY <1>1, <1>4 DEF Init, TypeOK
<1>7. OneCall
  BY <1>3, <1>4, <1>5 DEF Init, OneCall
<1>8. Decided /\ States
  BY <1>1, <1>5 DEF Init, Decided, States
<1>9. \A t \in Threads \ {cpu} : Suspended(t)
  BY <1>3, <1>4 DEF Init, Suspended
<1> QED
  BY <1>6, <1>7, <1>8, <1>9 DEF IInv

\* A step in which nothing changes.
LEMMA StutterStep == IInv /\ UNCHANGED vars => IInv'
<1> SUFFICES ASSUME IInv, UNCHANGED vars PROVE IInv'
  OBVIOUS
<1>1. UNCHANGED <<stack, rsp, cpu, current, tstate, IF_flag, in_scheduler>>
  BY DEF vars
<1>2. Depth' = Depth /\ Top' = Top /\ Pc' = Pc
  BY <1>1 DEF Depth, Top, Pc
<1>3. TypeOK'
  BY <1>1 DEF IInv, TypeOK
<1>4. OneCall'
  BY <1>1, <1>2 DEF IInv, OneCall
<1>5. Decided'
  BY <1>1, <1>2 DEF IInv, Decided, NextReady
<1>6. States'
  BY <1>1, <1>2 DEF IInv, States
<1>7. \A t \in Threads \ {cpu'} : Suspended(t)'
  BY <1>1 DEF IInv, Suspended
<1> QED
  BY <1>3, <1>4, <1>5, <1>6, <1>7 DEF IInv

\* Every step keeps the invariant.
LEMMA NextIInv == IInv /\ [Next]_vars => IInv'
  BY TestStep, EnterStep, RequeueStep, ScanStep, TakeStep, RunningStep, LeaveStep, SaveStep,
     LoadStep, ReturnStep, MainCallsStep, YieldStep, WakeStep, TimerIrqStep, StutterStep
     DEF Next, Statement

\* The inductive invariant holds in every reachable state.
LEMMA SpecIInv == MainIF = FALSE /\ Spec => []IInv
  BY InitIInv, NextIInv, PTL DEF Spec

\* With a boot thread that calls schedule() with interrupts disabled, a thread that was
\* switched away from, by a yield, a blocking call or a timer interrupt of its own code,
\* can be resumed: schedule() and context_switch() leave its saved stack pointer at the
\* top of its own stack.  For any number of threads.
THEOREM EveryThreadIsResumable == MainIF = FALSE /\ Spec => []Resumable
<1>1. IInv => Resumable
  BY DEF IInv, Resumable, Suspended
<1> QED
  BY <1>1, SpecIInv, PTL

-----------------------------------------------------------------------------
\* A step that changes neither the stack nor who is blocked.
LEMMA Stutters ==
  ASSUME UNCHANGED cpu, \A t \in Threads : tstate'[t] = "BLOCKED" <=> tstate[t] = "BLOCKED"
  PROVE  UNCHANGED RR!vars
  BY DEF RR!vars

\* Every step of schedule() and context_switch(), of a system call and of the timer
\* interrupt is a step of round-robin scheduling, or none.
LEMMA StepIsRoundRobin == IInv /\ [Next]_vars => [RR!Next]_(RR!vars)
<1> SUFFICES ASSUME IInv, [Next]_vars PROVE [RR!Next]_(RR!vars)
  OBVIOUS
<1>1. /\ current \in Threads /\ cpu \in Threads
      /\ tstate \in [Threads -> {"READY", "RUNNING", "BLOCKED"}]
  BY DEF IInv, TypeOK
<1>2. CASE Load
  <2>1. Pc = "load"
    BY <1>2, AtFacts DEF Load
  <2>2. cpu' = Top.next /\ UNCHANGED tstate
    BY <1>2, LoadFacts DEF Load
  <2>3. PICK k \in 1..NumThreads :
          /\ Top.next = (cpu + k) % NumThreads /\ tstate[Top.next] # "BLOCKED"
          /\ \A j \in 1..k - 1 : tstate[(cpu + j) % NumThreads] = "BLOCKED"
    BY <2>1 DEF IInv, Decided, NextReady
  <2>4. (cpu + k) % NumThreads \in Threads
    BY <1>1, PreemptAssumption DEF Threads
  <2>5. RR!Switch
    BY <2>2, <2>3, <2>4 DEF RR!Switch
  <2> QED
    BY <2>5 DEF RR!Next
<1>3. CASE Block
  <2>1. current = cpu /\ cpu # 0
    BY <1>3 DEF IInv, Decided, Pc, Block
  <2>2. tstate' = [tstate EXCEPT ![cpu] = "BLOCKED"] /\ UNCHANGED cpu
    BY <1>3, <2>1 DEF Block
  <2>3. RR!Block
    BY <1>1, <2>1, <2>2 DEF RR!Block
  <2> QED
    BY <2>3 DEF RR!Next
<1>4. CASE Wake
  <2>1. PICK t \in Threads : tstate[t] = "BLOCKED" /\ tstate' = [tstate EXCEPT ![t] = "READY"]
    BY <1>4 DEF Wake
  <2>2. RR!Wake
    BY <1>1, <1>4, <2>1 DEF RR!Wake, Wake, RR!Threads, Threads
  <2> QED
    BY <2>2 DEF RR!Next
<1>5. CASE Requeue
  BY <1>1, <1>5, Stutters DEF Requeue
<1>6. CASE Running
  <2>1. Pc = "running"
    BY <1>6, AtFacts DEF Running
  <2>2. tstate[current] # "BLOCKED"
    BY <2>1 DEF IInv, Decided, NextReady
  <2> QED
    BY <1>1, <1>6, <2>2, Stutters DEF Running
<1>7. CASE UNCHANGED <<cpu, tstate>>
  BY <1>7, Stutters
<1> QED
  BY <1>2, <1>3, <1>4, <1>5, <1>6, <1>7
     DEF Next, Statement, MainCalls, Yield, TimerIrq, Test, Enter, Scan, Take, Leave, Save,
         Return, vars

\* The safety part of ImplementsRoundRobin, with a boot thread that calls schedule()
\* with interrupts disabled: instruction by instruction, interrupts included, the CPU
\* goes from a thread to the next one that is not blocked, and only the threads
\* themselves change who is.
THEOREM SchedulerIsRoundRobin ==
  MainIF = FALSE /\ Spec => RR!Init /\ [][RR!Next]_(RR!vars)
<1>1. Init => RR!Init
  BY DEF Init, RR!Init, RR!Threads, Threads
<1> QED
  BY <1>1, SpecIInv, StepIsRoundRobin, PTL DEF Spec
=============================================================================
