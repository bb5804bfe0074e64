---------------------- MODULE AddressSpaceStepProofs ----------------------
(***************************************************************************)
(* That the inductive invariant of AddressSpace holds initially and is     *)
(* preserved by every step, and the facts about requests, images, indices  *)
(* of page tables and addresses that the proofs of its properties rest on. *)
(***************************************************************************)
EXTENDS AddressSpace, TLAPS

USE FrameAssumption, PidAssumption

\* The empty sequence is the one of length 0.
LEMMA EmptySequence ==
  ASSUME NEW S
  PROVE  <<>> \in Seq(S) /\ Len(<<>>) = 0 /\ \A s \in Seq(S) : Len(s) = 0 => s = <<>>
  OBVIOUS

\* The elements of a concatenation.
LEMMA Concatenation ==
  ASSUME NEW S, NEW s \in Seq(S), NEW t \in Seq(S)
  PROVE  /\ s \o t \in Seq(S) /\ Len(s) \in Nat /\ Len(t) \in Nat
         /\ Len(s \o t) = Len(s) + Len(t)
         /\ \A i \in 1..(Len(s) + Len(t)) :
              (s \o t)[i] = IF i <= Len(s) THEN s[i] ELSE t[i - Len(s)]
  OBVIOUS

\* What the arithmetic on pages needs of PageAssumption.
LEMMA PageNumbers ==
  UserPages \in Nat /\ HeapBase \in Nat /\ HeapPages \in Nat \ {0} /\ UserPages <= HeapBase
  BY PageAssumption

\* PAGE_ALIGN_UP() of an address is a page.
LEMMA PageUpType ==
  ASSUME NEW x \in Address
  PROVE  PageUp(x) \in Nat
<1>1. x + PageSize - 1 \in Nat /\ AddressEnd \in Nat \ {0} /\ PageSize \in Nat \ {0}
  BY PageAssumption DEF Address
<1>2. (x + PageSize - 1) % AddressEnd \in Nat
  BY <1>1
<1> QED
  BY <1>1, <1>2 DEF PageUp

\* The requests Fresh() makes up.
LEMMA FreshType ==
  ASSUME NEW first \in Nat, NEW last \in Int, last < HeapBase + HeapPages
  PROVE  /\ Fresh(first, last) \in Seq(Wants)
         /\ last < UserPages => \A i \in 1..Len(Fresh(first, last)) : IsUser(Fresh(first, last)[i].page)
<1> DEFINE n == last - first + 1
<1>1. \A i \in 1..n : [page |-> first + i - 1, writable |-> TRUE, reuse |-> FALSE] \in Wants
  BY PageAssumption DEF Wants
<1>2. CASE n \in Nat
  <2>1. Fresh(first, last) \in [1..n -> Wants]
    BY <1>1 DEF Fresh
  <2>2. Fresh(first, last) \in Seq(Wants) /\ Len(Fresh(first, last)) = n
    BY <1>2, <2>1
  <2>3. \A i \in 1..n : Fresh(first, last)[i].page = first + i - 1
    BY DEF Fresh
  <2>4. last < UserPages => \A i \in 1..n : first + i - 1 < UserPages
    BY PageAssumption
  <2> QED
    BY <2>2, <2>3, <2>4, Zenon DEF IsUser
<1>3. CASE n \notin Nat
  <2>1. 1..n = {}
    BY <1>3
  <2>2. Fresh(first, last) = <<>>
    BY <2>1 DEF Fresh
  <2> QED
    BY <2>2
<1> QED
  BY <1>2, <1>3

\* There is one for one page.
LEMMA FreshOne ==
  ASSUME NEW page \in Nat
  PROVE  Len(Fresh(page, page)) = 1 /\ Fresh(page, page)[1].page = page
<1>1. Fresh(page, page) = [i \in 1..1 |-> [page |-> page + i - 1, writable |-> TRUE, reuse |-> FALSE]]
  BY DEF Fresh
<1> HIDE DEF Fresh
<1>2. Len(Fresh(page, page)) = 1
  BY <1>1
<1> QED
  BY <1>1, <1>2

\* They are for all its pages, to be mapped writable.
LEMMA FreshPending ==
  ASSUME NEW first \in Nat, NEW last \in Int
  PROVE  /\ \A page \in first..last : Pending(Fresh(first, last), page)
         /\ \A i \in 1..Len(Fresh(first, last)) :
              Fresh(first, last)[i].writable /\ ~Fresh(first, last)[i].reuse
<1> DEFINE n == last - first + 1
<1>1. \A i \in 1..n : Fresh(first, last)[i] = [page |-> first + i - 1, writable |-> TRUE, reuse |-> FALSE]
  BY DEF Fresh
<1>2. CASE n \in Nat
  <2>1. Len(Fresh(first, last)) = n
    BY <1>2 DEF Fresh
  <2>2. ASSUME NEW page \in first..last PROVE Pending(Fresh(first, last), page)
    <3>1. page - first + 1 \in 1..n /\ first + (page - first + 1) - 1 = page
      OBVIOUS
    <3>2. PICK j \in 1..n : first + j - 1 = page
      BY <3>1
    <3>3. Fresh(first, last)[j] = [page |-> first + j - 1, writable |-> TRUE, reuse |-> FALSE]
      BY <1>1
    <3> HIDE DEF n
    <3> QED
      BY <2>1, <3>2, <3>3 DEF Pending
  <2> QED
    <3> HIDE DEF n
    <3>1. ASSUME NEW i \in 1..n
          PROVE  Fresh(first, last)[i].writable /\ ~Fresh(first, last)[i].reuse
      <4>1. Fresh(first, last)[i] = [page |-> first + i - 1, writable |-> TRUE, reuse |-> FALSE]
        BY <1>1, Zenon
      <4> QED
        BY <4>1
    <3> QED
      BY <2>1, <2>2, <3>1, Zenon
<1>3. CASE n \notin Nat
  <2>1. 1..n = {} /\ first..last = {}
    BY <1>3
  <2>2. Fresh(first, last) = <<>>
    BY <2>1 DEF Fresh
  <2> QED
    BY <2>1, <2>2
<1> QED
  BY <1>2, <1>3

\* What elf_load_image() maps lies in the lower half, and has the stack in it.
LEMMA ImageType ==
  ASSUME NEW image \in Images
  PROVE  /\ ElfLoadImage(image) \in Seq(Wants)
         /\ \A i \in 1..Len(ElfLoadImage(image)) : IsUser(ElfLoadImage(image)[i].page)
         /\ image.valid => \A page \in StackBottom..StackTop : Pending(ElfLoadImage(image), page)
<1> DEFINE segments == [i \in 1..Len(image.segments) |->
             [page |-> image.segments[i].page, writable |-> image.segments[i].writable, reuse |-> TRUE]]
           stack == IF image.valid THEN Fresh(StackBottom, StackTop) ELSE <<>>
<1>1. image.segments \in Seq([page : 0..UserPages-1, writable : BOOLEAN])
  BY ImageAssumption, Zenon
<1>2. Len(image.segments) \in Nat
      /\ \A i \in 1..Len(image.segments) : image.segments[i] \in [page : 0..UserPages-1, writable : BOOLEAN]
  <2> DEFINE R == [page : 0..UserPages-1, writable : BOOLEAN]
             q == image.segments
  <2>1. q \in Seq(R)
    BY <1>1
  <2> HIDE DEF R, q
  <2>2. Len(q) \in Nat /\ \A i \in 1..Len(q) : q[i] \in R
    BY <2>1
  <2> QED
    BY <2>2 DEF R, q
<1>3. \A i \in 1..Len(image.segments) : segments[i] \in Wants /\ IsUser(segments[i].page)
  <2>1. ASSUME NEW i \in 1..Len(image.segments)
        PROVE  segments[i] \in Wants /\ IsUser(segments[i].page)
    <3>1. image.segments[i].page \in 0..UserPages-1 /\ image.segments[i].writable \in BOOLEAN
      BY <1>2, <2>1
    <3>2. image.segments[i].page \in 0..(HeapBase + HeapPages - 1) /\ IsUser(image.segments[i].page)
      BY <3>1, PageAssumption DEF IsUser
    <3>3. segments[i] = [page |-> image.segments[i].page, writable |-> image.segments[i].writable,
                         reuse |-> TRUE]
      BY <2>1
    <3> HIDE DEF segments
    <3> QED
      BY <3>1, <3>2, <3>3 DEF Wants
  <2> QED
    BY <2>1
<1>4. segments \in Seq(Wants) /\ Len(segments) = Len(image.segments)
  <2>1. segments \in [1..Len(image.segments) -> Wants]
    BY <1>3, Zenon
  <2>2. Len(image.segments) \in Nat
    BY <1>2
  <2> HIDE DEF segments
  <2> QED
    BY <2>1, <2>2
<1>5. stack \in Seq(Wants) /\ \A i \in 1..Len(stack) : IsUser(stack[i].page)
  <2>1. CASE image.valid
    <3>1. StackBottom \in Nat /\ StackTop \in Int /\ StackTop < HeapBase + HeapPages /\ StackTop < UserPages
      BY PageAssumption
    <3>2. stack = Fresh(StackBottom, StackTop)
      BY <2>1
    <3> HIDE DEF stack
    <3> QED
      BY <3>1, <3>2, FreshType
  <2>2. CASE ~image.valid
    <3>1. stack = <<>>
      BY <2>2
    <3> HIDE DEF stack
    <3>2. stack \in Seq(Wants) /\ Len(stack) = 0
      BY <3>1, EmptySequence
    <3> QED
      BY <3>2
  <2> QED
    BY <2>1, <2>2
<1>6. ElfLoadImage(image) = segments \o stack
  BY DEF ElfLoadImage
<1> HIDE DEF segments, stack
<1>7. /\ segments \o stack \in Seq(Wants)
      /\ Len(segments \o stack) = Len(segments) + Len(stack)
      /\ \A i \in 1..(Len(segments) + Len(stack)) :
           (segments \o stack)[i] = IF i <= Len(segments) THEN segments[i] ELSE stack[i - Len(segments)]
  <2>1. segments \in Seq(Wants)
    BY <1>4
  <2>2. stack \in Seq(Wants)
    BY <1>5
  <2> QED
    BY <2>1, <2>2, Concatenation, ZenonT(30)
<1>8. \A i \in 1..(Len(segments) + Len(stack)) : i <= Len(segments) \/ i - Len(segments) \in 1..Len(stack)
  BY <1>4, <1>5
<1>9. ASSUME image.valid, NEW page \in StackBottom..StackTop
      PROVE  Pending(segments \o stack, page)
  <2>1. stack = Fresh(StackBottom, StackTop)
    BY <1>9 DEF stack
  <2>2. PICK j \in 1..Len(stack) : stack[j].page = page
    <3>1. StackBottom \in Nat /\ StackTop \in Int
      BY PageAssumption
    <3>2. Pending(stack, page)
      BY <1>9, <2>1, <3>1, FreshPending, Zenon
    <3> QED
      BY <3>2 DEF Pending
  <2>3. Len(segments) \in Nat /\ Len(stack) \in Nat
    BY <1>4, <1>5
  <2>4. /\ Len(segments) + j \in 1..(Len(segments) + Len(stack))
        /\ ~(Len(segments) + j <= Len(segments)) /\ (Len(segments) + j) - Len(segments) = j
    BY <2>3
  <2>5. (segments \o stack)[Len(segments) + j] = stack[j]
    BY <1>7, <2>4
  <2> QED
    BY <1>7, <2>2, <2>4, <2>5 DEF Pending
<1> QED
  BY <1>2, <1>3, <1>4, <1>5, <1>6, <1>7, <1>8, <1>9

\* The initial state satisfies the invariant.
LEMMA InitIInv == Init => IInv
<1> SUFFICES ASSUME Init PROVE IInv
  OBVIOUS
<1>1. Fresh(HeapBase, HeapBase) \in Seq(Wants)
  <2>1. HeapBase \in Nat /\ HeapBase \in Int /\ HeapBase < HeapBase + HeapPages
    BY PageAssumption
  <2> QED
    BY <2>1, FreshType
<1>2. TypeOK
  BY <1>1, PageAssumption DEF Init, TypeOK, Pml4s, Call, NoProcess, Address, Calls, Processes
<1>3. FramesOwnedOnce /\ RunsOnLiveTables /\ KernelHalfShared
  BY DEF Init, FramesOwnedOnce, RunsOnLiveTables, KernelHalfShared, Owned, Pml4s, Held, Call, NoProcess, As
<1>4. CallOK
  BY PageAssumption DEF Init, CallOK, Call
<1>5. HeapFirst
  BY DEF Init, HeapFirst, Call, Pml4s
<1> QED
  BY <1>2, <1>3, <1>4, <1>5 DEF IInv

\* expand_heap() starts.
LEMMA ExpandHeapStep == IInv /\ ExpandHeap => IInv'
<1> SUFFICES ASSUME IInv, ExpandHeap PROVE IInv'
  OBVIOUS
<1> USE DEF ExpandHeap, Idle, Call
<1>1. heap_end \in Nat /\ heap_end < HeapBase + HeapPages /\ heap_end \in HeapBase..(HeapBase + HeapPages - 1)
  <2>1. heap_end \in HeapBase..(HeapBase + HeapPages) /\ heap_end < HeapBase + HeapPages
    BY Zenon DEF IInv, TypeOK
  <2> QED
    BY <2>1, PageNumbers
<1>2. Fresh(heap_end, heap_end) \in Seq(Wants)
  BY <1>1, FreshType
<1>3. TypeOK'
  BY <1>2, PageAssumption, Zenon DEF IInv, TypeOK, Pml4s, Live, Address, Calls
<1>4. FramesOwnedOnce'
  BY DEF IInv, FramesOwnedOnce, Owned, Pml4s, Held
<1>5. RunsOnLiveTables' /\ KernelHalfShared'
  BY DEF IInv, RunsOnLiveTables, KernelHalfShared, Pml4s, As
<1>6. CallOK'
  BY <1>1, PageAssumption DEF IInv, CallOK
<1>7. HeapFirst'
  BY DEF IInv, HeapFirst, Pml4s
<1> QED
  BY <1>3, <1>4, <1>5, <1>6, <1>7 DEF IInv

\* vmm_create_address_space() takes a frame nobody has, for a PML4 nobody has.
LEMMA CreateFacts ==
  ASSUME IInv, NEW a \in Lowest(Free), VmmCreateAddressSpace(a), call.op = "none",
         call.frame = 0, call'.frame = 0, entries' = entries, UNCHANGED <<heap_end, cr3, current>>
  PROVE  /\ a \in Frame /\ a \notin used /\ a \notin Pml4s /\ Pml4s' = Pml4s \cup {a}
         /\ used' \subseteq Frame /\ BootPml4 \in (DOMAIN khalf)'
         /\ (khalf \in [DOMAIN khalf -> SUBSET (BootTops \cup {Node(1, HeapBase)[2]})])'
         /\ (entries \subseteq Entries(DOMAIN khalf))'
         /\ FramesOwnedOnce' /\ KernelHalfShared' /\ HeapFirst'
<1>1. a \in Frame /\ a \notin used
  BY DEF Lowest, Free
<1>2. a \notin Pml4s /\ a # BootPml4
  BY <1>1 DEF IInv, FramesOwnedOnce, Owned
<1>3. DOMAIN khalf' = DOMAIN khalf \cup {a} /\ Pml4s' = Pml4s \cup {a}
  BY <1>2 DEF VmmCreateAddressSpace, Pml4s
<1>4. cr3 \in DOMAIN khalf
  BY DEF IInv, TypeOK, RunsOnLiveTables, As, Pml4s, Live
<1>5. \A b \in DOMAIN khalf' : khalf'[b] = khalf[BootPml4]
  BY <1>2, <1>3, <1>4 DEF IInv, KernelHalfShared, VmmCreateAddressSpace
<1>6. KernelHalfShared' /\ khalf'[BootPml4] = khalf[BootPml4]
  BY <1>3, <1>5 DEF IInv, TypeOK, KernelHalfShared
<1>7. FramesOwnedOnce'
  BY <1>1, <1>2, <1>3 DEF IInv, FramesOwnedOnce, Owned, Held, VmmCreateAddressSpace
<1>8. heap_end # HeapBase
  BY DEF IInv, HeapFirst
<1>9. HeapFirst'
  BY <1>6, <1>8 DEF IInv, HeapFirst
<1>10. (khalf \in [DOMAIN khalf -> SUBSET (BootTops \cup {Node(1, HeapBase)[2]})])'
  <2>1. khalf[BootPml4] \in SUBSET (BootTops \cup {Node(1, HeapBase)[2]})
    BY DEF IInv, TypeOK
  <2>2. khalf' = [b \in DOMAIN khalf \cup {a} |-> IF b = a THEN khalf[cr3] ELSE khalf[b]]
    BY DEF VmmCreateAddressSpace
  <2> QED
    BY <1>3, <1>5, <2>1, <2>2, Zenon
<1>11. (entries \subseteq Entries(DOMAIN khalf))'
  BY <1>3 DEF IInv, TypeOK, Entries
<1> QED
  BY <1>1, <1>2, <1>3, <1>6, <1>7, <1>9, <1>10, <1>11, Zenon DEF IInv, TypeOK, VmmCreateAddressSpace

\* spawn creates a process.
LEMMA ProcessCreateStep ==
  ASSUME IInv, NEW p \in Pid, NEW image \in Images, ProcessCreate(p, image)
  PROVE  IInv'
<1> USE DEF Idle, Call
<1>1. PICK a \in Lowest(Free), b \in Garbage, c \in Garbage :
        /\ VmmCreateAddressSpace(a)
        /\ proc' = [proc EXCEPT ![p] = [state |-> "new", parent |-> current, as |-> a,
                                        brk_start |-> b, brk |-> c, known |-> FALSE]]
        /\ call' = Call("spawn", p, a, ElfLoadImage(image), image.valid)
  BY Zenon DEF ProcessCreate
<1>2. /\ a \in Frame /\ a \notin used /\ a \notin Pml4s /\ Pml4s' = Pml4s \cup {a}
      /\ used' \subseteq Frame /\ BootPml4 \in (DOMAIN khalf)'
      /\ (khalf \in [DOMAIN khalf -> SUBSET (BootTops \cup {Node(1, HeapBase)[2]})])'
      /\ (entries \subseteq Entries(DOMAIN khalf))'
      /\ FramesOwnedOnce' /\ KernelHalfShared' /\ HeapFirst'
  BY <1>1, CreateFacts DEF ProcessCreate
<1>3. current \in Pid \cup {0} /\ proc[p].state = "none" /\ call = Idle
  BY DEF IInv, TypeOK, Live, ProcessCreate
<1>4. proc' \in [Pid -> Processes]
  BY <1>1, <1>2, <1>3, PageAssumption DEF IInv, TypeOK, Processes
<1>5. Live' = Live
  BY <1>1, <1>3 DEF IInv, TypeOK, Live
<1>6. TypeOK'
  <2>1. call' \in Calls
    <3>1. image.valid \in BOOLEAN /\ ElfLoadImage(image) \in Seq(Wants) /\ 0 \in Address
      BY ImageType, ImageAssumption, PageAssumption DEF Address
    <3> QED
      BY <1>1, <1>2, <3>1 DEF Calls
  <2> QED
    BY <1>2, <1>4, <1>5, <2>1 DEF IInv, TypeOK, ProcessCreate
<1>7. RunsOnLiveTables'
  BY <1>1, <1>2, <1>3, <1>5 DEF IInv, TypeOK, Live, RunsOnLiveTables, As, ProcessCreate
<1>8. CallOK'
  BY <1>1, <1>3, ImageType DEF IInv, TypeOK, CallOK
<1> QED
  BY <1>2, <1>6, <1>7, <1>8 DEF IInv

\* execve creates an address space no process has.
LEMMA SysExecveStep ==
  ASSUME IInv, NEW image \in Images, SysExecve(image)
  PROVE  IInv'
<1> USE DEF Idle, Call
<1>1. PICK a \in Lowest(Free) :
        /\ VmmCreateAddressSpace(a)
        /\ call' = Call("execve", current, a, ElfLoadImage(image), image.valid)
  BY DEF SysExecve
<1>2. /\ a \in Frame /\ a \notin used /\ a \notin Pml4s /\ Pml4s' = Pml4s \cup {a}
      /\ used' \subseteq Frame /\ BootPml4 \in (DOMAIN khalf)'
      /\ (khalf \in [DOMAIN khalf -> SUBSET (BootTops \cup {Node(1, HeapBase)[2]})])'
      /\ (entries \subseteq Entries(DOMAIN khalf))'
      /\ FramesOwnedOnce' /\ KernelHalfShared' /\ HeapFirst'
  BY <1>1, CreateFacts DEF SysExecve
<1>3. current \in Pid /\ call = Idle
  BY DEF IInv, TypeOK, Live, SysExecve
<1>4. TypeOK'
  <2>1. image.valid \in BOOLEAN /\ ElfLoadImage(image) \in Seq(Wants) /\ 0 \in Address
    BY ImageType, ImageAssumption, PageAssumption DEF Address
  <2>2. call' \in Calls
    BY <1>1, <1>2, <1>3, <2>1 DEF Calls
  <2> QED
    BY <1>2, <2>2 DEF IInv, TypeOK, SysExecve, Live
<1>5. RunsOnLiveTables'
  BY <1>1, <1>2, <1>3 DEF IInv, TypeOK, RunsOnLiveTables, As, SysExecve
<1>6. CallOK'
  BY <1>1, <1>2, <1>3, ImageType DEF IInv, RunsOnLiveTables, CallOK, SysExecve
<1> QED
  BY <1>2, <1>4, <1>5, <1>6 DEF IInv

\* brk upwards starts.
LEMMA SysBrkGrowStep ==
  ASSUME IInv, NEW new \in BrkRequests, SysBrkGrow(new)
  PROVE  IInv'
<1> USE DEF Idle, Call, SysBrkGrow
<1> DEFINE todo == Fresh(PageUp(proc[current].brk), PageUp(new) - 1)
<1>1. current \in Pid /\ proc[current].state # "none" /\ proc[current].brk \in Address /\ new \in Address
  <2>1. current \in Pid /\ proc[current].state = "live" /\ proc[current] \in Processes
    BY DEF IInv, TypeOK, Live
  <2>2. new \in Address
    BY PageAssumption, Zenon
  <2> QED
    BY <2>1, <2>2 DEF Processes
<1>2. PageUp(proc[current].brk) \in Nat /\ PageUp(new) - 1 \in Int
      /\ PageUp(new) - 1 < UserPages /\ PageUp(new) - 1 < HeapBase + HeapPages
  <2>1. PageUp(proc[current].brk) \in Nat /\ PageUp(new) \in Nat /\ PageUp(new) <= UserPages
    BY <1>1, PageUpType, BrkAssumption
  <2> QED
    BY <2>1, PageNumbers
<1>3. todo \in Seq(Wants) /\ \A i \in 1..Len(todo) : IsUser(todo[i].page)
  BY <1>2, FreshType
<1> HIDE DEF todo
<1>4. call' = [op |-> "brk", pid |-> current, as |-> proc[current].as, todo |-> todo, frame |-> 0,
               valid |-> TRUE, brk |-> new]
  BY <1>1, Zenon DEF As, todo
<1>5. proc[current].as \in Pml4s
  BY <1>1 DEF IInv, RunsOnLiveTables
<1>6. TypeOK'
  <2>1. call' \in Calls
    <3> HIDE DEF Idle, Call, SysBrkGrow
    <3>1. proc[current].as \in Frame
      BY <1>5 DEF IInv, TypeOK
    <3> QED
      BY <1>1, <1>3, <1>4, <3>1 DEF Calls
  <2> QED
    BY <2>1 DEF IInv, TypeOK, Pml4s, Live
<1>7. FramesOwnedOnce'
  BY <1>4 DEF IInv, FramesOwnedOnce, Owned, Pml4s, Held
<1>8. RunsOnLiveTables' /\ KernelHalfShared'
  BY <1>4 DEF IInv, RunsOnLiveTables, KernelHalfShared, Pml4s, As
<1>9. CallOK'
  BY <1>3, <1>4 DEF IInv, CallOK
<1>10. HeapFirst'
  BY <1>4 DEF IInv, HeapFirst, Pml4s
<1> QED
  BY <1>6, <1>7, <1>8, <1>9, <1>10 DEF IInv

\* brk downwards unmaps pages and frees their frames.
LEMMA SysBrkShrinkStep ==
  ASSUME IInv, NEW new \in BrkRequests, SysBrkShrink(new)
  PROVE  IInv'
<1> USE DEF Idle, Call
<1> DEFINE gone == {e \in entries : /\ e.as = As(current) /\ e.node[1] = Levels
                               /\ e.node[2] \in PageUp(new)..(PageUp(proc[current].brk) - 1)}
<1>1. /\ call = Idle /\ current # 0 /\ entries' = entries \ gone
      /\ used' = used \ {e.frame : e \in gone}
      /\ proc' = [proc EXCEPT ![current].brk = new]
      /\ UNCHANGED <<khalf, current, cr3, heap_end, call>>
  BY DEF SysBrkShrink, VmmUnmapPages
<1>2. gone \subseteq entries
  OBVIOUS
<1> HIDE DEF gone
<1>3. current \in Pid /\ new \in Address
  BY <1>1, PageAssumption DEF IInv, TypeOK, Live
<1>4. /\ \A p \in Pid : proc'[p].state = proc[p].state /\ proc'[p].as = proc[p].as
      /\ proc' \in [Pid -> Processes]
  <2>1. proc \in [Pid -> Processes]
    BY DEF IInv, TypeOK
  <2>2. proc' = [proc EXCEPT ![current] = [proc[current] EXCEPT !.brk = new]]
    BY <1>1
  <2> QED
    BY <1>3, <2>1, <2>2 DEF Processes
<1>5. TypeOK'
  BY <1>1, <1>2, <1>3, <1>4 DEF IInv, TypeOK, Pml4s, Live
<1>6. FramesOwnedOnce'
  BY <1>1, <1>2 DEF IInv, FramesOwnedOnce, Owned, Pml4s, Held
<1>7. RunsOnLiveTables' /\ KernelHalfShared'
  BY <1>1, <1>3, <1>4 DEF IInv, TypeOK, RunsOnLiveTables, KernelHalfShared, Pml4s, As
<1>8. CallOK' /\ HeapFirst'
  BY <1>1 DEF IInv, CallOK, HeapFirst, Pml4s
<1> QED
  BY <1>5, <1>6, <1>7, <1>8 DEF IInv

(* How calls end *)

\* vmm_destroy_address_space() frees what only this address space had.
LEMMA DestroyFacts ==
  ASSUME IInv, NEW a \in Pml4s, VmmDestroyAddressSpace(a), call.frame = 0, call'.frame = 0,
         UNCHANGED heap_end, call.op # "heap", call.op # "panic"
  PROVE  /\ Pml4s' = Pml4s \ {a} /\ a \notin used' /\ used' \subseteq Frame
         /\ BootPml4 \in (DOMAIN khalf)'
         /\ (khalf \in [DOMAIN khalf -> SUBSET (BootTops \cup {Node(1, HeapBase)[2]})])'
         /\ (entries \subseteq Entries(DOMAIN khalf))'
         /\ FramesOwnedOnce' /\ KernelHalfShared' /\ HeapFirst'
<1>1. DOMAIN khalf' = DOMAIN khalf \ {a} /\ \A b \in DOMAIN khalf \ {a} : khalf'[b] = khalf[b]
  BY DEF VmmDestroyAddressSpace, Without
<1>2. Pml4s' = Pml4s \ {a} /\ a # BootPml4 /\ BootPml4 \in DOMAIN khalf'
  BY <1>1 DEF Pml4s, IInv, TypeOK
<1>3. KernelHalfShared' /\ khalf'[BootPml4] = khalf[BootPml4]
  BY <1>1, <1>2 DEF IInv, KernelHalfShared
<1>4. HeapFirst'
  BY <1>3 DEF IInv, HeapFirst
<1>5. entries' = {e \in entries : e.as # a} /\ used' = used \ TableFrames(a)
  BY DEF VmmDestroyAddressSpace, EntriesBut
<1>6. \A e \in entries' : e.frame \notin TableFrames(a)
  BY <1>5 DEF TableFrames, IInv, FramesOwnedOnce
<1>7. \A b \in Pml4s' : b \notin TableFrames(a)
  BY <1>2 DEF TableFrames, IInv, FramesOwnedOnce
<1>8. FramesOwnedOnce'
  <2>1. Held' = {}
    BY DEF Held
  <2>2. \A e \in entries' : e.frame \in used' /\ e.frame \notin Pml4s'
    BY <1>2, <1>5, <1>6 DEF IInv, FramesOwnedOnce, Owned
  <2>3. Pml4s' \subseteq used'
    BY <1>2, <1>5, <1>7 DEF IInv, FramesOwnedOnce, Owned
  <2>4. \A e, f \in entries' : e.frame = f.frame => e = f
    BY <1>5 DEF IInv, FramesOwnedOnce
  <2> QED
    BY <2>1, <2>2, <2>3, <2>4 DEF FramesOwnedOnce, Owned
<1>9. a \notin used' /\ used' \subseteq Frame
  BY <1>5 DEF TableFrames, IInv, TypeOK
<1>10. (khalf \in [DOMAIN khalf -> SUBSET (BootTops \cup {Node(1, HeapBase)[2]})])'
  <2>1. khalf' = [y \in DOMAIN khalf \ {a} |-> khalf[y]]
    BY DEF VmmDestroyAddressSpace, Without
  <2> QED
    BY <1>1, <2>1 DEF IInv, TypeOK
<1>11. (entries \subseteq Entries(DOMAIN khalf))'
  BY <1>1, <1>5 DEF IInv, TypeOK, Entries
<1> QED
  BY <1>2, <1>3, <1>4, <1>8, <1>9, <1>10, <1>11
\* Between calls nothing is held and nothing is left to map.
LEMMA IdleType == Idle \in Calls /\ Panic \in Calls
  BY PageAssumption DEF Idle, Panic, Call, Calls, Address

LEMMA HeapReturnsStep == IInv /\ HeapReturns => IInv'
<1> SUFFICES ASSUME IInv, HeapReturns PROVE IInv'
  OBVIOUS
<1>1. /\ call' \in {Idle, Panic} /\ (heap_end = HeapBase => call' = Panic)
      /\ call.op = "heap" /\ call.frame = 0
      /\ UNCHANGED <<used, khalf, entries, proc, current, cr3, heap_end>>
  BY DEF HeapReturns, IInv, CallOK
<1>2. /\ call'.op \in {"none", "panic"} /\ (call' = Panic => call'.op = "panic")
      /\ call'.todo = <<>> /\ call'.frame = 0
  BY <1>1 DEF Idle, Panic, Call
<1>3. TypeOK'
  BY <1>1, IdleType DEF IInv, TypeOK, Pml4s, Live
<1>4. FramesOwnedOnce'
  BY <1>1, <1>2 DEF IInv, FramesOwnedOnce, Owned, Pml4s, Held
<1>5. RunsOnLiveTables' /\ KernelHalfShared' /\ HeapFirst'
  BY <1>1, <1>2 DEF IInv, RunsOnLiveTables, KernelHalfShared, HeapFirst, Pml4s, As
<1>6. CallOK'
  BY <1>2 DEF CallOK
<1> QED
  BY <1>3, <1>4, <1>5, <1>6 DEF IInv

\* A call that ends well and frees nothing: spawn and brk.
LEMMA ReturnFacts ==
  ASSUME IInv, call.frame = 0, call' = Idle, call.op \in {"spawn", "brk"},
         UNCHANGED <<used, khalf, entries, current, cr3, heap_end>>,
         proc' \in [Pid -> Processes],
         \A p \in Pid : /\ proc'[p].as = proc[p].as
                        /\ proc'[p].state # "none" => proc[p].state # "none"
                        /\ proc[p].state = "live" => proc'[p].state = "live"
  PROVE  IInv'
<1>1. call'.op = "none" /\ call'.todo = <<>> /\ call'.frame = 0
  BY DEF Idle, Call
<1>2. TypeOK'
  BY IdleType DEF IInv, TypeOK, Pml4s, Live
<1>3. FramesOwnedOnce'
  BY <1>1 DEF IInv, FramesOwnedOnce, Owned, Pml4s, Held
<1>4. KernelHalfShared' /\ HeapFirst'
  BY <1>1 DEF IInv, KernelHalfShared, HeapFirst, Pml4s
<1>5. RunsOnLiveTables'
  BY <1>1 DEF IInv, TypeOK, Live, RunsOnLiveTables, Pml4s, As
<1>6. CallOK'
  BY <1>1 DEF CallOK
<1> QED
  BY <1>2, <1>3, <1>4, <1>5, <1>6 DEF IInv

LEMMA SpawnSucceedsStep == IInv /\ SpawnSucceeds => IInv'
<1> SUFFICES ASSUME IInv, SpawnSucceeds PROVE IInv'
  OBVIOUS
<1>1. call.pid \in Pid /\ proc[call.pid].state = "new" /\ call.frame = 0
  BY DEF IInv, CallOK, SpawnSucceeds
<1>2. proc \in [Pid -> Processes] /\ BrkStart \in Address
  BY PageAssumption DEF IInv, TypeOK
<1>3. proc' \in [Pid -> Processes]
  <2> DEFINE q == proc[call.pid]
  <2>1. q \in Processes
    BY <1>1, <1>2, Zenon
  <2>2. [q EXCEPT !.state = "live"] \in Processes
    BY <2>1 DEF Processes
  <2>3. [q EXCEPT !.state = "live", !.brk_start = BrkStart, !.brk = BrkStart, !.known = TRUE] \in Processes
    BY <1>2, <2>1, Zenon DEF Processes
  <2>4. \/ proc' = [proc EXCEPT ![call.pid] = [q EXCEPT !.state = "live"]]
        \/ proc' = [proc EXCEPT ![call.pid] = [q EXCEPT !.state = "live", !.brk_start = BrkStart,
                                                        !.brk = BrkStart, !.known = TRUE]]
    BY DEF SpawnSucceeds
  <2> HIDE DEF q
  <2> QED
    BY <1>1, <1>2, <2>2, <2>3, <2>4
<1>4. \A p \in Pid : /\ proc'[p].as = proc[p].as
                     /\ proc'[p].state # "none" => proc[p].state # "none"
                     /\ proc[p].state = "live" => proc'[p].state = "live"
  BY <1>1, <1>2 DEF SpawnSucceeds, Processes
<1> QED
  BY <1>1, <1>3, <1>4, ReturnFacts DEF SpawnSucceeds

LEMMA BrkReturnsStep == IInv /\ BrkReturns => IInv'
<1> SUFFICES ASSUME IInv, BrkReturns PROVE IInv'
  OBVIOUS
<1>1. current \in Pid /\ call.frame = 0 /\ call.brk \in Address
  BY DEF IInv, TypeOK, CallOK, Live, Calls, BrkReturns
<1>2. proc \in [Pid -> Processes]
  BY DEF IInv, TypeOK
<1>3. proc' \in [Pid -> Processes]
  <2> DEFINE q == proc[current]
             known == q.known /\ call.brk + PageSize <= AddressEnd
  <2>1. q \in Processes
    BY <1>1, <1>2
  <2>2. known \in BOOLEAN
    OBVIOUS
  <2>3. proc' = proc \/ proc' = [proc EXCEPT ![current] = [q EXCEPT !.brk = call.brk, !.known = known]]
    BY Zenon DEF BrkReturns
  <2> HIDE DEF known, q
  <2>4. [q EXCEPT !.brk = call.brk, !.known = known] \in Processes
    BY <1>1, <2>1, <2>2, Zenon DEF Processes
  <2> QED
    BY <1>1, <1>2, <2>3, <2>4
<1>4. \A p \in Pid : proc'[p].as = proc[p].as /\ proc'[p].state = proc[p].state
  BY <1>1, <1>2 DEF BrkReturns, Processes
<1> QED
  BY <1>1, <1>3, <1>4, ReturnFacts DEF BrkReturns

LEMMA SpawnFailsStep == IInv /\ SpawnFails => IInv'
<1> SUFFICES ASSUME IInv, SpawnFails PROVE IInv'
  OBVIOUS
<1>1. /\ call.op = "spawn" /\ call.todo = <<>> /\ call.frame = 0 /\ call.pid \in Pid
      /\ proc[call.pid].state = "new" /\ call.as = proc[call.pid].as /\ UNCHANGED <<current, cr3, heap_end>>
  BY DEF IInv, CallOK, SpawnFails
<1>2. CASE current = 0 /\ call' = Panic /\ UNCHANGED <<used, khalf, entries, proc>>
  <2>1. call'.op = "panic" /\ call'.todo = <<>> /\ call'.frame = 0
    BY <1>2 DEF Panic, Call
  <2>2. TypeOK'
    BY <1>1, <1>2, IdleType DEF IInv, TypeOK, Pml4s, Live
  <2>3. FramesOwnedOnce'
    BY <1>1, <1>2, <2>1 DEF IInv, FramesOwnedOnce, Owned, Pml4s, Held
  <2>4. RunsOnLiveTables' /\ KernelHalfShared' /\ HeapFirst'
    BY <1>1, <1>2, <2>1 DEF IInv, RunsOnLiveTables, KernelHalfShared, HeapFirst, Pml4s, As
  <2>5. CallOK'
    BY <2>1 DEF CallOK
  <2> QED
    BY <2>2, <2>3, <2>4, <2>5 DEF IInv
<1>3. CASE /\ current # 0 /\ VmmDestroyAddressSpace(call.as) /\ call' = Idle
           /\ proc' = [proc EXCEPT ![call.pid] = NoProcess]
  <2>1. call.as \in Pml4s /\ current \in Pid /\ current # call.pid
    BY <1>1, <1>3 DEF IInv, TypeOK, Live, RunsOnLiveTables
  <2>2. call'.op = "none" /\ call'.todo = <<>> /\ call'.frame = 0
    BY <1>3 DEF Idle, Call
  <2>3. /\ Pml4s' = Pml4s \ {call.as} /\ used' \subseteq Frame
        /\ BootPml4 \in (DOMAIN khalf)'
        /\ (khalf \in [DOMAIN khalf -> SUBSET (BootTops \cup {Node(1, HeapBase)[2]})])'
        /\ (entries \subseteq Entries(DOMAIN khalf))'
        /\ FramesOwnedOnce' /\ KernelHalfShared' /\ HeapFirst'
    BY <1>1, <1>3, <2>1, <2>2, DestroyFacts
  <2>4. proc \in [Pid -> Processes] /\ NoProcess \in Processes
    BY PageAssumption DEF IInv, TypeOK, NoProcess, Processes, Address
  <2>5. proc' \in [Pid -> Processes] /\ current \in Live'
    BY <1>1, <1>3, <2>1, <2>4 DEF IInv, TypeOK, Live
  <2>6. TypeOK'
    BY <1>1, <1>3, <2>3, <2>5, IdleType DEF IInv, TypeOK
  <2>7. RunsOnLiveTables'
    BY <1>1, <1>3, <2>1, <2>2, <2>3, <2>4 DEF IInv, RunsOnLiveTables, As, NoProcess
  <2>8. CallOK'
    BY <2>2 DEF CallOK
  <2> QED
    BY <2>3, <2>6, <2>7, <2>8 DEF IInv
<1> QED
  BY <1>2, <1>3 DEF SpawnFails

LEMMA ExecveFailsStep == IInv /\ ExecveFails => IInv'
<1> SUFFICES ASSUME IInv, ExecveFails PROVE IInv'
  OBVIOUS
<1>1. /\ call.op = "execve" /\ call.frame = 0 /\ call.as \in Pml4s /\ VmmDestroyAddressSpace(call.as)
      /\ call' = Idle /\ UNCHANGED <<proc, current, cr3, heap_end>>
      /\ \A p \in Pid : proc[p].state # "none" => proc[p].as # call.as
  BY DEF IInv, CallOK, ExecveFails
<1>2. call'.op = "none" /\ call'.todo = <<>> /\ call'.frame = 0
  BY <1>1 DEF Idle, Call
<1>3. /\ Pml4s' = Pml4s \ {call.as} /\ used' \subseteq Frame
      /\ BootPml4 \in (DOMAIN khalf)'
      /\ (khalf \in [DOMAIN khalf -> SUBSET (BootTops \cup {Node(1, HeapBase)[2]})])'
      /\ (entries \subseteq Entries(DOMAIN khalf))'
      /\ FramesOwnedOnce' /\ KernelHalfShared' /\ HeapFirst'
  BY <1>1, <1>2, DestroyFacts
<1>4. TypeOK'
  BY <1>1, <1>3, IdleType DEF IInv, TypeOK, Live
<1>5. RunsOnLiveTables'
  BY <1>1, <1>2, <1>3 DEF IInv, RunsOnLiveTables, As
<1>6. CallOK'
  BY <1>2 DEF CallOK
<1> QED
  BY <1>3, <1>4, <1>5, <1>6 DEF IInv

-----------------------------------------------------------------------------
(* Mapping the pages of a call, execve's switch, and processes *)

\* What is known of the page a call is about to map.
LEMMA WantedFacts ==
  ASSUME IInv, call.todo # <<>>
  PROVE  /\ Wanted \in Wants /\ Tail(call.todo) \in Seq(Wants)
         /\ call.op \in {"heap", "spawn", "execve", "brk"}
         /\ call.as \in DOMAIN khalf
         /\ call.op # "heap" => /\ IsUser(Wanted.page)
                                /\ \A i \in 1..Len(Tail(call.todo)) : IsUser(Tail(call.todo)[i].page)
         /\ call.op = "heap" => /\ call.as = BootPml4 /\ Tail(call.todo) = <<>>
                                /\ Node(1, Wanted.page) = Node(1, HeapBase) /\ ~IsUser(Wanted.page)
                                /\ heap_end < HeapBase + HeapPages
<1>1. call.todo \in Seq(Wants) /\ call.op \in {"heap", "spawn", "execve", "brk"}
  BY DEF IInv, TypeOK, CallOK, Calls
<1>2. /\ Head(call.todo) \in Wants /\ Tail(call.todo) \in Seq(Wants)
      /\ Len(Tail(call.todo)) = Len(call.todo) - 1
      /\ \A i \in 1..Len(Tail(call.todo)) : Tail(call.todo)[i] = call.todo[i+1]
      /\ Len(call.todo) \in Nat \ {0} /\ Head(call.todo) = call.todo[1]
  BY <1>1
<1>3. call.as \in DOMAIN khalf
  <2>1. CASE call.op = "heap"
    BY <2>1 DEF IInv, TypeOK, CallOK
  <2>2. CASE call.op \in {"spawn", "brk"}
    BY <2>2 DEF IInv, TypeOK, CallOK, RunsOnLiveTables, Pml4s, Live
  <2>3. CASE call.op = "execve"
    BY <2>3 DEF IInv, CallOK, Pml4s
  <2> QED
    BY <1>1, <2>1, <2>2, <2>3
<1>4. ASSUME call.op # "heap"
      PROVE  /\ IsUser(Wanted.page)
             /\ \A i \in 1..Len(Tail(call.todo)) : IsUser(Tail(call.todo)[i].page)
  <2>1. \A i \in 1..Len(call.todo) : IsUser(call.todo[i].page)
    BY <1>4 DEF IInv, CallOK
  <2>2. \A i \in 1..Len(Tail(call.todo)) : i + 1 \in 1..Len(call.todo)
    BY <1>2
  <2>3. 1 \in 1..Len(call.todo)
    BY <1>2
  <2> QED
    BY <1>2, <2>1, <2>2, <2>3 DEF Wanted
<1>5. ASSUME call.op = "heap"
      PROVE  /\ call.as = BootPml4 /\ Tail(call.todo) = <<>>
             /\ Node(1, Wanted.page) = Node(1, HeapBase) /\ ~IsUser(Wanted.page)
             /\ heap_end < HeapBase + HeapPages
  <2>1. PICK h \in HeapBase..(HeapBase + HeapPages - 1) : call.todo = Fresh(h, h)
    BY <1>5 DEF IInv, CallOK
  <2>2. h \in Nat
    BY PageNumbers, HeapAssumption
  <2>3. Wanted.page = h
    BY <1>2, <2>1, <2>2, FreshOne, Zenon DEF Wanted
  <2>4. Len(call.todo) = 1
    BY <2>1, <2>2, FreshOne, Zenon
  <2>5. Tail(call.todo) = <<>>
    <3>1. Tail(call.todo) \in Seq(Wants) /\ Len(Tail(call.todo)) = 0
      BY <1>2, <2>4
    <3> QED
      BY <3>1, EmptySequence, Zenon
  <2> QED
    BY <1>5, <2>3, <2>5, HeapAssumption, PageAssumption DEF IInv, CallOK, IsUser
<1> QED
  BY <1>1, <1>2, <1>3, <1>4, <1>5 DEF Wanted

\* Widening permissions moves no frame.
LEMMA WidenedFacts ==
  ASSUME IInv
  PROVE  /\ Widened \subseteq Entries(DOMAIN khalf)
         /\ \A e \in Widened : \E o \in entries : o.frame = e.frame
         /\ \A e, f \in Widened : e.frame = f.frame => e = f
<1> DEFINE W(e) == IF /\ Wanted.writable /\ e.as = Holder(call.as, Wanted.page)
                      /\ \E k \in Table : e.node = Node(k, Wanted.page)
                   THEN [e EXCEPT !.writable = TRUE] ELSE e
<1>1. Widened = {W(e) : e \in entries}
  BY DEF Widened
<1>2. \A e \in entries : /\ W(e) \in Entries(DOMAIN khalf)
                         /\ W(e).frame = e.frame
  <2> TAKE e \in entries
  <2>1. e \in Entries(DOMAIN khalf)
    BY DEF IInv, TypeOK
  <2> QED
    BY <2>1, Zenon DEF Entries
<1>3. \A e, f \in entries : e.frame = f.frame => e = f
  BY DEF IInv, FramesOwnedOnce
<1> HIDE DEF W
<1> QED
  BY <1>1, <1>2, <1>3

\* Nobody else owns the frames of the widened entries.
LEMMA WidenedOwned ==
  ASSUME IInv
  PROVE  /\ \A e \in Widened : e.frame \in used /\ e.frame \notin Pml4s /\ e.frame \notin Held
         /\ Pml4s \subseteq used /\ Held \subseteq used /\ Pml4s \cap Held = {}
<1>1. /\ \A e \in entries : e.frame \in used /\ e.frame \notin Pml4s /\ e.frame \notin Held
      /\ Pml4s \subseteq used /\ Held \subseteq used /\ Pml4s \cap Held = {}
  BY Zenon DEF IInv, FramesOwnedOnce, Owned
<1> QED
  BY <1>1, WidenedFacts, Zenon

\* FramesOwnedOnce after a step, frame by frame.
LEMMA OwnedOnceAfter ==
  ASSUME \A e \in entries' : e.frame \in used' /\ e.frame \notin Pml4s' /\ e.frame \notin Held',
         \A e, f \in entries' : e.frame = f.frame => e = f,
         Pml4s' \subseteq used', Held' \subseteq used', Pml4s' \cap Held' = {}
  PROVE  FramesOwnedOnce'
BY Zenon DEF FramesOwnedOnce, Owned

\* A call that gives up has no frame and nothing left to map.
LEMMA FailedFacts ==
  ASSUME IInv, call' = Failed, UNCHANGED <<proc, current, heap_end>>, Pml4s' = Pml4s
  PROVE  /\ call' \in Calls
         /\ CallOK' /\ Held' = {} /\ call'.op = call.op
<1>1. call \in Calls
  BY DEF IInv, TypeOK
<1>2. /\ call'.op = call.op /\ call'.pid = call.pid /\ call'.as = call.as /\ call'.todo = <<>>
      /\ call'.frame = 0
      /\ call' \in Calls
  <2>1. <<>> \in Seq(Wants)
    BY EmptySequence
  <2> QED
    BY <1>1, <2>1, Zenon DEF Failed, Calls
<1>3. CallOK
  BY DEF IInv
<1>4. CallOK'
  BY <1>2, <1>3 DEF CallOK
<1> QED
  BY <1>2, <1>4 DEF Held

\* Going on to the next page.
LEMMA NextPageFacts ==
  ASSUME IInv, call.todo # <<>>, call' = [call EXCEPT !.todo = Tail(@), !.frame = 0],
         UNCHANGED <<proc, current>>, Pml4s' = Pml4s
  PROVE  call' \in Calls /\ CallOK' /\ call'.op = call.op /\ Held' = {}
<1>1. call \in Calls
  BY DEF IInv, TypeOK
<1>2. /\ call'.op = call.op /\ call'.pid = call.pid /\ call'.as = call.as
      /\ call'.todo = Tail(call.todo) /\ call'.frame = 0 /\ call' \in Calls
  BY <1>1, WantedFacts, Zenon DEF Calls
<1>3. CallOK'
  BY <1>2, WantedFacts DEF IInv, CallOK
<1> QED
  BY <1>2, <1>3 DEF Held

LEMMA ReusePageStep == IInv /\ ReusePage => IInv'
<1> SUFFICES ASSUME IInv, ReusePage PROVE IInv'
  OBVIOUS
<1>1. /\ call.todo # <<>> /\ call.frame = 0 /\ call' = [call EXCEPT !.todo = Tail(@)]
      /\ UNCHANGED <<used, khalf, entries, proc, current, cr3, heap_end>>
  BY DEF ReusePage
<1>2. call' = [call EXCEPT !.todo = Tail(@), !.frame = 0]
  BY <1>1, Zenon DEF IInv, TypeOK, Calls
<1>3. call' \in Calls /\ CallOK' /\ call'.op = call.op /\ Held' = {}
  BY <1>1, <1>2, NextPageFacts, Zenon DEF Pml4s
<1>4. TypeOK'
  BY <1>1, <1>3 DEF IInv, TypeOK, Pml4s, Live
<1>5. FramesOwnedOnce'
  BY <1>1, <1>3 DEF IInv, FramesOwnedOnce, Owned, Pml4s
<1>6. RunsOnLiveTables' /\ KernelHalfShared' /\ HeapFirst'
  BY <1>1, <1>3 DEF IInv, RunsOnLiveTables, KernelHalfShared, HeapFirst, Pml4s, As
<1> QED
  BY <1>3, <1>4, <1>5, <1>6 DEF IInv

LEMMA AllocPageStep == IInv /\ AllocPage => IInv'
<1> SUFFICES ASSUME IInv, AllocPage PROVE IInv'
  OBVIOUS
<1>1. /\ call.todo # <<>> /\ call.frame = 0
      /\ UNCHANGED <<khalf, entries, proc, current, cr3, heap_end>>
  BY DEF AllocPage
<1>2. CASE call' = Failed /\ used' = used
  <2>1. call' \in Calls /\ CallOK' /\ Held' = {} /\ call'.op = call.op
    BY <1>1, <1>2, FailedFacts DEF Pml4s
  <2>2. TypeOK'
    BY <1>1, <1>2, <2>1 DEF IInv, TypeOK, Pml4s, Live
  <2>3. FramesOwnedOnce'
    BY <1>1, <1>2, <2>1 DEF IInv, FramesOwnedOnce, Owned, Pml4s
  <2>4. RunsOnLiveTables' /\ KernelHalfShared' /\ HeapFirst'
    BY <1>1, <1>2, <2>1 DEF IInv, RunsOnLiveTables, KernelHalfShared, HeapFirst, Pml4s, As
  <2> QED
    BY <2>1, <2>2, <2>3, <2>4 DEF IInv
<1>3. ASSUME NEW f \in Lowest(Free), call' = [call EXCEPT !.frame = f], used' = used \cup {f}
      PROVE  IInv'
  <2>1. f \in Frame /\ f \notin used /\ f # 0
    BY DEF Lowest, Free
  <2>2. /\ call' \in Calls /\ call'.op = call.op /\ call'.pid = call.pid /\ call'.as = call.as
        /\ call'.todo = call.todo /\ call'.frame = f
    BY <1>3, <2>1, Zenon DEF IInv, TypeOK, Calls
  <2>3. CallOK'
    BY <1>1, <2>2 DEF IInv, CallOK, Pml4s
  <2>4. TypeOK'
    BY <1>1, <1>3, <2>1, <2>2 DEF IInv, TypeOK, Pml4s, Live
  <2>5. FramesOwnedOnce'
    BY <1>1, <1>3, <2>1, <2>2 DEF IInv, FramesOwnedOnce, Owned, Pml4s, Held
  <2>6. call.op # "install"
    BY <1>1, WantedFacts
  <2>7. RunsOnLiveTables' /\ KernelHalfShared' /\ HeapFirst'
    BY <1>1, <2>2, <2>6 DEF IInv, RunsOnLiveTables, KernelHalfShared, HeapFirst, Pml4s, As
  <2> QED
    BY <2>3, <2>4, <2>5, <2>7 DEF IInv
<1> QED
  BY <1>2, <1>3 DEF AllocPage

\* A walk that fails gives the page back and leaves the tables.
LEMMA WalkFailsStep ==
  ASSUME IInv, call.todo # <<>>, call.frame # 0, entries' = Widened, used' = used \ {call.frame},
         call' = Failed, UNCHANGED <<khalf, proc, current, cr3, heap_end>>
  PROVE  IInv'
<1>1. call' \in Calls /\ CallOK' /\ Held' = {} /\ call'.op = call.op
  BY FailedFacts DEF Pml4s
<1>2. TypeOK'
  BY <1>1, WidenedFacts DEF IInv, TypeOK, Pml4s, Live
<1>3. FramesOwnedOnce'
  <2>1. call.frame \in Held
    BY Zenon DEF Held
  <2>2. \A e \in Widened : e.frame \in used' /\ e.frame \notin Pml4s
    BY <2>1, WidenedOwned
  <2>3. Pml4s \subseteq used'
    BY <2>1, WidenedOwned
  <2>4. Pml4s' = Pml4s
    BY DEF Pml4s
  <2> QED
    BY <1>1, <2>2, <2>3, <2>4, WidenedFacts, OwnedOnceAfter
<1>4. call.op # "install"
  BY WantedFacts
<1>5. RunsOnLiveTables' /\ KernelHalfShared' /\ HeapFirst'
  BY <1>1, <1>4 DEF IInv, RunsOnLiveTables, KernelHalfShared, HeapFirst, Pml4s, As
<1> QED
  BY <1>1, <1>2, <1>3, <1>5 DEF IInv

\* The owner of the tables on the way to a page is an address space in use.
LEMMA EntryType ==
  ASSUME IInv, call.todo # <<>>, NEW k \in 1..Levels, NEW f \in Frame
  PROVE  Entry(k, f) \in Entries(DOMAIN khalf) /\ Entry(k, f).frame = f
<1>1. Holder(call.as, Wanted.page) \in DOMAIN khalf
  BY WantedFacts DEF Holder, IInv, TypeOK
<1>2. Wanted.page \in 0..(HeapBase + HeapPages - 1) /\ Wanted.writable \in BOOLEAN
  BY WantedFacts DEF Wants
<1>3. Node(k, Wanted.page) \in Nodes
  BY <1>2 DEF Nodes
<1> QED
  BY <1>1, <1>2, <1>3 DEF Entry, Entries

LEMMA GetNextLevelStep == IInv /\ GetNextLevel => IInv'
<1> SUFFICES ASSUME IInv, GetNextLevel PROVE IInv'
  OBVIOUS
<1>1. call.todo # <<>> /\ call.frame # 0 /\ UNCHANGED <<proc, current, cr3, heap_end>>
  BY DEF GetNextLevel
<1>2. CASE entries' = Widened /\ used' = used \ {call.frame} /\ call' = Failed /\ UNCHANGED khalf
  BY <1>1, <1>2, WalkFailsStep
<1>3. ASSUME NEW f \in Lowest(Free), NEW k \in Lowest(MissingTables),
             entries' = Widened \cup {Entry(k, f)}, used' = used \cup {f}, UNCHANGED call,
             khalf' = IF IsUser(Wanted.page) \/ k # 1 THEN khalf
                      ELSE [khalf EXCEPT ![call.as] = @ \cup {Node(1, Wanted.page)[2]}]
      PROVE  IInv'
  <2> DEFINE top == Node(1, HeapBase)[2]
  <2>1. f \in Frame /\ f \notin used /\ f # 0
    BY DEF Lowest, Free
  <2>2. k \in 1..Levels
    BY PageAssumption DEF Lowest, MissingTables, Table
  <2>3. Entry(k, f) \in Entries(DOMAIN khalf) /\ Entry(k, f).frame = f
    BY <1>1, <2>1, <2>2, EntryType
  <2>4. khalf' = khalf \/ (call.op = "heap" /\ khalf' = [khalf EXCEPT ![BootPml4] = @ \cup {top}])
    BY <1>1, <1>3, WantedFacts, Zenon
  <2>5. DOMAIN khalf' = DOMAIN khalf /\ Pml4s' = Pml4s
    BY <2>4 DEF Pml4s
  <2>6. khalf' \in [DOMAIN khalf -> SUBSET (BootTops \cup {top})]
    BY <2>4 DEF IInv, TypeOK
  <2>7. Held' = Held /\ call'.op # "install"
    BY <1>1, <1>3, WantedFacts DEF Held
  <2> HIDE DEF top
  <2>8. KernelHalfShared' /\ HeapFirst'
    <3>1. CASE khalf' = khalf
      BY <1>1, <1>3, <2>5, <3>1, Zenon DEF IInv, KernelHalfShared, HeapFirst
    <3>2. CASE heap_end = HeapBase
      BY <1>1, <1>3, <2>5, <3>2 DEF IInv, KernelHalfShared, HeapFirst, Pml4s
    <3>3. CASE heap_end # HeapBase /\ khalf' = [khalf EXCEPT ![BootPml4] = @ \cup {top}]
      <4>1. top \in khalf[BootPml4]
        BY <3>3 DEF IInv, HeapFirst, top
      <4>2. khalf' = khalf
        BY <3>3, <4>1 DEF IInv, TypeOK
      <4> QED
        BY <4>2, <3>1
    <3> QED
      BY <2>4, <3>1, <3>2, <3>3
  <2>9. TypeOK'
    BY <1>1, <1>3, <2>1, <2>3, <2>5, <2>6, WidenedFacts DEF IInv, TypeOK, Live, top
  <2>10. FramesOwnedOnce'
    <3>1. f \notin Pml4s /\ f \notin Held
      BY <2>1, WidenedOwned
    <3>2. \A e \in entries' : e.frame \in used' /\ e.frame \notin Pml4s /\ e.frame \notin Held
      BY <1>3, <2>3, <3>1, WidenedOwned
    <3>3. \A e, g \in entries' : e.frame = g.frame => e = g
      BY <1>3, <2>1, <2>3, WidenedOwned, WidenedFacts
    <3>4. Pml4s \subseteq used' /\ Held \subseteq used' /\ Pml4s \cap Held = {}
      BY <1>3, WidenedOwned
    <3>5. Pml4s' = Pml4s /\ Held' = Held
      BY <2>5, <2>7
    <3> QED
      BY <3>2, <3>3, <3>4, <3>5, OwnedOnceAfter
  <2>11. RunsOnLiveTables'
    BY <1>1, <1>3, <2>5, <2>7 DEF IInv, RunsOnLiveTables, As
  <2>12. CallOK'
    BY <1>1, <1>3, <2>5 DEF IInv, CallOK
  <2> QED
    BY <2>8, <2>9, <2>10, <2>11, <2>12 DEF IInv
<1> QED
  BY <1>2, <1>3 DEF GetNextLevel

LEMMA VmmMapPageStep == IInv /\ VmmMapPage => IInv'
<1> SUFFICES ASSUME IInv, VmmMapPage PROVE IInv'
  OBVIOUS
<1>1. call.todo # <<>> /\ call.frame # 0 /\ UNCHANGED <<khalf, proc, current, cr3>>
  BY DEF VmmMapPage
<1>2. CASE entries' = Widened /\ used' = used \ {call.frame} /\ call' = Failed /\ UNCHANGED heap_end
  BY <1>1, <1>2, WalkFailsStep
<1>3. ASSUME entries' = Widened \cup {Entry(Levels, call.frame)},
             call' = [call EXCEPT !.todo = Tail(@), !.frame = 0],
             heap_end' = IF call.op = "heap" THEN heap_end + 1 ELSE heap_end, UNCHANGED used,
             MissingTables = {}
      PROVE  IInv'
  <2>1. call.frame \in Frame /\ call.op # "install"
    BY <1>1, WantedFacts DEF IInv, TypeOK, Calls
  <2>2. Pml4s' = Pml4s
    BY <1>1 DEF Pml4s
  <2>3. call' \in Calls /\ CallOK' /\ call'.op = call.op /\ Held' = {}
    BY <1>1, <1>3, <2>2, NextPageFacts
  <2>4. Levels \in 1..Levels
    BY PageAssumption
  <2>5. Entry(Levels, call.frame) \in Entries(DOMAIN khalf) /\ Entry(Levels, call.frame).frame = call.frame
    BY <1>1, <2>1, <2>4, EntryType, Zenon
  <2>6. heap_end' \in HeapBase..(HeapBase + HeapPages)
    <3>1. heap_end \in HeapBase..(HeapBase + HeapPages)
      BY Zenon DEF IInv, TypeOK
    <3>2. call.op = "heap" => heap_end < HeapBase + HeapPages
      BY <1>1, WantedFacts, Zenon
    <3> QED
      BY <1>3, <3>1, <3>2, PageNumbers
  <2>7. TypeOK'
    BY <1>1, <1>3, <2>2, <2>3, <2>5, <2>6, WidenedFacts DEF IInv, TypeOK, Live
  <2>8. FramesOwnedOnce'
    <3>1. call.frame \in Held
      BY <1>1, Zenon DEF Held
    <3>2. \A e \in Widened : e.frame # call.frame
      BY <3>1, WidenedOwned
    <3>3. \A e \in entries' : e.frame \in used' /\ e.frame \notin Pml4s
      BY <1>3, <2>5, <3>1, WidenedOwned
    <3>4. \A e, g \in entries' : e.frame = g.frame => e = g
      BY <1>3, <2>5, <3>2, WidenedFacts
    <3>5. Pml4s \subseteq used'
      BY <1>3, WidenedOwned
    <3> QED
      BY <2>2, <2>3, <3>3, <3>4, <3>5, OwnedOnceAfter
  <2>9. RunsOnLiveTables' /\ KernelHalfShared'
    BY <1>1, <1>3, <2>1, <2>2, <2>3 DEF IInv, RunsOnLiveTables, KernelHalfShared, As
  <2>10. HeapFirst'
    <3>1. CASE call.op # "heap"
      BY <1>1, <1>3, <2>2, <2>3, <3>1 DEF IInv, HeapFirst
    <3>2. CASE call.op = "heap"
      <4>1. Node(1, Wanted.page)[2] \in khalf[BootPml4]
        <5>1. 1 \in Table
          BY PageAssumption DEF Table
        <5>2. Present(call.as, 1, Wanted.page)
          BY <1>3, <5>1 DEF MissingTables
        <5> QED
          BY <1>1, <3>2, <5>2, WantedFacts DEF Present
      <4>2. Node(1, HeapBase)[2] \in khalf[BootPml4]
        BY <1>1, <3>2, <4>1, WantedFacts
      <4>3. heap_end' # HeapBase
        <5>1. heap_end \in HeapBase..(HeapBase + HeapPages)
          BY DEF IInv, TypeOK
        <5> QED
          BY <1>3, <3>2, <5>1, PageAssumption
      <4> QED
        BY <1>1, <4>2, <4>3 DEF HeapFirst
    <3> QED
      BY <3>1, <3>2
  <2> QED
    BY <2>3, <2>7, <2>8, <2>9, <2>10 DEF IInv
<1> QED
  BY <1>2, <1>3 DEF VmmMapPage

(* The switch of execve, and processes that come and go *)

\* The tables in CR3 are freed, and nobody else had them.
LEMMA ExecveDestroysOldStep == IInv /\ ExecveDestroysOld => IInv'
<1> SUFFICES ASSUME IInv, ExecveDestroysOld PROVE IInv'
  OBVIOUS
<1>1. /\ call.op = "execve" /\ call.todo = <<>> /\ call.frame = 0 /\ call.as \in Pml4s /\ current # 0
      /\ call' = [call EXCEPT !.op = "install"] /\ UNCHANGED <<proc, current, cr3, heap_end>>
      /\ \A p \in Pid : proc[p].state # "none" => proc[p].as # call.as
  BY DEF IInv, CallOK, ExecveDestroysOld
<1>2. current \in Pid /\ proc[current].state = "live" /\ As(current) = proc[current].as
  BY <1>1 DEF IInv, TypeOK, Live, As
<1>3. proc[current].as \in Pml4s /\ cr3 = proc[current].as /\ call.as # proc[current].as
  BY <1>1, <1>2 DEF IInv, RunsOnLiveTables
<1>4. VmmDestroyAddressSpace(proc[current].as)
  BY <1>2 DEF ExecveDestroysOld
<1>5. /\ call' \in Calls /\ call'.op = "install" /\ call'.todo = <<>> /\ call'.frame = 0
      /\ call'.as = call.as
  BY <1>1, Zenon DEF IInv, TypeOK, Calls
<1>6. /\ Pml4s' = Pml4s \ {cr3} /\ used' \subseteq Frame /\ cr3 \notin used'
      /\ BootPml4 \in (DOMAIN khalf)'
      /\ (khalf \in [DOMAIN khalf -> SUBSET (BootTops \cup {Node(1, HeapBase)[2]})])'
      /\ (entries \subseteq Entries(DOMAIN khalf))'
      /\ FramesOwnedOnce' /\ KernelHalfShared' /\ HeapFirst'
  BY <1>1, <1>3, <1>4, <1>5, DestroyFacts
<1>7. TypeOK'
  BY <1>1, <1>5, <1>6 DEF IInv, TypeOK, Live
<1>8. RunsOnLiveTables'
  BY <1>1, <1>2, <1>3, <1>5, <1>6 DEF IInv, RunsOnLiveTables
<1>9. CallOK'
  BY <1>1, <1>3, <1>5, <1>6 DEF CallOK
<1> QED
  BY <1>6, <1>7, <1>8, <1>9 DEF IInv

LEMMA ExecveInstallsNewStep == IInv /\ ExecveInstallsNew => IInv'
<1> SUFFICES ASSUME IInv, ExecveInstallsNew PROVE IInv'
  OBVIOUS
<1>1. /\ call.op = "install" /\ call.frame = 0 /\ call.as \in Pml4s /\ cr3' = call.as /\ call' = Idle
      /\ UNCHANGED <<used, khalf, entries, current, heap_end>>
      /\ \A p \in Pid : proc[p].state # "none" => proc[p].as # call.as
      /\ current # 0
  BY DEF IInv, CallOK, ExecveInstallsNew
<1>2. call'.op = "none" /\ call'.todo = <<>> /\ call'.frame = 0
  BY <1>1 DEF Idle, Call
<1>3. current \in Pid /\ proc[current].state = "live" /\ proc \in [Pid -> Processes] /\ call.as \in Frame
  BY <1>1 DEF IInv, TypeOK, Live
<1> DEFINE r == proc[current]
           new == [r EXCEPT !.as = call.as, !.brk_start = BrkStart, !.brk = BrkStart, !.known = TRUE]
<1>4. proc' = [proc EXCEPT ![current] = new]
  BY DEF ExecveInstallsNew
<1>5. new \in Processes /\ new.as = call.as /\ new.state = "live"
  <2>1. r \in Processes /\ r.state = "live" /\ BrkStart \in Address
    BY <1>3, PageAssumption, Zenon
  <2> HIDE DEF r
  <2> QED
    BY <1>3, <2>1, Zenon DEF Processes
<1> HIDE DEF new
<1>6. TypeOK'
  BY <1>1, <1>3, <1>4, <1>5, IdleType DEF IInv, TypeOK, Pml4s, Live
<1>7. FramesOwnedOnce'
  BY <1>1, <1>2 DEF IInv, FramesOwnedOnce, Owned, Pml4s, Held
<1>8. KernelHalfShared' /\ HeapFirst'
  BY <1>1, <1>2 DEF IInv, KernelHalfShared, HeapFirst, Pml4s
<1>9. RunsOnLiveTables'
  BY <1>1, <1>2, <1>3, <1>4, <1>5 DEF IInv, RunsOnLiveTables, Pml4s, As
<1>10. CallOK'
  BY <1>2 DEF CallOK
<1> QED
  BY <1>6, <1>7, <1>8, <1>9, <1>10 DEF IInv

\* schedule() and exit: another process runs, on its own tables.
LEMMA SwitchStep ==
  ASSUME IInv, NEW q \in Live \cup {0}, Switch(q) \/ ProcessExit(q)
  PROVE  IInv'
<1>1. /\ call = Idle /\ q # current /\ current' = q /\ cr3' = As(q)
      /\ UNCHANGED <<used, khalf, entries, heap_end, call>>
  BY DEF Switch, ProcessExit, SwitchTo
<1>2. call.op = "none" /\ call.todo = <<>> /\ call.frame = 0
  BY <1>1 DEF Idle, Call
<1>3. /\ proc' \in [Pid -> Processes]
      /\ \A p \in Pid : proc'[p].as = proc[p].as /\ (proc'[p].state = "none" <=> proc[p].state = "none")
      /\ \A p \in Live \ {current} : proc'[p].state = "live"
  <2>1. proc \in [Pid -> Processes]
    BY DEF IInv, TypeOK
  <2>2. CASE Switch(q)
    BY <2>1, <2>2 DEF Switch, Live
  <2>3. CASE ProcessExit(q)
    <3>1. current \in Live
      BY <2>3 DEF ProcessExit, IInv, TypeOK
    <3> QED
      BY <2>1, <2>3, <3>1 DEF ProcessExit, Live, Processes
  <2> QED
    BY <2>2, <2>3
<1>4. As(q) \in Frame \cup {BootPml4} /\ As(q)' = As(q)
  BY <1>2, <1>3 DEF IInv, TypeOK, RunsOnLiveTables, As, Live
<1>5. TypeOK'
  BY <1>1, <1>3, <1>4 DEF IInv, TypeOK, Pml4s, Live
<1>6. FramesOwnedOnce' /\ KernelHalfShared' /\ HeapFirst'
  BY <1>1 DEF IInv, FramesOwnedOnce, KernelHalfShared, HeapFirst, Owned, Pml4s, Held
<1>7. RunsOnLiveTables'
  BY <1>1, <1>2, <1>3, <1>4 DEF IInv, RunsOnLiveTables, Pml4s, As
<1>8. CallOK'
  BY <1>1, <1>2 DEF CallOK
<1> QED
  BY <1>5, <1>6, <1>7, <1>8 DEF IInv

\* waitpid destroys a zombie, which does not run.
LEMMA ReapStep ==
  ASSUME IInv, NEW z \in Pid, Reap(z)
  PROVE  IInv'
<1>1. /\ call = Idle /\ current # 0 /\ proc[z].state = "zombie" /\ VmmDestroyAddressSpace(proc[z].as)
      /\ proc' = [proc EXCEPT ![z] = NoProcess] /\ UNCHANGED <<current, cr3, heap_end, call>>
  BY DEF Reap
<1>2. call.op = "none" /\ call.todo = <<>> /\ call.frame = 0
  BY <1>1 DEF Idle, Call
<1>3. current \in Pid /\ current # z /\ proc[current].state = "live" /\ proc[z].as \in Pml4s
  BY <1>1, <1>2 DEF IInv, TypeOK, Live, RunsOnLiveTables
<1>4. /\ Pml4s' = Pml4s \ {proc[z].as} /\ used' \subseteq Frame
      /\ BootPml4 \in (DOMAIN khalf)'
      /\ (khalf \in [DOMAIN khalf -> SUBSET (BootTops \cup {Node(1, HeapBase)[2]})])'
      /\ (entries \subseteq Entries(DOMAIN khalf))'
      /\ FramesOwnedOnce' /\ KernelHalfShared' /\ HeapFirst'
  BY <1>1, <1>2, <1>3, DestroyFacts
<1>5. proc \in [Pid -> Processes] /\ NoProcess \in Processes
  BY PageAssumption DEF IInv, TypeOK, NoProcess, Processes, Address
<1>6. proc' \in [Pid -> Processes] /\ current \in Live'
  BY <1>1, <1>3, <1>5 DEF IInv, TypeOK, Live
<1>7. TypeOK'
  BY <1>1, <1>4, <1>6 DEF IInv, TypeOK
<1>8. RunsOnLiveTables'
  BY <1>1, <1>2, <1>3, <1>4, <1>5 DEF IInv, RunsOnLiveTables, As, NoProcess
<1>9. CallOK'
  BY <1>1, <1>2 DEF CallOK
<1> QED
  BY <1>4, <1>7, <1>8, <1>9 DEF IInv

\* Every step preserves the invariant.
LEMMA NextIInv == IInv /\ [Next]_vars => IInv'
<1> SUFFICES ASSUME IInv, [Next]_vars PROVE IInv'
  OBVIOUS
<1>1. CASE UNCHANGED vars
  <2> USE <1>1 DEF vars
  <2>1. TypeOK'
    BY DEF IInv, TypeOK, Pml4s, Live
  <2>2. FramesOwnedOnce'
    BY DEF IInv, FramesOwnedOnce, Owned, Held, Pml4s, Live
  <2>3. RunsOnLiveTables' /\ KernelHalfShared'
    BY DEF IInv, RunsOnLiveTables, KernelHalfShared, Pml4s, As
  <2>4. CallOK' /\ HeapFirst'
    BY DEF IInv, CallOK, HeapFirst, Pml4s, Held, As, Live
  <2> QED
    BY <2>1, <2>2, <2>3, <2>4 DEF IInv
<1>2. CASE Next
  BY <1>2, ExpandHeapStep, SysExecveStep, ProcessCreateStep, SysBrkGrowStep, SysBrkShrinkStep,
     ReusePageStep, AllocPageStep, GetNextLevelStep, VmmMapPageStep, HeapReturnsStep, SpawnSucceedsStep,
     SpawnFailsStep, ExecveFailsStep, ExecveDestroysOldStep, ExecveInstallsNewStep, BrkReturnsStep,
     SwitchStep, ReapStep DEF Next
<1> QED
  BY <1>1, <1>2

-----------------------------------------------------------------------------
(* Indices of page tables, and addresses *)

\* Dividing twice is dividing by the product.
LEMMA DivideTwice ==
  ASSUME NEW a \in Nat, NEW b \in Nat \ {0}, NEW c \in Nat \ {0}
  PROVE  (a \div b) \div c = a \div (c * b)
<1> DEFINE q == a \div b
           r == q \div c
           d == c * b
           s == a \div d
<1>1. q \in Nat /\ b * q <= a /\ a < b * (q + 1)
  OBVIOUS
<1>2. r \in Nat /\ c * r <= q /\ q < c * (r + 1)
  BY <1>1
<1>3. d \in Nat \ {0}
  OBVIOUS
<1>4. s \in Nat /\ d * s <= a /\ a < d * (s + 1)
  BY <1>3
<1> HIDE DEF q, r, s
<1>5. d * r <= a
  <2>1. b * (c * r) <= b * q
    BY <1>1, <1>2
  <2>2. d * r = b * (c * r)
    BY <1>2
  <2> QED
    BY <1>1, <1>2, <2>1, <2>2
<1>6. a < d * (r + 1)
  <2>1. q + 1 <= c * (r + 1) /\ c * (r + 1) \in Nat
    BY <1>1, <1>2
  <2>2. b * (q + 1) <= b * (c * (r + 1))
    BY <1>1, <2>1
  <2>3. d * (r + 1) = b * (c * (r + 1))
    BY <1>2
  <2> QED
    BY <1>1, <2>1, <2>2, <2>3
<1> HIDE DEF d
<1>7. ~(r > s)
  <2>1. ASSUME r > s PROVE d * (s + 1) <= d * r
    BY <1>2, <1>3, <1>4, <2>1
  <2> QED
    BY <1>2, <1>3, <1>4, <1>5, <2>1
<1>8. ~(s > r)
  <2>1. ASSUME s > r PROVE d * (r + 1) <= d * s
    BY <1>2, <1>3, <1>4, <2>1
  <2> QED
    BY <1>2, <1>3, <1>4, <1>6, <2>1
<1>9. r = s
  BY <1>2, <1>4, <1>7, <1>8
<1> QED
  BY <1>9 DEF q, r, s, d

\* The table above the entry of depth k towards a page is the one of depth k - 1.
LEMMA NodeParent ==
  ASSUME NEW k \in 2..Levels, NEW page \in Nat
  PROVE  Node(k - 1, page) = <<k - 1, Node(k, page)[2] \div Fanout>>
<1>1. /\ k \in 1..Levels /\ k - 1 \in 1..Levels /\ Fanout \in Nat \ {0}
  BY PageAssumption
<1>2. Span[k] \in Nat \ {0} /\ Span[k - 1] = Fanout * Span[k]
  BY <1>1, SpanAssumption
<1>3. (page \div Span[k]) \div Fanout = page \div Span[k - 1]
  BY <1>1, <1>2, DivideTwice
<1>4. Node(k, page)[2] = page \div Span[k]
  BY DEF Node
<1> QED
  BY <1>3, <1>4 DEF Node

\* The lowest entry on the way to a page is the one of the page.
LEMMA LowestNode ==
  ASSUME NEW page \in Nat
  PROVE  Node(Levels, page)[2] = page
  BY SpanAssumption DEF Node

\* The quotient of a division.
LEMMA Quotient ==
  ASSUME NEW a \in Nat, NEW b \in Nat \ {0}
  PROVE  a \div b \in Nat /\ b * (a \div b) <= a /\ a < b * ((a \div b) + 1)
  OBVIOUS

\* A quotient below or above a number.
LEMMA QuotientBounds ==
  ASSUME NEW a \in Nat, NEW b \in Nat \ {0}, NEW n \in Nat
  PROVE  /\ b * n <= a => n <= a \div b
         /\ a < b * n => a \div b < n
<1> DEFINE q == a \div b
<1>1. q \in Nat /\ b * q <= a /\ a < b * (q + 1)
  BY Quotient
<1> HIDE DEF q
<1>2. ASSUME b * n <= a, q < n PROVE FALSE
  <2>1. b * (q + 1) <= b * n
    BY <1>1, <1>2
  <2> QED
    BY <1>1, <1>2, <2>1
<1>3. ASSUME a < b * n, n <= q PROVE FALSE
  <2>1. b * n <= b * q
    BY <1>1, <1>3
  <2> QED
    BY <1>1, <1>3, <2>1
<1>4. (b * n <= a => n <= q) /\ (a < b * n => q < n)
  BY <1>1, <1>2, <1>3
<1> QED
  BY <1>4 DEF q

\* PAGE_ALIGN_UP() of an address below the last page of all.
LEMMA PageUpFacts ==
  ASSUME NEW x \in Nat, x + PageSize <= AddressEnd
  PROVE  /\ PageUp(x) \in Nat
         /\ x <= PageSize * PageUp(x)
         /\ \A n \in Nat : x <= PageSize * n => PageUp(x) <= n
<1>1. PageSize \in Nat \ {0} /\ AddressEnd \in Nat \ {0} /\ x + PageSize - 1 \in Nat
  BY PageAssumption
<1>2. (x + PageSize - 1) % AddressEnd = x + PageSize - 1
  BY <1>1
<1>3. PageUp(x) = (x + PageSize - 1) \div PageSize
  BY <1>2 DEF PageUp
<1> DEFINE q == (x + PageSize - 1) \div PageSize
<1>4. q \in Nat /\ x + PageSize - 1 < PageSize * (q + 1)
  BY <1>1, Quotient
<1>5. ASSUME NEW n \in Nat, x <= PageSize * n PROVE q <= n
  <2>1. x + PageSize - 1 < PageSize * (n + 1) /\ n + 1 \in Nat
    BY <1>1, <1>5
  <2>2. q < n + 1
    BY <1>1, <2>1, QuotientBounds
  <2> HIDE DEF q
  <2> QED
    BY <1>4, <2>2
<1> HIDE DEF q
<1>6. x <= PageSize * q
  BY <1>1, <1>4
<1> QED
  BY <1>3, <1>4, <1>5, <1>6 DEF q

\* The break is set to the start of a page below the stack.
LEMMA BrkStartFacts ==
  /\ BrkStart + PageSize <= AddressEnd
  /\ PageUp(BrkStart) = BrkStart \div PageSize
  /\ BrkStart \in Nat /\ BrkStart \div PageSize \in Nat
<1> DEFINE q == BrkStart \div PageSize
<1>1. BrkStart \in Nat /\ PageSize \in Nat \ {0} /\ UserPages \in Nat /\ AddressEnd \in Nat \ {0}
  BY PageAssumption DEF Address
<1>2. q \in Nat /\ BrkStart = PageSize * q
  BY <1>1, LayoutAssumption
<1>3. q + 1 <= UserPages
  BY <1>2, PageAssumption, LayoutAssumption
<1> HIDE DEF q
<1>4. PageSize * (q + 1) <= PageSize * UserPages
  BY <1>1, <1>2, <1>3
<1>5. BrkStart + PageSize <= AddressEnd
  BY <1>1, <1>2, <1>4, LayoutAssumption
<1>6. PageUp(BrkStart) \in Nat /\ BrkStart <= PageSize * PageUp(BrkStart) /\ PageUp(BrkStart) <= q
  BY <1>1, <1>2, <1>5, PageUpFacts
<1>7. ~(PageUp(BrkStart) < q)
  <2>1. ASSUME PageUp(BrkStart) < q PROVE PageSize * (PageUp(BrkStart) + 1) <= PageSize * q
    BY <1>1, <1>2, <1>6, <2>1
  <2> QED
    BY <1>1, <1>2, <1>6, <2>1
<1> QED
  BY <1>1, <1>2, <1>5, <1>6, <1>7 DEF q

\* The part of an address space below n pages passes user_range_*() when its pages do.
LEMMA RangeFacts ==
  ASSUME NEW first \in Nat, NEW end \in Nat, NEW n \in Nat, NEW allowed,
         PageSize * first <= end, end <= PageSize * n, n <= UserPages,
         \A page \in first..(n - 1) : page \in allowed
  PROVE  UserRange(PageSize * first, end - PageSize * first, allowed)
<1>1. PageSize \in Nat \ {0} /\ UserPages \in Nat /\ AddressEnd \in Nat \ {0}
  BY PageAssumption
<1>2. PageSize * n <= PageSize * UserPages
  BY <1>1
<1>3. end <= UserPages * PageSize /\ end < AddressEnd
  BY <1>1, <1>2, LayoutAssumption
<1> DEFINE start == PageSize * first
<1>4. start \in Nat /\ start <= end /\ start \div PageSize = first
  BY <1>1
<1>5. (start + (end - start)) % AddressEnd = end
  BY <1>1, <1>3, <1>4
<1>6. ASSUME end # start, NEW page \in (start \div PageSize)..((end - 1) \div PageSize)
      PROVE  page \in allowed
  <2>1. end - 1 \in Nat /\ end - 1 < PageSize * n
    BY <1>1, <1>4, <1>6
  <2>2. (end - 1) \div PageSize < n /\ (end - 1) \div PageSize \in Nat
    BY <1>1, <2>1, QuotientBounds, Quotient
  <2> HIDE DEF start
  <2> QED
    BY <1>4, <1>6, <2>2
<1> HIDE DEF start
<1>7. UserRange(start, end - start, allowed)
  <2>1. CASE end = start
    BY <1>4, <2>1 DEF UserRange
  <2>2. CASE end # start
    BY <1>3, <1>4, <1>5, <1>6, <2>2 DEF UserRange
  <2> QED
    BY <2>1, <2>2
<1> QED
  BY <1>7 DEF start
=============================================================================
