------------------------ MODULE AddressSpaceProofs ------------------------
(***************************************************************************)
(* The properties of AddressSpace for every number of frames, processes    *)
(* and levels, every set of images and every layout that satisfies its     *)
(* assumptions: what the inductive invariant says itself, which steps lose *)
(* frames, that page tables are trees, and that heap and stack are mapped. *)
(***************************************************************************)
EXTENDS AddressSpaceStepProofs

\* The empty sequence has no index.
LEMMA NoIndex == \A i \in 1..Len(<<>>) : FALSE
  OBVIOUS

USE FrameAssumption, PidAssumption

LEMMA Invariance == Spec => []IInv
  BY InitIInv, NextIInv, PTL DEF Spec

\* In every reachable state a frame has at most one use and is marked in the PMM's
\* bitmap, however often loads, growths of the break and mappings fail halfway.
THEOREM FramesAreOwnedOnce == Spec => []FramesOwnedOnce
<1>1. IInv => FramesOwnedOnce
  BY DEF IInv
<1> QED
  BY <1>1, Invariance, PTL

\* The processor runs on the page tables of the current process; in the window of
\* sys_execve() where they are freed, their PML4 belongs to nobody.
THEOREM ProcessesRunOnTheirTables == Spec => []RunsOnLiveTables
<1>1. IInv => RunsOnLiveTables
  BY DEF IInv
<1> QED
  BY <1>1, Invariance, PTL

\* The kernel half of every address space equals that of the boot PML4.
THEOREM KernelHalfIsShared == Spec => []KernelHalfShared
<1>1. IInv => KernelHalfShared
  BY DEF IInv
<1> QED
  BY <1>1, Invariance, PTL

\* The pages of the address spaces that a step destroys.
DestroyedPages ==
  {e.frame : e \in {x \in entries : x.as \notin DOMAIN khalf' /\ x.node[1] = Levels}}

\* A step keeps what it knows of if every frame that stays marked keeps its use.
LEMMA KeepsOwners ==
  ASSUME \A f \in used' : \/ f \in used /\ (f \in Owned => f \in Owned' \cup DestroyedPages)
                          \/ f \in Owned'
  PROVE  Leaked' \ Leaked \subseteq DestroyedPages
BY DEF Leaked

\* An entry is a table or a page.
LEMMA EntryDepth ==
  ASSUME IInv, NEW e \in entries
  PROVE  e.node[1] \in Table \/ e.node[1] = Levels
<1>1. e.node \in Nodes
  BY DEF IInv, TypeOK, Entries
<1>2. PICK k \in 1..Levels, page \in 0..(HeapBase + HeapPages - 1) : e.node = Node(k, page)
  BY <1>1 DEF Nodes
<1>3. e.node[1] = k
  BY <1>2 DEF Node
<1> QED
  BY <1>3, PageAssumption DEF Table

\* vmm_destroy_address_space() returns the PML4 and the tables.
LEMMA DestroyLosesPages ==
  ASSUME IInv, NEW a \in Pml4s, VmmDestroyAddressSpace(a), call.frame = 0
  PROVE  Leaked' \ Leaked \subseteq DestroyedPages
<1>1. DOMAIN khalf' = DOMAIN khalf \ {a} /\ Pml4s' = Pml4s \ {a}
  BY DEF VmmDestroyAddressSpace, Without, Pml4s
<1>2. entries' = {e \in entries : e.as # a} /\ used' = used \ TableFrames(a)
  BY DEF VmmDestroyAddressSpace, EntriesBut
<1>3. ASSUME NEW f \in used', f \in Owned
      PROVE  f \in Owned' \cup DestroyedPages
  <2>1. f \in used /\ f \notin TableFrames(a)
    BY <1>2
  <2>2. CASE f \in Pml4s
    BY <1>1, <2>1, <2>2 DEF TableFrames, Owned
  <2>3. ASSUME NEW e \in entries, f = e.frame
        PROVE  f \in Owned' \cup DestroyedPages
    <3>1. CASE e.as # a
      BY <1>2, <2>3, <3>1 DEF Owned
    <3>2. CASE e.as = a
      <4>1. e.node[1] = Levels
        BY <2>1, <2>3, <3>2, EntryDepth DEF TableFrames
      <4> QED
        BY <1>1, <2>3, <3>2, <4>1 DEF DestroyedPages
    <3> QED
      BY <3>1, <3>2
  <2>4. f \notin Held
    <3>1. Held = {}
      BY DEF Held
    <3> QED
      BY <3>1
  <2> QED
    BY <1>3, <2>2, <2>3, <2>4 DEF Owned
<1> QED
  BY <1>2, <1>3, KeepsOwners

\* Widening permissions loses no entry.
LEMMA WidenedKeeps ==
  ASSUME IInv, NEW e \in entries
  PROVE  \E w \in Widened : w.frame = e.frame
<1> DEFINE W(x) == IF /\ Wanted.writable /\ x.as = Holder(call.as, Wanted.page)
                      /\ \E k \in Table : x.node = Node(k, Wanted.page)
                   THEN [x EXCEPT !.writable = TRUE] ELSE x
<1>1. Widened = {W(x) : x \in entries}
  BY DEF Widened
<1>2. W(e).frame = e.frame
  <2>1. e \in Entries(DOMAIN khalf)
    BY DEF IInv, TypeOK
  <2> QED
    BY <2>1 DEF Entries
<1> HIDE DEF W
<1> QED
  BY <1>1, <1>2

\* A walk that fails gives the page back.
LEMMA WalkFailsKeeps ==
  ASSUME IInv, call.todo # <<>>, call.frame # 0, entries' = Widened, used' = used \ {call.frame},
         UNCHANGED khalf
  PROVE  Leaked' \ Leaked \subseteq DestroyedPages
<1>1. Pml4s' = Pml4s
  BY DEF Pml4s
<1>2. ASSUME NEW f \in used', f \in Owned
      PROVE  f \in Owned'
  <2>1. f # call.frame
    OBVIOUS
  <2>2. f \in Pml4s \/ \E e \in entries : f = e.frame
    BY <1>2, <2>1 DEF Owned, Held
  <2>3. CASE f \in Pml4s
    BY <1>1, <2>3 DEF Owned
  <2>4. CASE \E e \in entries : f = e.frame
    BY <2>4, WidenedKeeps DEF Owned
  <2> QED
    BY <2>2, <2>3, <2>4
<1> QED
  BY <1>2, KeepsOwners

\* A table made on the way has its entry.
LEMMA GetNextLevelKeeps ==
  ASSUME IInv, GetNextLevel
  PROVE  Leaked' \ Leaked \subseteq DestroyedPages
<1>1. call.todo # <<>> /\ call.frame # 0
  BY DEF GetNextLevel
<1>2. CASE entries' = Widened /\ used' = used \ {call.frame} /\ UNCHANGED khalf
  BY <1>1, <1>2, WalkFailsKeeps
<1>3. ASSUME NEW f \in Lowest(Free), NEW k \in Lowest(MissingTables),
             entries' = Widened \cup {Entry(k, f)}, used' = used \cup {f}, UNCHANGED call,
             khalf' = IF IsUser(Wanted.page) \/ k # 1 THEN khalf
                      ELSE [khalf EXCEPT ![call.as] = @ \cup {Node(1, Wanted.page)[2]}]
      PROVE  Leaked' \ Leaked \subseteq DestroyedPages
  <2>1. f \in Frame /\ k \in 1..Levels
    BY PageAssumption DEF Lowest, Free, MissingTables, Table
  <2>2. Entry(k, f).frame = f
    BY <1>1, <2>1, EntryType
  <2>3. f \in Owned'
    BY <1>3, <2>2 DEF Owned
  <2>4. Pml4s' = Pml4s
    <3>1. DOMAIN khalf' = DOMAIN khalf
      BY <1>3
    <3> QED
      BY <3>1 DEF Pml4s
  <2>5. ASSUME NEW g \in Owned
        PROVE  g \in Owned'
    <3>1. CASE g \in Pml4s \cup Held
      BY <1>3, <2>4, <3>1 DEF Owned, Held
    <3>2. CASE \E e \in entries : g = e.frame
      BY <1>3, <3>2, WidenedKeeps DEF Owned
    <3> QED
      BY <3>1, <3>2 DEF Owned
  <2> QED
    BY <1>3, <2>3, <2>5, KeepsOwners
<1> QED
  BY <1>2, <1>3 DEF GetNextLevel

\* The page is entered, or given back.
LEMMA VmmMapPageKeeps ==
  ASSUME IInv, VmmMapPage
  PROVE  Leaked' \ Leaked \subseteq DestroyedPages
<1>1. call.todo # <<>> /\ call.frame # 0 /\ UNCHANGED khalf
  BY DEF VmmMapPage
<1>2. CASE entries' = Widened /\ used' = used \ {call.frame}
  BY <1>1, <1>2, WalkFailsKeeps
<1>3. ASSUME entries' = Widened \cup {Entry(Levels, call.frame)}, UNCHANGED used
      PROVE  Leaked' \ Leaked \subseteq DestroyedPages
  <2>1. call.frame \in Frame /\ Levels \in 1..Levels
    <3>1. call \in Calls
      BY DEF IInv, TypeOK
    <3>2. call.frame \in Frame
      BY <1>1, <3>1 DEF Calls
    <3>3. Levels \in 1..Levels
      BY PageAssumption
    <3> QED
      BY <3>2, <3>3
  <2>2. Entry(Levels, call.frame).frame = call.frame
    BY <1>1, <2>1, EntryType, Zenon
  <2>3. Pml4s' = Pml4s
    BY <1>1 DEF Pml4s
  <2>4. ASSUME NEW g \in Owned
        PROVE  g \in Owned'
    <3>1. CASE g \in Pml4s
      BY <2>3, <3>1 DEF Owned
    <3>2. CASE g \in Held
      BY <1>3, <2>2, <3>2 DEF Owned, Held
    <3>3. CASE \E e \in entries : g = e.frame
      BY <1>3, <3>3, WidenedKeeps DEF Owned
    <3> QED
      BY <3>1, <3>2, <3>3 DEF Owned
  <2> QED
    BY <1>3, <2>4, KeepsOwners
<1> QED
  BY <1>2, <1>3 DEF VmmMapPage

\* A step that touches no frame loses none, if no page is being mapped.
LEMMA QuietKeeps ==
  ASSUME UNCHANGED <<used, khalf, entries>>, call.frame = 0
  PROVE  Leaked' \ Leaked \subseteq DestroyedPages
<1>1. Pml4s' = Pml4s /\ Held = {}
  BY DEF Pml4s, Held
<1>2. \A f \in Owned : f \in Owned'
  BY <1>1 DEF Owned
<1> QED
  BY <1>2, KeepsOwners

\* A new PML4 belongs to its address space.
LEMMA CreateKeeps ==
  ASSUME IInv, call.frame = 0, NEW a \in Frame, VmmCreateAddressSpace(a), UNCHANGED entries
  PROVE  Leaked' \ Leaked \subseteq DestroyedPages
<1>1. Pml4s' = Pml4s \cup {a} /\ Held = {}
  BY DEF VmmCreateAddressSpace, Pml4s, Held
<1>2. a \in Owned' /\ \A f \in Owned : f \in Owned'
  BY <1>1 DEF Owned
<1>3. used' = used \cup {a}
  BY DEF VmmCreateAddressSpace
<1> QED
  BY <1>2, <1>3, KeepsOwners

\* sys_brk() frees exactly the pages it unmaps.
LEMMA SysBrkShrinkKeeps ==
  ASSUME IInv, NEW new \in BrkRequests, SysBrkShrink(new)
  PROVE  Leaked' \ Leaked \subseteq DestroyedPages
<1>1. PICK gone \in SUBSET entries : entries' = entries \ gone /\ used' = used \ {e.frame : e \in gone}
  BY Zenon DEF SysBrkShrink, VmmUnmapPages
<1>2. Pml4s' = Pml4s /\ Held' = Held
  BY DEF SysBrkShrink, Pml4s, Held
<1>3. \A f \in used' : f \in used /\ (f \in Owned => f \in Owned')
  BY <1>1, <1>2 DEF Owned
<1> QED
  BY <1>3, KeepsOwners

\* The page just allocated is held by the call.
LEMMA AllocPageKeeps ==
  ASSUME IInv, AllocPage
  PROVE  Leaked' \ Leaked \subseteq DestroyedPages
<1>1. call.frame = 0 /\ UNCHANGED <<khalf, entries>>
  BY DEF AllocPage
<1>2. CASE UNCHANGED used
  BY <1>1, <1>2, QuietKeeps
<1>3. ASSUME NEW f \in Lowest(Free), call' = [call EXCEPT !.frame = f], used' = used \cup {f}
      PROVE  Leaked' \ Leaked \subseteq DestroyedPages
  <2>1. f \in Frame /\ f # 0
    BY DEF Lowest, Free
  <2>2. call'.frame = f
    <3>1. call \in Calls
      BY DEF IInv, TypeOK
    <3> QED
      BY <1>3, <3>1 DEF Calls
  <2>3. f \in Owned'
    BY <2>1, <2>2 DEF Owned, Held
  <2>4. Pml4s' = Pml4s /\ Held = {}
    BY <1>1 DEF Pml4s, Held
  <2>5. \A g \in Owned : g \in Owned'
    BY <1>1, <2>4 DEF Owned
  <2> QED
    BY <1>3, <2>3, <2>5, KeepsOwners
<1> QED
  BY <1>2, <1>3 DEF AllocPage

\* The ends of spawn and execve that destroy an address space, and waitpid.
LEMMA DestroyingSteps ==
  ASSUME IInv, SpawnFails \/ ExecveFails \/ ExecveDestroysOld \/ \E z \in Pid : Reap(z)
  PROVE  Leaked' \ Leaked \subseteq DestroyedPages
<1>1. call.todo = <<>> => call.frame = 0
  BY DEF IInv, CallOK
<1>2. CASE SpawnFails
  <2>1. call.frame = 0 /\ call.op = "spawn"
    BY <1>1, <1>2 DEF SpawnFails
  <2>2. call.as \in Pml4s
    BY <2>1, Zenon DEF IInv, CallOK, RunsOnLiveTables
  <2> QED
    BY <1>2, <2>1, <2>2, QuietKeeps, DestroyLosesPages DEF SpawnFails
<1>3. CASE ExecveFails
  <2>1. call.frame = 0 /\ call.as \in Pml4s
    BY <1>1, <1>3 DEF ExecveFails, IInv, CallOK
  <2> QED
    BY <1>3, <2>1, DestroyLosesPages DEF ExecveFails
<1>4. CASE ExecveDestroysOld
  <2>1. call.frame = 0 /\ call.op = "execve" /\ current # 0
    BY <1>1, <1>4 DEF ExecveDestroysOld, IInv, CallOK
  <2>2. As(current) \in Pml4s
    BY <2>1 DEF IInv, TypeOK, RunsOnLiveTables, As, Live
  <2> QED
    BY <1>4, <2>1, <2>2, DestroyLosesPages DEF ExecveDestroysOld
<1>5. ASSUME NEW z \in Pid, Reap(z)
      PROVE  Leaked' \ Leaked \subseteq DestroyedPages
  <2>1. call.frame = 0 /\ call.op = "none"
    BY <1>5 DEF Reap, Idle, Call
  <2>2. proc[z].as \in Pml4s
    BY <1>5, <2>1 DEF Reap, IInv, RunsOnLiveTables
  <2> QED
    BY <1>5, <2>1, <2>2, DestroyLosesPages DEF Reap
<1> QED
  BY <1>2, <1>3, <1>4, <1>5

\* The steps that start or end a call, or change the process, without a frame.
LEMMA QuietSteps ==
  ASSUME IInv,
         \/ ExpandHeap \/ ReusePage \/ HeapReturns \/ SpawnSucceeds \/ ExecveInstallsNew \/ BrkReturns
         \/ \E new \in BrkRequests : SysBrkGrow(new)
         \/ \E q \in Live \cup {0} : Switch(q) \/ ProcessExit(q)
  PROVE  Leaked' \ Leaked \subseteq DestroyedPages
<1>1. call.todo = <<>> => call.frame = 0
  BY DEF IInv, CallOK
<1>2. call.op = "install" => call.todo = <<>>
  BY DEF IInv, CallOK
<1>3. Idle.frame = 0
  BY DEF Idle, Call
<1>4. UNCHANGED <<used, khalf, entries>> /\ call.frame = 0
  BY <1>1, <1>2, <1>3, Zenon DEF ExpandHeap, ReusePage, HeapReturns, SpawnSucceeds, ExecveInstallsNew, BrkReturns,
     SysBrkGrow, Switch, ProcessExit
<1> QED
  BY <1>4, QuietKeeps

\* No call loses a frame, however it fails: what a destroyed address space had
\* mapped is the only loss, for vmm.c and all the calls that use it.
THEOREM OnlyDestructionLosesFrames == Spec => LosesOnlyPages
<1>1. ASSUME IInv, Next
      PROVE  Leaked' \ Leaked \subseteq DestroyedPages
  <2>1. ASSUME NEW image \in Images, SysExecve(image) \/ \E p \in Pid : ProcessCreate(p, image)
        PROVE  Leaked' \ Leaked \subseteq DestroyedPages
    <3>1. call.frame = 0 /\ UNCHANGED entries
      BY <2>1 DEF SysExecve, ProcessCreate, Idle, Call
    <3>2. \E a \in Frame : VmmCreateAddressSpace(a)
      BY <2>1 DEF SysExecve, ProcessCreate, Lowest, Free
    <3> QED
      BY <1>1, <3>1, <3>2, CreateKeeps
  <2> QED
    BY <1>1, <2>1, SysBrkShrinkKeeps, AllocPageKeeps, GetNextLevelKeeps, VmmMapPageKeeps, DestroyingSteps,
       QuietSteps DEF Next
<1>2. ASSUME UNCHANGED vars
      PROVE  Leaked' \ Leaked \subseteq DestroyedPages
  BY <1>2 DEF vars, Leaked, Owned, Pml4s, Held
<1>3. IInv /\ [Next]_vars => [Leaked' \ Leaked \subseteq DestroyedPages]_vars
  BY <1>1, <1>2
<1>4. Spec => [][Leaked' \ Leaked \subseteq DestroyedPages]_vars
  BY <1>3, Invariance, PTL DEF Spec
<1> QED
  BY <1>4, PTL DEF LosesOnlyPages, DestroyedPages

-----------------------------------------------------------------------------
(***************************************************************************)
(* TablesAreTrees.                                                         *)
(***************************************************************************)

\* One entry of E per place, each below a table that allows as much.
Tree(E) ==
  /\ \A e, f \in E : e.as = f.as /\ e.node = f.node => e = f
  /\ \A e \in E : e.node[1] > 1 =>
       \E t \in E : /\ t.as = e.as /\ t.node = <<e.node[1] - 1, e.node[2] \div Fanout>>
                    /\ e.writable => t.writable

TreeInv == Tree(entries) /\ TopsPresent

\* The tables on the way to the page being mapped.
OnTheWay(e) == e.as = Holder(call.as, Wanted.page) /\ \E k \in Table : e.node = Node(k, Wanted.page)

\* E has the places of entries, with at least their permissions, and those wanted on the way.
WidenedTo(E) ==
  /\ \A w \in E : \E e \in entries : w.as = e.as /\ w.node = e.node
  /\ \A e \in entries : \E w \in E : /\ w.as = e.as /\ w.node = e.node
                                     /\ e.writable => w.writable
                                     /\ OnTheWay(e) /\ Wanted.writable => w.writable

\* The page a call maps.
LEMMA WantedPage ==
  ASSUME IInv, call.todo # <<>>
  PROVE  /\ Wanted.page \in Nat /\ Wanted.writable \in BOOLEAN
         /\ IsUser(Wanted.page) => Holder(call.as, Wanted.page) # BootPml4
         /\ ~IsUser(Wanted.page) => call.as = BootPml4 /\ Holder(call.as, Wanted.page) = BootPml4
<1>1. Wanted.page \in Nat /\ Wanted.writable \in BOOLEAN
  BY WantedFacts, PageAssumption DEF Wants
<1>2. ~IsUser(Wanted.page) => call.as = BootPml4
  BY WantedFacts
<1>3. ASSUME call.op # "heap" PROVE call.as \in Pml4s
  <2>1. call.op \in {"spawn", "execve", "brk"}
    BY <1>3, WantedFacts
  <2>2. CASE call.op = "spawn"
    BY <2>2, Zenon DEF IInv, CallOK, RunsOnLiveTables
  <2>3. CASE call.op = "execve"
    BY <2>3 DEF IInv, CallOK
  <2>4. CASE call.op = "brk"
    BY <2>4 DEF IInv, TypeOK, CallOK, RunsOnLiveTables, Live
  <2> QED
    BY <2>1, <2>2, <2>3, <2>4
<1>4. IsUser(Wanted.page) => call.as # BootPml4
  BY <1>3, WantedFacts DEF Pml4s
<1> QED
  BY <1>1, <1>2, <1>4 DEF Holder

\* get_next_level() widens the permissions of the tables it passes.
LEMMA WidenedTree ==
  ASSUME IInv, call.todo # <<>>, Tree(entries)
  PROVE  Tree(Widened) /\ WidenedTo(Widened)
<1> DEFINE W(e) == IF /\ Wanted.writable /\ e.as = Holder(call.as, Wanted.page)
                      /\ \E k \in Table : e.node = Node(k, Wanted.page)
                   THEN [e EXCEPT !.writable = TRUE] ELSE e
<1>1. Widened = {W(e) : e \in entries}
  BY DEF Widened
<1>2. Wanted.writable \in BOOLEAN /\ Wanted.page \in Nat
  BY WantedPage
<1>3. \A e \in entries : /\ W(e).as = e.as /\ W(e).node = e.node
                         /\ W(e).writable <=> e.writable \/ (OnTheWay(e) /\ Wanted.writable)
  <2> TAKE e \in entries
  <2>1. e \in Entries(DOMAIN khalf)
    BY DEF IInv, TypeOK
  <2>2. CASE OnTheWay(e) /\ Wanted.writable
    BY <2>1, <2>2 DEF Entries, OnTheWay
  <2>3. CASE ~(OnTheWay(e) /\ Wanted.writable)
    BY <2>1, <2>3 DEF Entries, OnTheWay
  <2> QED
    BY <2>2, <2>3
<1> HIDE DEF W
<1>4. \A e, f \in Widened : e.as = f.as /\ e.node = f.node => e = f
  BY <1>1, <1>3 DEF Tree
<1>5. ASSUME NEW e \in entries, e.node[1] > 1
      PROVE  \E t \in Widened : /\ t.as = e.as /\ t.node = <<e.node[1] - 1, e.node[2] \div Fanout>>
                                /\ W(e).writable => t.writable
  <2>1. PICK t \in entries : /\ t.as = e.as /\ t.node = <<e.node[1] - 1, e.node[2] \div Fanout>>
                             /\ e.writable => t.writable
    BY <1>5 DEF Tree
  <2>2. OnTheWay(e) => OnTheWay(t)
    <3>1. SUFFICES ASSUME NEW k \in Table, e.node = Node(k, Wanted.page)
                   PROVE  \E j \in Table : t.node = Node(j, Wanted.page)
      BY <2>1 DEF OnTheWay
    <3>2. e.node[1] = k
      BY <3>1 DEF Node
    <3>3. k \in 2..Levels /\ k - 1 \in Table
      BY <1>5, <3>2, PageAssumption DEF Table
    <3> QED
      BY <1>2, <2>1, <3>1, <3>2, <3>3, NodeParent
  <2> QED
    BY <1>1, <1>3, <2>1, <2>2
<1>6. ASSUME NEW w \in Widened, w.node[1] > 1
      PROVE  \E t \in Widened : /\ t.as = w.as /\ t.node = <<w.node[1] - 1, w.node[2] \div Fanout>>
                                /\ w.writable => t.writable
  <2>1. PICK e \in entries : w = W(e)
    BY <1>1
  <2>2. e.as = w.as /\ e.node = w.node
    BY <1>3, <2>1
  <2> QED
    BY <1>5, <1>6, <2>1, <2>2, Zenon
<1>7. Tree(Widened)
  BY <1>4, <1>6, Zenon DEF Tree
<1>8. WidenedTo(Widened)
  BY <1>1, <1>3 DEF WidenedTo
<1> QED
  BY <1>7, <1>8

\* An entry made below tables that are there, at a place that is free.
LEMMA AddedTree ==
  ASSUME IInv, TreeInv, call.todo # <<>>, NEW k \in 1..Levels, NEW f \in Frame,
         ~Present(call.as, k, Wanted.page), \A j \in 1..k-1 : Present(call.as, j, Wanted.page)
  PROVE  Tree(Widened \cup {Entry(k, f)})
<1> DEFINE x == Entry(k, f)
           a == Holder(call.as, Wanted.page)
<1>1. Tree(Widened) /\ WidenedTo(Widened)
  BY WidenedTree DEF TreeInv
<1>2. x.as = a /\ x.node = Node(k, Wanted.page) /\ x.writable = Wanted.writable /\ x.node[1] = k
  BY DEF Entry, Node
<1>3. \A e \in entries : ~(e.as = a /\ e.node = Node(k, Wanted.page))
  <2>1. CASE IsUser(Wanted.page) \/ Node(1, Wanted.page)[2] \in khalf[call.as]
    BY <2>1 DEF Present
  <2>2. CASE ~(IsUser(Wanted.page) \/ Node(1, Wanted.page)[2] \in khalf[call.as])
    <3>1. k = 1
      <4>1. ~Present(call.as, 1, Wanted.page)
        BY <2>2 DEF Present
      <4> QED
        BY <4>1, PageAssumption
    <3>2. a = BootPml4 /\ call.as = BootPml4 /\ Node(1, Wanted.page)[1] = 1
      BY <2>2, WantedPage DEF Node
    <3> QED
      BY <2>2, <3>1, <3>2 DEF TreeInv, TopsPresent
  <2> QED
    BY <2>1, <2>2
<1>4. \A w \in Widened : ~(w.as = a /\ w.node = Node(k, Wanted.page))
  BY <1>1, <1>3 DEF WidenedTo
<1>5. k > 1 => \E t \in Widened : /\ t.as = a /\ t.node = <<k - 1, Node(k, Wanted.page)[2] \div Fanout>>
                                  /\ Wanted.writable => t.writable
  <2> SUFFICES ASSUME k > 1
               PROVE  \E t \in Widened : /\ t.as = a /\ t.node = <<k - 1, Node(k, Wanted.page)[2] \div Fanout>>
                                         /\ Wanted.writable => t.writable
    OBVIOUS
  <2>1. k - 1 \in 1..k-1 /\ k - 1 \in Table /\ k \in 2..Levels
    BY PageAssumption DEF Table
  <2>2. PICK e \in entries : e.as = a /\ e.node = Node(k - 1, Wanted.page)
    BY <2>1 DEF Present
  <2>3. OnTheWay(e)
    BY <2>1, <2>2 DEF OnTheWay
  <2>4. Node(k - 1, Wanted.page) = <<k - 1, Node(k, Wanted.page)[2] \div Fanout>>
    BY <2>1, NodeParent, WantedPage
  <2> HIDE DEF a
  <2> QED
    BY <1>1, <2>2, <2>3, <2>4 DEF WidenedTo
<1> HIDE DEF x, a
<1>6. \A e, g \in Widened \cup {x} : e.as = g.as /\ e.node = g.node => e = g
  BY <1>1, <1>2, <1>4 DEF Tree
<1>7. ASSUME NEW e \in Widened \cup {x}, e.node[1] > 1
      PROVE  \E t \in Widened \cup {x} : /\ t.as = e.as /\ t.node = <<e.node[1] - 1, e.node[2] \div Fanout>>
                                         /\ e.writable => t.writable
  <2>1. CASE e \in Widened
    BY <1>1, <1>7, <2>1 DEF Tree
  <2>2. CASE e = x
    BY <1>2, <1>5, <1>7, <2>2
  <2> QED
    BY <2>1, <2>2
<1>8. Tree(Widened \cup {x})
  BY <1>6, <1>7, Zenon DEF Tree
<1> QED
  BY <1>8 DEF x

\* The tables of the kernel half stay below the boot PML4 when the walk adds entries.
LEMMA TopsWidened ==
  ASSUME IInv, TreeInv, call.todo # <<>>,
         NEW e \in Widened, e.as = BootPml4, e.node[1] = 1
  PROVE  e.node[2] \in khalf[BootPml4]
  BY WidenedTree DEF TreeInv, TopsPresent, WidenedTo

LEMMA GetNextLevelTree == IInv /\ TreeInv /\ GetNextLevel => TreeInv'
<1> SUFFICES ASSUME IInv, TreeInv, GetNextLevel PROVE TreeInv'
  OBVIOUS
<1>1. call.todo # <<>>
  BY DEF GetNextLevel
<1>2. CASE entries' = Widened /\ UNCHANGED khalf
  BY <1>1, <1>2, WidenedTree, TopsWidened DEF TreeInv, TopsPresent
<1>3. ASSUME NEW f \in Lowest(Free), NEW k \in Lowest(MissingTables),
             entries' = Widened \cup {Entry(k, f)},
             khalf' = IF IsUser(Wanted.page) \/ k # 1 THEN khalf
                      ELSE [khalf EXCEPT ![call.as] = @ \cup {Node(1, Wanted.page)[2]}]
      PROVE  TreeInv'
  <2>1. /\ f \in Frame /\ k \in Table /\ k \in 1..Levels /\ ~Present(call.as, k, Wanted.page)
        /\ \A j \in Table : ~Present(call.as, j, Wanted.page) => k <= j
    BY PageAssumption DEF Lowest, Free, MissingTables, Table
  <2>2. \A j \in 1..k-1 : Present(call.as, j, Wanted.page)
    BY <2>1, PageAssumption DEF Table
  <2>3. Tree(entries')
    BY <1>1, <1>3, <2>1, <2>2, AddedTree
  <2>4. /\ \A top \in khalf[BootPml4] : top \in khalf'[BootPml4]
        /\ ~IsUser(Wanted.page) /\ k = 1 => Node(1, Wanted.page)[2] \in khalf'[BootPml4]
    BY <1>1, <1>3, WantedPage DEF IInv, TypeOK
  <2>5. ASSUME NEW e \in entries', e.as = BootPml4, e.node[1] = 1
        PROVE  e.node[2] \in khalf'[BootPml4]
    <3>1. CASE e \in Widened
      BY <1>1, <2>4, <2>5, <3>1, TopsWidened
    <3>2. CASE e = Entry(k, f)
      <4>1. e.node = Node(k, Wanted.page) /\ e.as = Holder(call.as, Wanted.page) /\ k = 1
        BY <2>5, <3>2 DEF Entry, Node
      <4> QED
        BY <1>1, <2>4, <2>5, <4>1, WantedPage
    <3> QED
      BY <1>3, <3>1, <3>2
  <2> QED
    BY <2>3, <2>5 DEF TreeInv, TopsPresent
<1> QED
  BY <1>2, <1>3 DEF GetNextLevel

LEMMA VmmMapPageTree == IInv /\ TreeInv /\ VmmMapPage => TreeInv'
<1> SUFFICES ASSUME IInv, TreeInv, VmmMapPage PROVE TreeInv'
  OBVIOUS
<1>1. call.todo # <<>> /\ call.frame # 0 /\ UNCHANGED khalf /\ MissingTables = {}
  BY DEF VmmMapPage
<1>2. CASE entries' = Widened
  BY <1>1, <1>2, WidenedTree, TopsWidened DEF TreeInv, TopsPresent
<1>3. ASSUME ~Present(call.as, Levels, Wanted.page), entries' = Widened \cup {Entry(Levels, call.frame)}
      PROVE  TreeInv'
  <2>1. call.frame \in Frame /\ Levels \in 1..Levels /\ Levels # 1
    <3>1. call \in Calls
      BY Zenon DEF IInv, TypeOK
    <3>2. Levels \in Nat \ {0, 1}
      BY PageAssumption, Zenon
    <3> QED
      BY <1>1, <3>1, <3>2 DEF Calls
  <2>2. \A j \in 1..Levels-1 : Present(call.as, j, Wanted.page)
    BY <1>1 DEF MissingTables, Table
  <2>3. Tree(entries')
    BY <1>1, <1>3, <2>1, <2>2, AddedTree, Zenon
  <2>4. Entry(Levels, call.frame).node[1] = Levels
    BY DEF Entry, Node
  <2> QED
    BY <1>1, <1>3, <2>1, <2>3, <2>4, TopsWidened DEF TreeInv, TopsPresent
<1> QED
  BY <1>2, <1>3 DEF VmmMapPage

\* The entries of whole address spaces go, or pages.
LEMMA PrunedTree ==
  ASSUME IInv, TreeInv, entries' \subseteq entries, khalf'[BootPml4] = khalf[BootPml4],
         \/ \E a : entries' = EntriesBut(a)
         \/ \A e \in entries \ entries' : e.node[1] = Levels
  PROVE  TreeInv'
<1>1. ASSUME NEW e \in entries', e.node[1] > 1
      PROVE  \E t \in entries' : /\ t.as = e.as /\ t.node = <<e.node[1] - 1, e.node[2] \div Fanout>>
                                 /\ e.writable => t.writable
  <2>1. PICK t \in entries : /\ t.as = e.as /\ t.node = <<e.node[1] - 1, e.node[2] \div Fanout>>
                             /\ e.writable => t.writable
    BY <1>1 DEF TreeInv, Tree
  <2>2. CASE \E a : entries' = EntriesBut(a)
    BY <2>1, <2>2 DEF EntriesBut
  <2>3. CASE \A g \in entries \ entries' : g.node[1] = Levels
    <3>1. t.node[1] = e.node[1] - 1 /\ (e.node[1] \in Table \/ e.node[1] = Levels)
      BY <2>1, EntryDepth
    <3>2. t.node[1] # Levels
      BY <3>1, PageAssumption DEF Table
    <3> QED
      BY <2>1, <2>3, <3>2
  <2> QED
    BY <2>2, <2>3
<1>2. \A e, f \in entries' : e.as = f.as /\ e.node = f.node => e = f
  BY DEF TreeInv, Tree
<1>3. Tree(entries')
  BY <1>1, <1>2 DEF Tree
<1>4. TopsPresent'
  BY DEF TreeInv, TopsPresent
<1> QED
  BY <1>3, <1>4 DEF TreeInv

\* vmm_destroy_address_space() takes all the tables of one address space.
LEMMA DestroyTree ==
  ASSUME IInv, TreeInv, NEW a \in Pml4s, VmmDestroyAddressSpace(a)
  PROVE  TreeInv'
<1>1. entries' = EntriesBut(a) /\ entries' \subseteq entries
  BY DEF VmmDestroyAddressSpace, EntriesBut
<1>2. khalf'[BootPml4] = khalf[BootPml4]
  BY DEF VmmDestroyAddressSpace, Without, Pml4s, IInv, TypeOK
<1> QED
  BY <1>1, <1>2, PrunedTree

LEMMA DestroyingTree ==
  ASSUME IInv, TreeInv, SpawnFails \/ ExecveFails \/ ExecveDestroysOld \/ \E z \in Pid : Reap(z)
  PROVE  TreeInv'
<1>2. CASE SpawnFails
  <2>1. call.as \in Pml4s
    BY <1>2, Zenon DEF SpawnFails, IInv, CallOK, RunsOnLiveTables
  <2>2. CASE VmmDestroyAddressSpace(call.as)
    BY <2>1, <2>2, DestroyTree
  <2>3. CASE UNCHANGED <<khalf, entries>>
    BY <2>3 DEF TreeInv, TopsPresent
  <2> QED
    BY <1>2, <2>2, <2>3 DEF SpawnFails
<1>3. CASE ExecveFails
  <2>1. call.as \in Pml4s
    BY <1>3 DEF ExecveFails, IInv, CallOK
  <2> QED
    BY <1>3, <2>1, DestroyTree DEF ExecveFails
<1>4. CASE ExecveDestroysOld
  <2>1. As(current) \in Pml4s
    BY <1>4 DEF ExecveDestroysOld, IInv, TypeOK, CallOK, RunsOnLiveTables, As, Live
  <2> QED
    BY <1>4, <2>1, DestroyTree DEF ExecveDestroysOld
<1>5. ASSUME NEW z \in Pid, Reap(z) PROVE TreeInv'
  <2>1. proc[z].as \in Pml4s
    BY <1>5 DEF Reap, Idle, Call, IInv, RunsOnLiveTables
  <2> QED
    BY <1>5, <2>1, DestroyTree DEF Reap
<1> QED
  BY <1>2, <1>3, <1>4, <1>5

LEMMA NextTree == IInv /\ TreeInv /\ [Next]_vars => TreeInv'
<1> SUFFICES ASSUME IInv, TreeInv, [Next]_vars PROVE TreeInv'
  OBVIOUS
<1>1. ASSUME UNCHANGED <<khalf, entries>> PROVE TreeInv'
  BY <1>1 DEF TreeInv, TopsPresent
<1>2. ASSUME NEW image \in Images, SysExecve(image) \/ \E p \in Pid : ProcessCreate(p, image)
      PROVE  TreeInv'
  <2>1. UNCHANGED entries /\ \E a \in Frame : VmmCreateAddressSpace(a)
    BY <1>2 DEF SysExecve, ProcessCreate, Lowest, Free
  <2>2. khalf'[BootPml4] = khalf[BootPml4]
    BY <2>1 DEF VmmCreateAddressSpace, IInv, TypeOK
  <2> QED
    BY <2>1, <2>2 DEF TreeInv, TopsPresent
<1>3. ASSUME NEW new \in BrkRequests, SysBrkShrink(new) PROVE TreeInv'
  <2>1. /\ UNCHANGED khalf /\ entries' \subseteq entries
        /\ \A e \in entries \ entries' : e.node[1] = Levels
    BY <1>3 DEF SysBrkShrink, VmmUnmapPages
  <2> QED
    BY <2>1, PrunedTree
<1>4. ASSUME \/ ExpandHeap \/ ReusePage \/ AllocPage \/ HeapReturns \/ SpawnSucceeds
             \/ ExecveInstallsNew \/ BrkReturns
             \/ \E new \in BrkRequests : SysBrkGrow(new)
             \/ \E q \in Live \cup {0} : Switch(q) \/ ProcessExit(q)
      PROVE  TreeInv'
  <2>1. UNCHANGED <<khalf, entries>>
    BY <1>4, Zenon DEF ExpandHeap, ReusePage, AllocPage, HeapReturns, SpawnSucceeds, ExecveInstallsNew,
       BrkReturns, SysBrkGrow, Switch, ProcessExit
  <2> QED
    BY <1>1, <2>1
<1>5. CASE UNCHANGED vars
  BY <1>1, <1>5 DEF vars
<1> QED
  BY <1>2, <1>3, <1>4, <1>5, GetNextLevelTree, VmmMapPageTree, DestroyingTree DEF Next

\* In every reachable state the page tables of every address space are trees, with one
\* entry per place, and no table forbids what an entry below it allows.
THEOREM PageTablesAreTrees == Spec => []TablesAreTrees
<1>1. Init => TreeInv
  BY DEF Init, TreeInv, Tree, TopsPresent
<1>2. TreeInv => TablesAreTrees
  BY DEF TreeInv, Tree, TablesAreTrees
<1> QED
  BY <1>1, <1>2, NextTree, Invariance, PTL DEF Spec

-----------------------------------------------------------------------------
(***************************************************************************)
(* HeapIsMapped.                                                           *)
(***************************************************************************)

\* HeapIsMapped follows from the invariant.
LEMMA SpaceIsMapped ==
  ASSUME NEW r \in Processes, SpaceOK(entries, r)
  PROVE  /\ UserRangeWritable(r.as, r.brk_start, r.brk - r.brk_start)
         /\ UserRangeReadable(r.as, StackBottom * PageSize, (StackTop + 1 - StackBottom) * PageSize)
<1>1. /\ PageSize \in Nat \ {0} /\ UserPages \in Nat /\ StackBottom \in Nat /\ StackTop \in Nat
      /\ StackBottom <= StackTop /\ StackTop + 1 <= UserPages /\ AddressEnd \in Nat
  BY PageAssumption, LayoutAssumption
<1> DEFINE q == BrkStart \div PageSize
<1>2. q \in Nat /\ BrkStart \in Nat /\ BrkStart = PageSize * q
  BY <1>1, BrkStartFacts, LayoutAssumption
<1> HIDE DEF q
<1>3. r.brk \in Nat /\ r.brk_start = BrkStart /\ BrkStart <= r.brk /\ r.brk + PageSize <= AddressEnd
  BY <1>1 DEF SpaceOK, Processes, Address
<1>4. PageUp(r.brk) \in Nat /\ r.brk <= PageSize * PageUp(r.brk) /\ PageUp(r.brk) <= UserPages
  BY <1>1, <1>3, PageUpFacts DEF SpaceOK
<1>5. UserRangeWritable(r.as, r.brk_start, r.brk - r.brk_start)
  <2> DEFINE allowed == {page \in 0..UserPages-1 : VmmIsUserWritable(entries, r.as, page)}
  <2>1. \A page \in q..(PageUp(r.brk) - 1) : page \in allowed
    BY <1>1, <1>2, <1>4 DEF SpaceOK, q
  <2> HIDE DEF allowed
  <2>2. UserRange(PageSize * q, r.brk - PageSize * q, allowed)
    BY <1>2, <1>3, <1>4, <2>1, RangeFacts
  <2> QED
    BY <1>2, <1>3, <2>2 DEF UserRangeWritable, allowed
<1>6. UserRangeReadable(r.as, StackBottom * PageSize, (StackTop + 1 - StackBottom) * PageSize)
  <2> DEFINE allowed == {page \in 0..UserPages-1 : VmmIsUserReadable(entries, r.as, page)}
             end == PageSize * (StackTop + 1)
  <2>1. \A page \in StackBottom..((StackTop + 1) - 1) : page \in allowed
    BY <1>1 DEF SpaceOK
  <2>2. /\ end \in Nat /\ PageSize * StackBottom <= end /\ end <= PageSize * (StackTop + 1)
        /\ StackTop + 1 \in Nat
    BY <1>1
  <2>3. end - PageSize * StackBottom = (StackTop + 1 - StackBottom) * PageSize
    BY <1>1
  <2>4. PageSize * StackBottom = StackBottom * PageSize
    BY <1>1
  <2> HIDE DEF allowed, end
  <2>5. UserRange(PageSize * StackBottom, end - PageSize * StackBottom, allowed)
    BY <1>1, <2>1, <2>2, RangeFacts, Zenon
  <2> QED
    BY <2>3, <2>4, <2>5 DEF UserRangeReadable, allowed
<1> QED
  BY <1>5, <1>6

\* Tables F lead wherever tables E lead in address space a, with the same rights.
Keeps(E, F, a) ==
  \A e \in E : e.as = a => \E w \in F : w.as = e.as /\ w.node = e.node /\ (e.writable => w.writable)

\* Pages stay when their tables stay.
LEMMA KeepsPages ==
  ASSUME NEW E, NEW F, NEW a, Keeps(E, F, a), NEW page
  PROVE  /\ VmmIsUserReadable(E, a, page) => VmmIsUserReadable(F, a, page)
         /\ VmmIsUserWritable(E, a, page) => VmmIsUserWritable(F, a, page)
<1>1. VmmIsUserReadable(E, a, page) => VmmIsUserReadable(F, a, page)
  BY DEF VmmIsUserReadable, Keeps
<1>2. VmmIsUserWritable(E, a, page) => VmmIsUserWritable(F, a, page)
  BY DEF VmmIsUserWritable, Keeps
<1> QED
  BY <1>1, <1>2

LEMMA KeepsSpace ==
  ASSUME NEW E, NEW F, NEW r, NEW s, Keeps(E, F, r.as), SpaceOK(E, r),
         s.as = r.as, s.brk_start = r.brk_start, s.brk = r.brk
  PROVE  SpaceOK(F, s)
  BY KeepsPages DEF SpaceOK

\* An address space that is as it was.
LEMMA SameTables == \A E, a : Keeps(E, E, a)
  BY DEF Keeps

\* A writable page is readable.
LEMMA WritableIsReadable ==
  ASSUME NEW E, NEW a, NEW page, VmmIsUserWritable(E, a, page)
  PROVE  VmmIsUserReadable(E, a, page)
  BY DEF VmmIsUserWritable, VmmIsUserReadable

\* Processes keep their pages when they keep their tables and their break.
LEMMA SpacesStep ==
  ASSUME MapInv,
         \A p \in Settled' : /\ p \in Settled /\ Keeps(entries, entries', proc[p].as)
                             /\ proc'[p].as = proc[p].as /\ proc'[p].brk_start = proc[p].brk_start
                             /\ proc'[p].brk = proc[p].brk
  PROVE  \A p \in Settled' : SpaceOK(entries', proc'[p])
<1> TAKE p \in Settled'
<1>1. SpaceOK(entries, proc[p])
  BY DEF MapInv
<1> QED
  BY <1>1, KeepsSpace

\* What is still to be mapped behind the first request.
LEMMA TailPending ==
  ASSUME NEW S, NEW todo \in Seq(S), todo # <<>>
  PROVE  /\ \A page : Pending(todo, page) => page = Head(todo).page \/ Pending(Tail(todo), page)
         /\ \A i \in 1..Len(Tail(todo)) : i + 1 \in 1..Len(todo) /\ Tail(todo)[i] = todo[i + 1]
<1>1. /\ Len(todo) \in Nat \ {0} /\ Len(Tail(todo)) = Len(todo) - 1 /\ Head(todo) = todo[1]
      /\ \A i \in 1..Len(Tail(todo)) : Tail(todo)[i] = todo[i + 1]
  OBVIOUS
<1>2. ASSUME NEW page, NEW i \in 1..Len(todo), todo[i].page = page, page # Head(todo).page
      PROVE  Pending(Tail(todo), page)
  <2>1. i # 1
    BY <1>1, <1>2
  <2>2. i - 1 \in 1..Len(Tail(todo)) /\ (i - 1) + 1 = i
    BY <1>1, <2>1
  <2>3. Tail(todo)[i - 1] = todo[i]
    BY <1>1, <2>2
  <2> QED
    BY <1>2, <2>2, <2>3, Zenon DEF Pending
<1>3. \A i \in 1..Len(Tail(todo)) : i + 1 \in 1..Len(todo)
  BY <1>1
<1> QED
  BY <1>1, <1>2, <1>3 DEF Pending

\* The first request has been served.
Served ==
  /\ call'.todo = Tail(call.todo)
  /\ call.op # "heap" => VmmIsUserReadable(entries', call.as, Wanted.page)
  /\ call.op = "brk" => VmmIsUserWritable(entries', call.as, Wanted.page)
  /\ call.op = "brk" /\ current \in Settled => Wanted.page \notin StackBottom..StackTop

\* A step of the loop that maps pages.
LEMMA LoopStep ==
  ASSUME IInv, MapInv, call.todo # <<>>, UNCHANGED <<proc, current>>,
         call'.op = call.op, call'.pid = call.pid, call'.as = call.as, call'.brk = call.brk,
         \A a : Keeps(entries, entries', a),
         \/ call'.valid = FALSE /\ call'.todo = <<>>
         \/ call'.valid = call.valid /\ (call'.todo = call.todo \/ Served)
  PROVE  MapInv'
<1>1. Settled' = Settled /\ call.op # "install"
  BY DEF Settled, Live, IInv, CallOK
<1>2. \A p \in Settled' : SpaceOK(entries', proc'[p])
  BY <1>1, SpacesStep
<1>3. CASE call'.valid = FALSE /\ call'.todo = <<>>
  <2>1. GrowthOK'
    BY <1>1, <1>3, NoIndex, Zenon DEF MapInv, GrowthOK
  <2>2. LoadOK'
    BY <1>1, <1>3 DEF MapInv, LoadOK
  <2> QED
    BY <1>2, <2>1, <2>2 DEF MapInv
<1>4. CASE call'.valid = call.valid /\ (call'.todo = call.todo \/ Served)
  <2>1. call.todo \in Seq(Wants)
    BY DEF IInv, TypeOK, Calls
  <2>2. \A i \in 1..Len(call'.todo) : \E j \in 1..Len(call.todo) : call'.todo[i] = call.todo[j]
    <3>1. CASE call'.todo = call.todo
      BY <3>1
    <3>2. CASE call'.todo = Tail(call.todo)
      BY <2>1, <3>2, TailPending
    <3> QED
      BY <1>4, <3>1, <3>2 DEF Served
  <2>3. ASSUME NEW page, Pending(call.todo, page), ~Pending(call'.todo, page)
        PROVE  Served /\ page = Wanted.page
    <3>1. Served
      BY <1>4, <2>3, Zenon
    <3>2. ~Pending(Tail(call.todo), page)
      BY <2>3, <3>1, Zenon DEF Served
    <3> QED
      BY <2>1, <2>3, <3>1, <3>2, TailPending, Zenon DEF Wanted
  <2>4. GrowthOK'
    <3> SUFFICES ASSUME call.op = "brk" PROVE GrowthOK'
      BY DEF GrowthOK
    <3>1. \A i \in 1..Len(call'.todo) : call'.todo[i].writable /\ ~call'.todo[i].reuse
      BY <2>2, Zenon DEF MapInv, GrowthOK
    <3>2. current' \in Settled' => proc'[current'].brk <= call'.brk
      BY <1>1 DEF MapInv, GrowthOK
    <3>3. ASSUME current \in Settled, call.valid,
                 NEW page \in PageUp(proc[current].brk)..(PageUp(call.brk) - 1)
          PROVE  \/ Pending(call'.todo, page)
                 \/ VmmIsUserWritable(entries', call.as, page) /\ page \notin StackBottom..StackTop
      <4>1. \/ Pending(call.todo, page)
            \/ VmmIsUserWritable(entries, call.as, page) /\ page \notin StackBottom..StackTop
        BY <3>3 DEF MapInv, GrowthOK
      <4>2. CASE Pending(call.todo, page) /\ ~Pending(call'.todo, page)
        BY <2>3, <3>3, <4>2 DEF Served
      <4> QED
        BY <4>1, <4>2, KeepsPages
    <3> QED
      BY <1>1, <1>4, <3>1, <3>2, <3>3 DEF GrowthOK
  <2>5. LoadOK'
    <3>1. ASSUME call.op \in {"spawn", "execve"}, call.valid, NEW page \in StackBottom..StackTop
          PROVE  Pending(call'.todo, page) \/ VmmIsUserReadable(entries', call.as, page)
      <4>1. Pending(call.todo, page) \/ VmmIsUserReadable(entries, call.as, page)
        BY <3>1 DEF MapInv, LoadOK
      <4>2. CASE Pending(call.todo, page) /\ ~Pending(call'.todo, page)
        BY <2>3, <3>1, <4>2 DEF Served
      <4> QED
        BY <4>1, <4>2, KeepsPages
    <3> QED
      BY <1>1, <1>4, <3>1 DEF MapInv, LoadOK
  <2> QED
    BY <1>2, <2>4, <2>5 DEF MapInv
<1> QED
  BY <1>3, <1>4, Zenon

\* Tables only grow while pages are mapped.
LEMMA WidenedKeepsAll ==
  ASSUME IInv, TreeInv, call.todo # <<>>, NEW F, Widened \subseteq F
  PROVE  \A a : Keeps(entries, F, a)
  BY WidenedTree DEF TreeInv, WidenedTo, Keeps

LEMMA FailedFields ==
  ASSUME IInv
  PROVE  /\ Failed.op = call.op /\ Failed.pid = call.pid /\ Failed.as = call.as /\ Failed.brk = call.brk
         /\ Failed.valid = FALSE /\ Failed.todo = <<>>
  BY DEF IInv, TypeOK, Calls, Failed

LEMMA ReusePageMap == IInv /\ MapInv /\ ReusePage => MapInv'
<1> SUFFICES ASSUME IInv, MapInv, ReusePage PROVE MapInv'
  OBVIOUS
<1>1. /\ call.todo # <<>> /\ Wanted.reuse /\ Mapped(call.as, Wanted.page)
      /\ call' = [call EXCEPT !.todo = Tail(@)] /\ UNCHANGED <<entries, proc, current>>
  BY DEF ReusePage
<1>2. /\ call'.op = call.op /\ call'.pid = call.pid /\ call'.as = call.as /\ call'.brk = call.brk
      /\ call'.valid = call.valid /\ call'.todo = Tail(call.todo)
  BY <1>1 DEF IInv, TypeOK, Calls
<1>3. call.op # "brk"
  <2>1. call.todo \in Seq(Wants)
    BY DEF IInv, TypeOK, Calls
  <2>2. 1 \in 1..Len(call.todo) /\ Wanted = call.todo[1]
    BY <1>1, <2>1 DEF Wanted
  <2> QED
    BY <1>1, <2>2 DEF MapInv, GrowthOK
<1>4. Served
  <2>1. call.op # "heap" => VmmIsUserReadable(entries, call.as, Wanted.page)
    BY <1>1, WantedFacts DEF Mapped, Present, VmmIsUserReadable, Holder
  <2> QED
    BY <1>1, <1>2, <1>3, <2>1 DEF Served
<1> QED
  BY <1>1, <1>2, <1>4, SameTables, LoopStep

LEMMA AllocPageMap == IInv /\ MapInv /\ AllocPage => MapInv'
<1> SUFFICES ASSUME IInv, MapInv, AllocPage PROVE MapInv'
  OBVIOUS
<1>1. call.todo # <<>> /\ UNCHANGED <<entries, proc, current>>
  BY DEF AllocPage
<1>2. CASE call' = Failed
  BY <1>1, <1>2, FailedFields, SameTables, LoopStep, Zenon
<1>3. ASSUME NEW f, call' = [call EXCEPT !.frame = f] PROVE MapInv'
  <2>1. /\ call'.op = call.op /\ call'.pid = call.pid /\ call'.as = call.as /\ call'.brk = call.brk
        /\ call'.valid = call.valid /\ call'.todo = call.todo
    BY <1>3 DEF IInv, TypeOK, Calls
  <2> QED
    BY <1>1, <2>1, SameTables, LoopStep
<1> QED
  BY <1>2, <1>3 DEF AllocPage

LEMMA GetNextLevelMap == IInv /\ TreeInv /\ MapInv /\ GetNextLevel => MapInv'
<1> SUFFICES ASSUME IInv, TreeInv, MapInv, GetNextLevel PROVE MapInv'
  OBVIOUS
<1>1. call.todo # <<>> /\ UNCHANGED <<proc, current>> /\ Widened \subseteq entries'
  BY DEF GetNextLevel
<1>2. \A a : Keeps(entries, entries', a)
  BY <1>1, WidenedKeepsAll
<1>3. CASE call' = Failed
  BY <1>1, <1>2, <1>3, FailedFields, LoopStep, Zenon
<1>4. CASE UNCHANGED call
  BY <1>1, <1>2, <1>4, LoopStep
<1> QED
  BY <1>3, <1>4 DEF GetNextLevel

LEMMA VmmMapPageMap == IInv /\ TreeInv /\ MapInv /\ VmmMapPage => MapInv'
<1> SUFFICES ASSUME IInv, TreeInv, MapInv, VmmMapPage PROVE MapInv'
  OBVIOUS
<1>1. call.todo # <<>> /\ UNCHANGED <<proc, current>> /\ Widened \subseteq entries' /\ MissingTables = {}
  BY DEF VmmMapPage
<1>2. \A a : Keeps(entries, entries', a)
  BY <1>1, WidenedKeepsAll
<1>3. CASE call' = Failed
  BY <1>1, <1>2, <1>3, FailedFields, LoopStep, Zenon
<1>4. ASSUME ~Present(call.as, Levels, Wanted.page),
             entries' = Widened \cup {Entry(Levels, call.frame)},
             call' = [call EXCEPT !.todo = Tail(@), !.frame = 0]
      PROVE  MapInv'
  <2>1. /\ call'.op = call.op /\ call'.pid = call.pid /\ call'.as = call.as /\ call'.brk = call.brk
        /\ call'.valid = call.valid /\ call'.todo = Tail(call.todo)
    BY <1>4 DEF IInv, TypeOK, Calls
  <2>2. ASSUME call.op # "heap" PROVE IsUser(Wanted.page) /\ Holder(call.as, Wanted.page) = call.as
    BY <1>1, <2>2, WantedFacts DEF Holder
  <2>3. ASSUME call.op # "heap", NEW k \in 1..Levels
        PROVE  \E e \in entries' : /\ e.as = call.as /\ e.node = Node(k, Wanted.page)
                                   /\ Wanted.writable => e.writable
    <3>1. CASE k = Levels
      <4>1. /\ Entry(k, call.frame).as = call.as /\ Entry(k, call.frame).node = Node(k, Wanted.page)
            /\ Entry(k, call.frame).writable = Wanted.writable
        BY <2>2, <2>3 DEF Entry
      <4> QED
        BY <1>4, <3>1, <4>1
    <3>2. CASE k # Levels
      <4>1. k \in Table
        BY <3>2, PageAssumption DEF Table
      <4>2. PICK e \in entries : e.as = call.as /\ e.node = Node(k, Wanted.page)
        BY <1>1, <2>2, <2>3, <4>1 DEF MissingTables, Present
      <4>3. OnTheWay(e)
        BY <2>2, <2>3, <4>1, <4>2 DEF OnTheWay
      <4> QED
        BY <1>1, <4>2, <4>3, WidenedTree DEF TreeInv, WidenedTo
    <3> QED
      BY <3>1, <3>2
  <2>4. call.op # "heap" => VmmIsUserReadable(entries', call.as, Wanted.page)
    BY <2>2, <2>3 DEF VmmIsUserReadable
  <2>5. call.op = "brk" => VmmIsUserWritable(entries', call.as, Wanted.page)
    <3> SUFFICES ASSUME call.op = "brk" PROVE VmmIsUserWritable(entries', call.as, Wanted.page)
      OBVIOUS
    <3>1. Wanted.writable
      <4>1. call.todo \in Seq(Wants)
        BY DEF IInv, TypeOK, Calls
      <4>2. 1 \in 1..Len(call.todo) /\ Wanted = call.todo[1]
        BY <1>1, <4>1 DEF Wanted
      <4> QED
        BY <4>2 DEF MapInv, GrowthOK
    <3> QED
      BY <2>2, <2>3, <3>1 DEF VmmIsUserWritable
  <2>6. ASSUME call.op = "brk", current \in Settled, Wanted.page \in StackBottom..StackTop
        PROVE  FALSE
    <3>1. VmmIsUserReadable(entries, proc[current].as, Wanted.page)
      BY <2>6 DEF MapInv, SpaceOK
    <3>2. call.as = proc[current].as
      BY <2>6, Zenon DEF IInv, CallOK
    <3>3. Levels \in 1..Levels
      BY PageAssumption
    <3> QED
      BY <1>4, <2>2, <2>6, <3>1, <3>2, <3>3 DEF VmmIsUserReadable, Present
  <2>7. Served
    BY <2>1, <2>4, <2>5, <2>6 DEF Served
  <2> QED
    BY <1>1, <1>2, <2>1, <2>7, LoopStep
<1> QED
  BY <1>3, <1>4 DEF VmmMapPage

\* Between calls, and in expand_heap(), nothing is promised of a call.
LEMMA IdleMap ==
  ASSUME call'.op \in {"none", "panic", "heap"}
  PROVE  GrowthOK' /\ LoadOK'
  BY DEF GrowthOK, LoadOK

\* A process whose break is just set.
LEMMA FreshSpace ==
  ASSUME NEW E, NEW r, r.brk_start = BrkStart, r.brk = BrkStart,
         \A page \in StackBottom..StackTop : VmmIsUserReadable(E, r.as, page)
  PROVE  SpaceOK(E, r)
<1>1. (BrkStart \div PageSize)..(PageUp(BrkStart) - 1) = {}
  BY BrkStartFacts
<1> QED
  BY <1>1, BrkStartFacts, LayoutAssumption DEF SpaceOK

LEMMA ProcessCreateMap ==
  ASSUME IInv, MapInv, NEW image \in Images, NEW p \in Pid, ProcessCreate(p, image)
  PROVE  MapInv'
<1>1. PICK a \in Frame, b \in Garbage, c \in Garbage :
        /\ proc' = [proc EXCEPT ![p] = [state |-> "new", parent |-> current, as |-> a,
                                       brk_start |-> b, brk |-> c, known |-> FALSE]]
        /\ call' = Call("spawn", p, a, ElfLoadImage(image), image.valid)
  BY Zenon DEF ProcessCreate, Lowest, Free
<1>2. /\ call'.op = "spawn" /\ call'.pid = p /\ call'.todo = ElfLoadImage(image)
      /\ call'.valid = image.valid /\ call.op = "none" /\ UNCHANGED <<entries, current>>
  BY <1>1 DEF Call, Idle, ProcessCreate
<1>3. proc'[p].state = "new" /\ proc'[p].known = FALSE /\ \A q \in Pid \ {p} : proc'[q] = proc[q]
  BY <1>1 DEF IInv, TypeOK
<1>4. \A q \in Settled' : q \in Settled /\ proc'[q] = proc[q]
  BY <1>2, <1>3 DEF Settled, Live
<1>5. \A q \in Settled' : SpaceOK(entries', proc'[q])
  BY <1>2, <1>4 DEF MapInv
<1>6. GrowthOK' /\ LoadOK'
  BY <1>2, <1>3, ImageType DEF GrowthOK, LoadOK
<1> QED
  BY <1>5, <1>6 DEF MapInv

LEMMA SysExecveMap ==
  ASSUME IInv, MapInv, NEW image \in Images, SysExecve(image)
  PROVE  MapInv'
<1>1. PICK a : call' = Call("execve", current, a, ElfLoadImage(image), image.valid)
  BY DEF SysExecve
<1>2. /\ call'.op = "execve" /\ call'.todo = ElfLoadImage(image)
      /\ call'.valid = image.valid /\ call.op = "none" /\ UNCHANGED <<entries, proc, current>>
  BY <1>1 DEF Call, Idle, SysExecve
<1>3. Settled' = Settled
  BY <1>2 DEF Settled, Live
<1>4. GrowthOK' /\ LoadOK'
  BY <1>2, ImageType DEF GrowthOK, LoadOK
<1> QED
  BY <1>2, <1>3, <1>4 DEF MapInv

LEMMA SysBrkGrowMap ==
  ASSUME IInv, MapInv, NEW new \in BrkRequests, SysBrkGrow(new)
  PROVE  MapInv'
<1> DEFINE first == PageUp(proc[current].brk)
           last == PageUp(new) - 1
<1>1. /\ current \in Pid /\ proc[current].brk \in Address /\ new \in Address
      /\ proc[current].brk \in Nat /\ new \in Nat /\ new > proc[current].brk
  BY PageAssumption DEF SysBrkGrow, IInv, TypeOK, Live, Processes, Address
<1>2. first \in Nat /\ last \in Int
  BY <1>1, PageUpType
<1>3. /\ call'.op = "brk" /\ call'.todo = Fresh(first, last) /\ call'.brk = new
      /\ call.op = "none" /\ UNCHANGED <<entries, proc, current>>
  BY DEF Call, Idle, SysBrkGrow
<1>4. Settled' = Settled
  BY <1>3 DEF Settled, Live
<1>5. \A p \in Settled' : SpaceOK(entries', proc'[p])
  BY <1>3, <1>4 DEF MapInv
<1>6. PageUp(proc[current].brk) = first /\ PageUp(new) - 1 = last
  OBVIOUS
<1> HIDE DEF first, last
<1>7. GrowthOK'
  <2>1. \A i \in 1..Len(call'.todo) : call'.todo[i].writable /\ ~call'.todo[i].reuse
    BY <1>2, <1>3, FreshPending, Zenon
  <2>2. \A page \in first..last : Pending(call'.todo, page)
    BY <1>2, <1>3, FreshPending, Zenon
  <2>3. proc'[current'].brk <= call'.brk
    <3>1. proc'[current'].brk = proc[current].brk /\ call'.brk = new
      BY <1>3
    <3>2. proc[current].brk <= new
      BY <1>1
    <3> QED
      BY <3>1, <3>2
  <2>4. PageUp(proc'[current'].brk) = first /\ PageUp(call'.brk) - 1 = last
    BY <1>3, <1>6
  <2> QED
    BY <2>1, <2>2, <2>3, <2>4 DEF GrowthOK
<1>8. LoadOK'
  BY <1>3 DEF LoadOK
<1> QED
  BY <1>5, <1>7, <1>8 DEF MapInv

LEMMA SysBrkShrinkMap ==
  ASSUME IInv, MapInv, NEW new \in BrkRequests, SysBrkShrink(new)
  PROVE  MapInv'
<1> DEFINE r == proc[current]
           s == proc'[current]
           kept(page) == page \notin PageUp(new)..(PageUp(r.brk) - 1)
<1>1. /\ current \in Pid /\ r.brk \in Address /\ new \in Address /\ r \in Processes
      /\ r.brk \in Nat /\ new \in Nat /\ new < r.brk /\ r.brk_start <= new
  BY PageAssumption DEF SysBrkShrink, IInv, TypeOK, Live, Processes, Address
<1>2. /\ call.op = "none" /\ UNCHANGED <<current, call>> /\ As(current) = r.as
      /\ entries' = entries \ {e \in entries : /\ e.as = r.as /\ e.node[1] = Levels
                                               /\ ~kept(e.node[2])}
  BY <1>1 DEF SysBrkShrink, VmmUnmapPages, Idle, Call, As
<1>3. /\ s.as = r.as /\ s.brk_start = r.brk_start /\ s.brk = new /\ s.known = r.known /\ s.state = r.state
      /\ \A p \in Pid \ {current} : proc'[p] = proc[p]
  BY <1>1 DEF SysBrkShrink, IInv, TypeOK, Processes
<1> HIDE DEF kept
<1>4. Settled' = Settled
  BY <1>2, <1>3 DEF Settled, Live
<1>5. ASSUME NEW p \in Settled, p # current PROVE SpaceOK(entries', proc'[p])
  <2>1. p \in Pid /\ SpaceOK(entries, proc[p]) /\ proc[p].state = "live"
    BY <1>5 DEF MapInv, Settled, Live
  <2>2. proc[current].state = "live"
    BY <1>1 DEF IInv, TypeOK, Live
  <2>3. proc[p].as # r.as
    BY <1>1, <1>5, <2>1, <2>2 DEF IInv, RunsOnLiveTables
  <2>4. Keeps(entries, entries', proc[p].as)
    BY <1>2, <2>3 DEF Keeps
  <2> QED
    BY <1>3, <1>5, <2>1, <2>4, KeepsSpace
<1>6. ASSUME current \in Settled PROVE SpaceOK(entries', s)
  <2>1. SpaceOK(entries, r)
    BY <1>6 DEF MapInv
  <2>2. new + PageSize <= AddressEnd /\ r.brk + PageSize <= AddressEnd /\ r.brk_start = BrkStart
    <3>1. r.brk + PageSize <= AddressEnd /\ r.brk_start = BrkStart
      BY <2>1, Zenon DEF SpaceOK
    <3>2. new < r.brk /\ new \in Nat /\ r.brk \in Nat /\ PageSize \in Nat /\ AddressEnd \in Nat
      BY <1>1, PageAssumption
    <3> HIDE DEF r, s
    <3> QED
      BY <3>1, <3>2
  <2>3. PageUp(new) \in Nat /\ PageUp(r.brk) \in Nat /\ r.brk <= PageSize * PageUp(r.brk)
    BY <1>1, <2>2, PageUpFacts
  <2>4. new <= PageSize * PageUp(r.brk)
    BY <1>1, <2>3, PageAssumption
  <2>5. PageUp(new) <= PageUp(r.brk) /\ PageUp(r.brk) <= StackBottom
    BY <1>1, <2>1, <2>2, <2>3, <2>4, PageUpFacts DEF SpaceOK
  <2>6. ASSUME NEW page \in Nat, kept(page), NEW e \in entries, NEW k \in 1..Levels,
               e.node = Node(k, page)
        PROVE  e \in entries'
    <3>1. e.node[1] = k
      BY <2>6 DEF Node
    <3>2. k = Levels => e.node[2] = page
      BY <2>6, LowestNode
    <3> QED
      BY <1>2, <2>6, <3>1, <3>2
  <2>7. ASSUME NEW page \in (BrkStart \div PageSize)..(PageUp(new) - 1)
        PROVE  VmmIsUserWritable(entries', r.as, page)
    <3>1. page \in Nat /\ page \in (BrkStart \div PageSize)..(PageUp(r.brk) - 1) /\ kept(page)
      BY <2>3, <2>5, <2>7, BrkStartFacts DEF kept
    <3> QED
      BY <2>1, <2>6, <3>1 DEF SpaceOK, VmmIsUserWritable
  <2>8. ASSUME NEW page \in StackBottom..StackTop
        PROVE  VmmIsUserReadable(entries', r.as, page)
    <3>1. page \in Nat /\ StackBottom <= page /\ StackBottom \in Nat
      BY <2>8, PageAssumption
    <3>2. kept(page)
      BY <2>3, <2>5, <3>1 DEF kept
    <3> QED
      BY <2>1, <2>6, <3>1, <3>2 DEF SpaceOK, VmmIsUserReadable
  <2>9. PageUp(new) <= StackBottom
    BY <2>3, <2>5, PageAssumption
  <2> HIDE DEF r, s
  <2> QED
    BY <1>1, <1>3, <2>2, <2>7, <2>8, <2>9 DEF SpaceOK
<1>7. GrowthOK' /\ LoadOK'
  BY <1>2, IdleMap
<1> QED
  BY <1>2, <1>4, <1>5, <1>6, <1>7, Zenon DEF MapInv

LEMMA SpawnSucceedsMap == IInv /\ MapInv /\ SpawnSucceeds => MapInv'
<1> SUFFICES ASSUME IInv, MapInv, SpawnSucceeds PROVE MapInv'
  OBVIOUS
<1>1. /\ call.op = "spawn" /\ call.todo = <<>> /\ call.valid /\ call' = Idle /\ call'.op = "none"
      /\ UNCHANGED <<entries, current>>
  BY DEF SpawnSucceeds, Idle, Call
<1>2. /\ call.pid \in Pid /\ proc[call.pid].state = "new" /\ call.as = proc[call.pid].as
      /\ proc[call.pid].known = FALSE /\ proc[call.pid] \in Processes
  BY <1>1 DEF IInv, TypeOK, CallOK, MapInv, LoadOK, Processes
<1>3. GrowthOK' /\ LoadOK'
  BY <1>1, IdleMap
<1>4. \A p \in Pid \ {call.pid} : proc'[p] = proc[p]
  BY <1>2 DEF SpawnSucceeds, IInv, TypeOK
<1>5. ASSUME NEW p \in Settled', p # call.pid PROVE SpaceOK(entries', proc'[p])
  <2>1. p \in Settled /\ proc'[p] = proc[p]
    BY <1>1, <1>4, <1>5 DEF Settled, Live
  <2> QED
    BY <1>1, <2>1 DEF MapInv
<1>6. ASSUME call.pid \in Settled' PROVE SpaceOK(entries', proc'[call.pid])
  <2>1. proc'[call.pid].known
    BY <1>6 DEF Settled
  <2>2. current # 0
    BY <1>2, <2>1 DEF SpawnSucceeds, IInv, TypeOK, Processes
  <2>3. /\ proc'[call.pid].as = call.as /\ proc'[call.pid].brk_start = BrkStart
        /\ proc'[call.pid].brk = BrkStart
    BY <1>2, <2>2 DEF SpawnSucceeds, IInv, TypeOK, Processes
  <2>4. \A page \in StackBottom..StackTop : VmmIsUserReadable(entries, call.as, page)
    BY <1>1 DEF MapInv, LoadOK, Pending
  <2> QED
    BY <1>1, <2>3, <2>4, FreshSpace
<1> QED
  BY <1>3, <1>5, <1>6 DEF MapInv

LEMMA ExecveInstallsNewMap == IInv /\ MapInv /\ ExecveInstallsNew => MapInv'
<1> SUFFICES ASSUME IInv, MapInv, ExecveInstallsNew PROVE MapInv'
  OBVIOUS
<1>1. /\ call.op = "install" /\ call.todo = <<>> /\ call.valid /\ call'.op = "none"
      /\ UNCHANGED <<entries, current>>
  BY DEF ExecveInstallsNew, Idle, Call, IInv, CallOK, MapInv, LoadOK
<1>2. current \in Pid /\ proc[current] \in Processes
  BY <1>1 DEF IInv, TypeOK, CallOK, Live
<1>3. GrowthOK' /\ LoadOK'
  BY <1>1, IdleMap
<1>4. /\ proc'[current].as = call.as /\ proc'[current].brk_start = BrkStart
      /\ proc'[current].brk = BrkStart
      /\ \A p \in Pid \ {current} : proc'[p] = proc[p]
  BY <1>2 DEF ExecveInstallsNew, IInv, TypeOK, Processes
<1>5. ASSUME NEW p \in Settled', p # current PROVE SpaceOK(entries', proc'[p])
  <2>1. p \in Settled /\ proc'[p] = proc[p]
    BY <1>1, <1>4, <1>5 DEF Settled, Live
  <2> QED
    BY <1>1, <2>1 DEF MapInv
<1>6. SpaceOK(entries', proc'[current])
  <2>1. \A page \in StackBottom..StackTop : VmmIsUserReadable(entries, call.as, page)
    BY <1>1 DEF MapInv, LoadOK, Pending
  <2> QED
    BY <1>1, <1>4, <2>1, FreshSpace
<1> QED
  BY <1>3, <1>5, <1>6 DEF MapInv

LEMMA BrkReturnsMap == IInv /\ MapInv /\ BrkReturns => MapInv'
<1> SUFFICES ASSUME IInv, MapInv, BrkReturns PROVE MapInv'
  OBVIOUS
<1> DEFINE r == proc[current]
           s == proc'[current]
<1>1. call.op = "brk" /\ call.todo = <<>> /\ call'.op = "none" /\ UNCHANGED <<entries, current>>
  BY DEF BrkReturns, Idle, Call
<1>2. /\ current \in Pid /\ r \in Processes /\ r.brk \in Address /\ call.brk \in Address /\ call.as = r.as
      /\ r.state = "live"
  BY <1>1 DEF IInv, TypeOK, CallOK, Live, Processes, Calls
<1>3. GrowthOK' /\ LoadOK'
  BY <1>1, IdleMap
<1>4. \A p \in Pid \ {current} : proc'[p] = proc[p]
  BY <1>2 DEF BrkReturns, IInv, TypeOK
<1>5. ASSUME NEW p \in Settled', p # current PROVE SpaceOK(entries', proc'[p])
  <2>1. p \in Settled /\ proc'[p] = proc[p]
    BY <1>1, <1>4, <1>5 DEF Settled, Live
  <2> QED
    BY <1>1, <2>1 DEF MapInv
<1>6. ASSUME current \in Settled' PROVE SpaceOK(entries', s)
  <2>1. CASE ~call.valid
    <3>1. proc' = proc /\ current \in Settled
      BY <1>1, <1>2, <1>6, <2>1 DEF BrkReturns, Settled, Live
    <3> QED
      BY <1>1, <3>1 DEF MapInv
  <2>2. CASE call.valid
    <3>1. /\ s.as = r.as /\ s.brk_start = r.brk_start /\ s.brk = call.brk
          /\ s.known <=> (r.known /\ call.brk + PageSize <= AddressEnd)
      BY <1>2, <2>2, Zenon DEF BrkReturns, IInv, TypeOK, Processes
    <3>2. current \in Settled /\ call.brk + PageSize <= AddressEnd
      BY <1>1, <1>2, <1>6, <3>1 DEF Settled, Live
    <3>3. SpaceOK(entries, r) /\ r.brk <= call.brk
      BY <1>1, <3>2 DEF MapInv, GrowthOK
    <3>4. \A page \in PageUp(r.brk)..(PageUp(call.brk) - 1) :
            VmmIsUserWritable(entries, r.as, page) /\ page \notin StackBottom..StackTop
      <4>1. \A page : ~Pending(<<>>, page)
        BY DEF Pending
      <4>2. \A page : ~Pending(call.todo, page)
        BY <1>1, <4>1, Zenon
      <4> QED
        BY <1>1, <1>2, <2>2, <3>2, <4>2, Zenon DEF MapInv, GrowthOK
    <3> HIDE DEF r, s
    <3>5. PageUp(r.brk) \in Nat /\ PageUp(call.brk) \in Nat /\ r.brk \in Nat /\ call.brk \in Nat
      BY <1>2, PageUpType DEF Address
    <3>6. PageUp(call.brk) <= StackBottom
      <4>1. StackBottom \in StackBottom..StackTop /\ StackBottom \in Nat /\ PageUp(r.brk) <= StackBottom
        BY <3>3, PageAssumption, LayoutAssumption DEF SpaceOK
      <4>2. StackBottom \notin PageUp(r.brk)..(PageUp(call.brk) - 1)
        BY <3>4, <4>1
      <4> QED
        BY <3>5, <4>1, <4>2
    <3>7. ASSUME NEW page \in (BrkStart \div PageSize)..(PageUp(call.brk) - 1)
          PROVE  VmmIsUserWritable(entries, r.as, page)
      <4>1. \/ page \in (BrkStart \div PageSize)..(PageUp(r.brk) - 1)
            \/ page \in PageUp(r.brk)..(PageUp(call.brk) - 1)
        BY <3>5, BrkStartFacts
      <4> QED
        BY <3>3, <3>4, <4>1 DEF SpaceOK
    <3>8. BrkStart <= call.brk
      BY <3>3, <3>5, BrkStartFacts DEF SpaceOK
    <3> QED
      BY <1>1, <3>1, <3>2, <3>3, <3>6, <3>7, <3>8 DEF SpaceOK
  <2> QED
    BY <2>1, <2>2
<1> QED
  BY <1>1, <1>3, <1>5, <1>6 DEF MapInv

\* The destruction of an address space no settled process runs in.
LEMMA DestroyMap ==
  ASSUME MapInv, NEW a, entries' = EntriesBut(a), GrowthOK', LoadOK',
         \A p \in Settled' : p \in Settled /\ proc'[p] = proc[p] /\ proc[p].as # a
  PROVE  MapInv'
<1>1. \A b : b # a => Keeps(entries, entries', b)
  BY DEF Keeps, EntriesBut
<1>2. \A p \in Settled' : SpaceOK(entries', proc'[p])
  BY <1>1, SpacesStep
<1> QED
  BY <1>2 DEF MapInv

LEMMA SpawnFailsMap == IInv /\ MapInv /\ SpawnFails => MapInv'
<1> SUFFICES ASSUME IInv, MapInv, SpawnFails PROVE MapInv'
  OBVIOUS
<1>1. /\ call.op = "spawn" /\ call'.op \in {"none", "panic"} /\ UNCHANGED current
  <2>1. Idle.op = "none" /\ Panic.op = "panic"
    BY DEF Idle, Panic, Call
  <2>2. call.op = "spawn" /\ call' \in {Idle, Panic} /\ UNCHANGED current
    BY DEF SpawnFails
  <2> QED
    BY <2>1, <2>2
<1>2. GrowthOK' /\ LoadOK'
  BY <1>1, IdleMap
<1>3. CASE UNCHANGED <<entries, proc>>
  <2>1. Settled' = Settled
    BY <1>1, <1>3 DEF Settled, Live
  <2> QED
    BY <1>2, <1>3, <2>1 DEF MapInv
<1>4. CASE VmmDestroyAddressSpace(call.as) /\ proc' = [proc EXCEPT ![call.pid] = NoProcess]
  <2>1. call.pid \in Pid /\ proc[call.pid].state = "new" /\ call.as = proc[call.pid].as
    BY <1>1 DEF IInv, CallOK
  <2>2. proc'[call.pid].state = "none" /\ \A p \in Pid \ {call.pid} : proc'[p] = proc[p]
    BY <1>4, <2>1 DEF IInv, TypeOK, NoProcess
  <2>3. \A p \in Settled' : p \in Settled /\ proc'[p] = proc[p] /\ proc[p].as # call.as
    BY <1>1, <2>1, <2>2 DEF Settled, Live, IInv, RunsOnLiveTables
  <2> QED
    BY <1>2, <1>4, <2>3, DestroyMap DEF VmmDestroyAddressSpace
<1> QED
  BY <1>3, <1>4 DEF SpawnFails

LEMMA ExecveFailsMap == IInv /\ MapInv /\ ExecveFails => MapInv'
<1> SUFFICES ASSUME IInv, MapInv, ExecveFails PROVE MapInv'
  OBVIOUS
<1>1. /\ call.op = "execve" /\ call'.op = "none" /\ UNCHANGED <<proc, current>>
      /\ entries' = EntriesBut(call.as)
  BY DEF ExecveFails, Idle, Call, VmmDestroyAddressSpace
<1>2. GrowthOK' /\ LoadOK'
  BY <1>1, IdleMap
<1>3. \A p \in Settled' : p \in Settled /\ proc'[p] = proc[p] /\ proc[p].as # call.as
  BY <1>1 DEF Settled, Live, IInv, CallOK
<1> QED
  BY <1>1, <1>2, <1>3, DestroyMap

LEMMA ExecveDestroysOldMap == IInv /\ MapInv /\ ExecveDestroysOld => MapInv'
<1> SUFFICES ASSUME IInv, MapInv, ExecveDestroysOld PROVE MapInv'
  OBVIOUS
<1>1. /\ call.op = "execve" /\ call.valid /\ call.todo = <<>> /\ UNCHANGED <<proc, current>>
      /\ entries' = EntriesBut(As(current)) /\ call' = [call EXCEPT !.op = "install"]
  BY DEF ExecveDestroysOld, VmmDestroyAddressSpace
<1>2. /\ call'.op = "install" /\ call'.valid = call.valid /\ call'.todo = call.todo /\ call'.as = call.as
  BY <1>1, Zenon DEF IInv, TypeOK, Calls
<1>3. /\ current \in Pid /\ As(current) = proc[current].as /\ proc[current].state = "live"
      /\ call.as # As(current)
  BY <1>1 DEF IInv, TypeOK, CallOK, Live, As
<1>4. \A p \in Settled' : p \in Settled /\ proc'[p] = proc[p] /\ proc[p].as # As(current)
  BY <1>1, <1>2, <1>3 DEF Settled, Live, IInv, RunsOnLiveTables
<1>5. GrowthOK'
  BY <1>2 DEF GrowthOK
<1>6. LoadOK'
  <2>1. Keeps(entries, entries', call.as)
    BY <1>1, <1>3 DEF Keeps, EntriesBut
  <2>2. \A page \in StackBottom..StackTop : VmmIsUserReadable(entries, call.as, page)
    BY <1>1 DEF MapInv, LoadOK, Pending
  <2>3. \A page \in StackBottom..StackTop : VmmIsUserReadable(entries', call.as, page)
    BY <2>1, <2>2, KeepsPages
  <2> QED
    BY <1>1, <1>2, <2>3 DEF LoadOK
<1> QED
  BY <1>1, <1>4, <1>5, <1>6, DestroyMap

LEMMA ReapMap ==
  ASSUME IInv, MapInv, NEW z \in Pid, Reap(z)
  PROVE  MapInv'
<1>1. /\ call.op = "none" /\ UNCHANGED <<call, current>> /\ entries' = EntriesBut(proc[z].as)
      /\ proc[z].state = "zombie" /\ proc' = [proc EXCEPT ![z] = NoProcess]
  BY DEF Reap, Idle, Call, VmmDestroyAddressSpace
<1>2. proc'[z].state = "none" /\ \A p \in Pid \ {z} : proc'[p] = proc[p]
  BY <1>1 DEF IInv, TypeOK, NoProcess
<1>3. \A p \in Settled' : p \in Settled /\ proc'[p] = proc[p] /\ proc[p].as # proc[z].as
  BY <1>1, <1>2 DEF Settled, Live, IInv, RunsOnLiveTables
<1>4. GrowthOK' /\ LoadOK'
  BY <1>1, IdleMap
<1> QED
  BY <1>1, <1>3, <1>4, DestroyMap

\* Steps that change neither tables nor breaks.
LEMMA QuietMap ==
  ASSUME IInv, MapInv,
         ExpandHeap \/ HeapReturns \/ \E q \in Live \cup {0} : Switch(q) \/ ProcessExit(q)
  PROVE  MapInv'
<1>1. /\ call.op \in {"none", "heap"} /\ call'.op \in {"none", "heap", "panic"} /\ UNCHANGED entries
  BY DEF ExpandHeap, HeapReturns, Switch, ProcessExit, Idle, Panic, Call
<1>2. GrowthOK' /\ LoadOK'
  BY <1>1, IdleMap
<1>3. \A p \in Settled' : /\ p \in Settled /\ proc'[p].as = proc[p].as
                          /\ proc'[p].brk_start = proc[p].brk_start /\ proc'[p].brk = proc[p].brk
  <2>1. CASE UNCHANGED proc
    BY <1>1, <2>1 DEF Settled, Live
  <2>2. ASSUME NEW q, ProcessExit(q)
        PROVE  \A p \in Settled' : /\ p \in Settled /\ proc'[p].as = proc[p].as
                                   /\ proc'[p].brk_start = proc[p].brk_start /\ proc'[p].brk = proc[p].brk
    <3> SUFFICES ASSUME NEW p \in Settled'
                 PROVE  /\ p \in Settled /\ proc'[p].as = proc[p].as
                        /\ proc'[p].brk_start = proc[p].brk_start /\ proc'[p].brk = proc[p].brk
      OBVIOUS
    <3>1. p \in Pid /\ proc[p] \in Processes /\ proc'[p].state = "live" /\ proc'[p].known
      BY DEF Settled, Live, IInv, TypeOK
    <3>2. proc'[p] = IF p = current THEN [proc[p] EXCEPT !.state = "zombie"]
                     ELSE IF proc[p].parent = current THEN [proc[p] EXCEPT !.parent = 0] ELSE proc[p]
      BY <2>2, <3>1 DEF ProcessExit
    <3>3. /\ proc[p].state = "live" /\ proc[p].known = proc'[p].known /\ proc'[p].as = proc[p].as
          /\ proc'[p].brk_start = proc[p].brk_start /\ proc'[p].brk = proc[p].brk
      BY <3>1, <3>2 DEF Processes
    <3> QED
      BY <1>1, <3>1, <3>3, Zenon DEF Settled, Live
  <2> QED
    BY <2>1, <2>2, Zenon DEF ExpandHeap, HeapReturns, Switch
<1>4. \A p \in Settled' : SpaceOK(entries', proc'[p])
  BY <1>1, <1>3, SameTables, SpacesStep
<1> QED
  BY <1>2, <1>4 DEF MapInv

LEMMA NextMap == IInv /\ TreeInv /\ MapInv /\ [Next]_vars => MapInv'
<1> SUFFICES ASSUME IInv, TreeInv, MapInv, [Next]_vars PROVE MapInv'
  OBVIOUS
<1>1. CASE UNCHANGED vars
  BY <1>1 DEF vars, MapInv, Settled, Live, GrowthOK, LoadOK
<1> QED
  BY <1>1, ProcessCreateMap, SysExecveMap, SysBrkGrowMap, SysBrkShrinkMap, ReusePageMap, AllocPageMap,
     GetNextLevelMap, VmmMapPageMap, SpawnSucceedsMap, SpawnFailsMap, ExecveFailsMap,
     ExecveDestroysOldMap, ExecveInstallsNewMap, BrkReturnsMap, ReapMap, QuietMap, Zenon DEF Next

\* In every reachable state a process whose break was set, and never to an address in
\* the last page, can pass its whole heap to read() and its whole stack to write():
\* user_range_writable() and user_range_readable() accept them, however many growths
\* of the break have failed.  Nothing is said of init's break, which nobody sets.
THEOREM HeapsAreMapped == Spec => []HeapIsMapped
<1>1. Init => MapInv
  <2> SUFFICES ASSUME Init PROVE MapInv
    OBVIOUS
  <2>1. call.op = "heap"
    BY DEF Init, Call
  <2>2. Settled = {}
    BY DEF Init, Settled, Live, NoProcess
  <2> QED
    BY <2>1, <2>2 DEF MapInv, GrowthOK, LoadOK
<1>2. IInv /\ MapInv => HeapIsMapped
  <2> SUFFICES ASSUME IInv, MapInv, NEW p \in Live, proc[p].known, call.op # "install"
               PROVE  /\ UserRangeWritable(proc[p].as, proc[p].brk_start, proc[p].brk - proc[p].brk_start)
                      /\ UserRangeReadable(proc[p].as, StackBottom * PageSize,
                                           (StackTop + 1 - StackBottom) * PageSize)
    BY DEF HeapIsMapped
  <2>1. proc[p] \in Processes
    BY DEF IInv, TypeOK, Live
  <2>2. SpaceOK(entries, proc[p])
    BY DEF MapInv, Settled
  <2> QED
    BY <2>1, <2>2, SpaceIsMapped
<1>3. Init => TreeInv
  BY DEF Init, TreeInv, Tree, TopsPresent
<1> QED
  BY <1>1, <1>2, <1>3, NextTree, NextMap, Invariance, PTL DEF Spec
=============================================================================
