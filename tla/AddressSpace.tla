---------------------------- MODULE AddressSpace ----------------------------
(***************************************************************************)
(* Address spaces: vmm.c, the part of elf.c that maps an image, and the    *)
(* system calls that create, replace, grow and destroy them (spawn,        *)
(* execve, brk, exit, waitpid), with the kernel heap growing beside them.  *)
(*                                                                         *)
(* An address space is named by the frame of its PML4, as in the code.     *)
(* The other page tables and the mapped pages are entries: the entry of    *)
(* depth k on the way to a page is named by the index prefix it covers, a  *)
(* table for k < Levels and the page itself for k = Levels.  The kernel    *)
(* half has one set of tables; a PML4 sees those whose top entries it had  *)
(* copied when it was made.                                                *)
(*                                                                         *)
(* System calls run with interrupts disabled, one at a time.  A call that  *)
(* allocates goes one frame per step, and every allocation may find        *)
(* memory exhausted.                                                       *)
(***************************************************************************)
EXTENDS Integers, Sequences

CONSTANTS
  Frame,        \* the frames the PMM hands out
  BootPml4,     \* the PML4 of boot.asm: the kernel's own, not from the PMM
  Pid,          \* user processes
  InitPid,      \* the process kernel_main() starts
  Levels,       \* levels of page tables: 4 on x86_64
  Fanout,       \* entries of a table: 512
  Span,         \* depth -> pages below an entry of that depth
  UserPages,    \* pages 0 .. UserPages - 1 are the lower half
  HeapBase,     \* the first page of the kernel heap
  HeapPages,    \* pages reserved for it
  BootTops,     \* kernel entries of the boot PML4
  PageSize,     \* addresses per page
  AddressEnd,   \* addresses are 0 .. AddressEnd - 1, modulo AddressEnd: 2^64
  StackBottom, StackTop, \* the first and the last page of the user stack
  BrkStart,     \* 0x10000000
  Images,       \* ELF images, see Image
  BrkRequests,  \* arguments of brk
  Garbage       \* what an unset break may read as

VARIABLES
  used,     \* frames marked in the PMM's bitmap
  khalf,    \* PML4 in use -> the kernel entries present in it
  entries,  \* the present entries below the PML4s
  proc,     \* processes
  current,  \* the running process; 0 is the kernel
  cr3,      \* the PML4 the processor translates with
  heap_end, \* committed end of the kernel heap, in pages
  call      \* the system call being executed

vars == <<used, khalf, entries, proc, current, cr3, heap_end, call>>

Address == 0..AddressEnd-1

ASSUME FrameAssumption == Frame \subseteq Nat \ {0} /\ BootPml4 \notin Frame
ASSUME PidAssumption == Pid \subseteq Nat \ {0} /\ InitPid \in Pid
ASSUME PageAssumption ==
  /\ UserPages \in Nat /\ HeapBase \in Nat /\ HeapPages \in Nat /\ UserPages <= HeapBase /\ HeapPages > 0
  /\ Levels \in Nat \ {0, 1} /\ Fanout \in Nat \ {0, 1} /\ PageSize \in Nat \ {0} /\ AddressEnd \in Nat \ {0}
  /\ BrkStart \in Address /\ Garbage \subseteq Address /\ BrkRequests \subseteq Address
  /\ BootTops \subseteq Nat
  /\ StackBottom \in Nat /\ StackTop \in Nat /\ StackTop < UserPages

\* An index of 9 bits per level, and nothing below a page.
ASSUME SpanAssumption ==
  /\ Span \in [1..Levels -> Nat \ {0}] /\ Span[Levels] = 1
  /\ \A k \in 2..Levels : Span[k - 1] = Fanout * Span[k]

\* PAGE_ALIGN_UP, as a page; the sum wraps.
PageUp(x) == ((x + PageSize - 1) % AddressEnd) \div PageSize

\* The break starts on a page, below the stack; the lower half ends before the addresses do.
ASSUME LayoutAssumption ==
  /\ BrkStart % PageSize = 0 /\ BrkStart \div PageSize <= StackBottom /\ StackBottom <= StackTop
  /\ UserPages * PageSize < AddressEnd

\* Breaks that are asked for lie in the lower half or in the last page of all.  sys_brk()
\* does not check this.  From a break that was set, a request beyond fails at the stack;
\* from init's uninitialised one it would reach the shared tables of the kernel half.
ASSUME BrkAssumption == \A x \in BrkRequests : PageUp(x) <= UserPages

\* An image: the pages of its segments in order, and whether all checks of
\* elf_load_image() succeed; one that fails does so behind the pages listed.
ASSUME ImageAssumption ==
  Images \subseteq [segments : Seq([page : 0..UserPages-1, writable : BOOLEAN]), valid : BOOLEAN]

(* Page tables *)

Node(k, page) == <<k, page \div Span[k]>>

Table == 1..Levels-1

\* The heap has 1 GiB, a top entry 512 GiB.
ASSUME HeapAssumption == \A page \in HeapBase..(HeapBase + HeapPages - 1) : Node(1, page) = Node(1, HeapBase)

IsUser(page) == page < UserPages

\* Whose tables lead to the page in address space a: the kernel half's are shared.
Holder(a, page) == IF IsUser(page) THEN a ELSE BootPml4

\* The entry of depth k towards the page is present, seen from PML4 a.
Present(a, k, page) ==
  /\ IsUser(page) \/ Node(1, page)[2] \in khalf[a]
  /\ \E e \in entries : e.as = Holder(a, page) /\ e.node = Node(k, page)

Mapped(a, page) == \A k \in 1..Levels : Present(a, k, page)

Free == Frame \ used

\* pmm_alloc_page() takes the lowest free frame: this one, if there is any.
Lowest(S) == {f \in S : \A g \in S : f <= g}

\* The frames vmm_destroy_address_space() returns: the tables and the PML4, not
\* the pages the lowest tables point to.
TableFrames(a) == {a} \cup {e.frame : e \in {x \in entries : x.as = a /\ x.node[1] \in Table}}

EntriesBut(a) == {e \in entries : e.as # a}

Without(f, x) == [y \in DOMAIN f \ {x} |-> f[y]]

VmmDestroyAddressSpace(a) ==
  /\ used' = used \ TableFrames(a)
  /\ entries' = EntriesBut(a)
  /\ khalf' = Without(khalf, a)

\* vmm_unmap_page() clears the lowest entries; the tables stay.
VmmUnmapPages(gone) == entries' = entries \ gone

\* vmm_create_address_space(): the upper half comes from the PML4 in CR3.
VmmCreateAddressSpace(a) ==
  /\ used' = used \cup {a}
  /\ khalf' = [b \in DOMAIN khalf \cup {a} |-> IF b = a THEN khalf[cr3] ELSE khalf[b]]

(* Processes and system calls *)

NoProcess == [state |-> "none", parent |-> 0, as |-> 0, brk_start |-> 0, brk |-> 0, known |-> FALSE]

\* A call in progress: what is still to be mapped into address space as, the frame
\* allocated for the page being mapped, and whether all went well so far.
Call(op, p, a, todo, valid) ==
  [op |-> op, pid |-> p, as |-> a, todo |-> todo, frame |-> 0, valid |-> valid, brk |-> 0]

Idle == Call("none", 0, BootPml4, <<>>, TRUE)

Panic == Call("panic", 0, BootPml4, <<>>, FALSE)

Failed == [call EXCEPT !.todo = <<>>, !.frame = 0, !.valid = FALSE]

\* Pages first .. last wanted writable, as the stack, the break and the heap are.
Fresh(first, last) ==
  [i \in 1..(last - first + 1) |-> [page |-> first + i - 1, writable |-> TRUE, reuse |-> FALSE]]

\* What elf_load_image() maps: the segments, then the stack.
ElfLoadImage(image) ==
  [i \in 1..Len(image.segments) |->
     [page |-> image.segments[i].page, writable |-> image.segments[i].writable, reuse |-> TRUE]]
  \o IF image.valid THEN Fresh(StackBottom, StackTop) ELSE <<>>

As(p) == IF p = 0 THEN BootPml4 ELSE proc[p].as

Live == {p \in Pid : proc[p].state = "live"}

\* Mutant: the heap is first used after init was created.
InitHeapLater ==
  /\ used = {} /\ entries = {}
  /\ khalf = [a \in {BootPml4} |-> BootTops]
  /\ proc = [p \in Pid |-> NoProcess]
  /\ current = 0 /\ cr3 = BootPml4
  /\ heap_end = HeapBase
  /\ call = Idle

\* kernel_main() up to the first kmalloc(), which maps the first page of the heap.
Init ==
  /\ used = {}
  /\ khalf = [a \in {BootPml4} |-> BootTops]
  /\ entries = {}
  /\ proc = [p \in Pid |-> NoProcess]
  /\ current = 0
  /\ cr3 = BootPml4
  /\ heap_end = HeapBase
  /\ call = Call("heap", 0, BootPml4, Fresh(HeapBase, HeapBase), TRUE)

\* kmalloc() in any call may grow the heap, always through the boot PML4.
ExpandHeap ==
  /\ call = Idle /\ heap_end < HeapBase + HeapPages
  /\ call' = Call("heap", 0, BootPml4, Fresh(heap_end, heap_end), TRUE)
  /\ UNCHANGED <<used, khalf, entries, proc, current, cr3, heap_end>>

\* spawn, and kernel_main() for init, up to the load of the image.  The break of
\* the process is not set yet.
ProcessCreate(p, image) ==
  /\ call = Idle /\ proc[p].state = "none"
  /\ (current = 0) <=> (p = InitPid)
  /\ \E a \in Lowest(Free), b, c \in Garbage :
       /\ VmmCreateAddressSpace(a)
       /\ proc' = [proc EXCEPT ![p] = [state |-> "new", parent |-> current, as |-> a,
                                       brk_start |-> b, brk |-> c, known |-> FALSE]]
       /\ call' = Call("spawn", p, a, ElfLoadImage(image), image.valid)
  /\ UNCHANGED <<entries, current, cr3, heap_end>>

SysExecve(image) ==
  /\ call = Idle /\ current # 0
  /\ \E a \in Lowest(Free) :
       /\ VmmCreateAddressSpace(a)
       /\ call' = Call("execve", current, a, ElfLoadImage(image), image.valid)
  /\ UNCHANGED <<entries, proc, current, cr3, heap_end>>

SysBrkGrow(new) ==
  /\ call = Idle /\ current # 0
  /\ new # 0 /\ new >= proc[current].brk_start /\ new > proc[current].brk
  /\ call' = [Call("brk", current, As(current), Fresh(PageUp(proc[current].brk), PageUp(new) - 1), TRUE)
              EXCEPT !.brk = new]
  /\ UNCHANGED <<used, khalf, entries, proc, current, cr3, heap_end>>

\* Mutant: pmm_free_page() without vmm_unmap_page().
SysBrkShrinkStillMapped(new) ==
  LET gone == {e \in entries : /\ e.as = As(current) /\ e.node[1] = Levels
                               /\ e.node[2] \in PageUp(new)..(PageUp(proc[current].brk) - 1)}
  IN
  /\ call = Idle /\ current # 0
  /\ new # 0 /\ new >= proc[current].brk_start /\ new < proc[current].brk
  /\ used' = used \ {e.frame : e \in gone}
  /\ proc' = [proc EXCEPT ![current].brk = new]
  /\ UNCHANGED <<khalf, entries, current, cr3, heap_end, call>>

\* Whatever is mapped between the new break and the old one goes.
SysBrkShrink(new) ==
  LET gone == {e \in entries : /\ e.as = As(current) /\ e.node[1] = Levels
                               /\ e.node[2] \in PageUp(new)..(PageUp(proc[current].brk) - 1)}
  IN
  /\ call = Idle /\ current # 0
  /\ new # 0 /\ new >= proc[current].brk_start /\ new < proc[current].brk
  /\ VmmUnmapPages(gone)
  /\ used' = used \ {e.frame : e \in gone}
  /\ proc' = [proc EXCEPT ![current].brk = new]
  /\ UNCHANGED <<khalf, current, cr3, heap_end, call>>

(* Mapping the pages of a call, one allocation per step *)

Wanted == Head(call.todo)

MissingTables == {k \in Table : ~Present(call.as, k, Wanted.page)}

\* Mutant: get_next_level() takes an existing table as it is.
NotWidened == entries

\* The walk widens the permissions of the tables it passes.
Widened ==
  {IF /\ Wanted.writable /\ e.as = Holder(call.as, Wanted.page)
      /\ \E k \in Table : e.node = Node(k, Wanted.page)
   THEN [e EXCEPT !.writable = TRUE] ELSE e : e \in entries}

Entry(k, frame) ==
  [as |-> Holder(call.as, Wanted.page), node |-> Node(k, Wanted.page), frame |-> frame,
   writable |-> Wanted.writable]

\* The page a segment shares with an earlier one is there already.
ReusePage ==
  /\ call.todo # <<>> /\ call.frame = 0
  /\ Wanted.reuse /\ Mapped(call.as, Wanted.page)
  /\ call' = [call EXCEPT !.todo = Tail(@)]
  /\ UNCHANGED <<used, khalf, entries, proc, current, cr3, heap_end>>

AllocPage ==
  /\ call.todo # <<>> /\ call.frame = 0
  /\ ~(Wanted.reuse /\ Mapped(call.as, Wanted.page))
  /\ \/ /\ Free = {}
        /\ call' = Failed
        /\ UNCHANGED used
     \/ \E f \in Lowest(Free) :
        /\ call' = [call EXCEPT !.frame = f]
        /\ used' = used \cup {f}
  /\ UNCHANGED <<khalf, entries, proc, current, cr3, heap_end>>

\* A table is missing on the way.  Without a frame for it the page is given back;
\* the tables made so far stay.
GetNextLevel ==
  /\ call.todo # <<>> /\ call.frame # 0 /\ MissingTables # {}
  /\ \/ /\ Free = {}
        /\ entries' = Widened
        /\ used' = used \ {call.frame}
        /\ call' = Failed
        /\ UNCHANGED khalf
     \/ \E f \in Lowest(Free), k \in Lowest(MissingTables) :
        /\ entries' = Widened \cup {Entry(k, f)}
        /\ used' = used \cup {f}
        /\ khalf' = IF IsUser(Wanted.page) \/ k # 1 THEN khalf
                    ELSE [khalf EXCEPT ![call.as] = @ \cup {Node(1, Wanted.page)[2]}]
        /\ UNCHANGED call
  /\ UNCHANGED <<proc, current, cr3, heap_end>>

\* Mutant: a double mapping is refused and the page not given back.
VmmMapPageKeepsFrame ==
  /\ call.todo # <<>> /\ call.frame # 0 /\ MissingTables = {}
  /\ \/ /\ Present(call.as, Levels, Wanted.page)
        /\ entries' = Widened
        /\ call' = Failed
        /\ UNCHANGED heap_end
     \/ /\ ~Present(call.as, Levels, Wanted.page)
        /\ entries' = Widened \cup {Entry(Levels, call.frame)}
        /\ call' = [call EXCEPT !.todo = Tail(@), !.frame = 0]
        /\ heap_end' = IF call.op = "heap" THEN heap_end + 1 ELSE heap_end
  /\ UNCHANGED <<used, khalf, proc, current, cr3>>

\* All tables are there: the page is entered, unless one is mapped at its place.
VmmMapPage ==
  /\ call.todo # <<>> /\ call.frame # 0 /\ MissingTables = {}
  /\ \/ /\ Present(call.as, Levels, Wanted.page)
        /\ entries' = Widened
        /\ used' = used \ {call.frame}
        /\ call' = Failed
        /\ UNCHANGED heap_end
     \/ /\ ~Present(call.as, Levels, Wanted.page)
        /\ entries' = Widened \cup {Entry(Levels, call.frame)}
        /\ call' = [call EXCEPT !.todo = Tail(@), !.frame = 0]
        /\ heap_end' = IF call.op = "heap" THEN heap_end + 1 ELSE heap_end
        /\ UNCHANGED used
  /\ UNCHANGED <<khalf, proc, current, cr3>>

(* How the calls end *)

\* Without the first page of the heap nothing starts.
HeapReturns ==
  /\ call.op = "heap" /\ call.todo = <<>>
  /\ call' = IF heap_end = HeapBase THEN Panic ELSE Idle
  /\ UNCHANGED <<used, khalf, entries, proc, current, cr3, heap_end>>

\* kernel_main() leaves the break of init as it was, sys_spawn() sets it.
SpawnSucceeds ==
  /\ call.op = "spawn" /\ call.todo = <<>> /\ call.valid
  /\ proc' = IF current = 0 THEN [proc EXCEPT ![call.pid].state = "live"]
             ELSE [proc EXCEPT ![call.pid] = [@ EXCEPT !.state = "live", !.brk_start = BrkStart,
                                                       !.brk = BrkStart, !.known = TRUE]]
  /\ call' = Idle
  /\ UNCHANGED <<used, khalf, entries, current, cr3, heap_end>>

\* process_destroy(); kernel_main() panics instead.
SpawnFails ==
  /\ call.op = "spawn" /\ call.todo = <<>> /\ ~call.valid
  /\ \/ /\ current = 0
        /\ call' = Panic
        /\ UNCHANGED <<used, khalf, entries, proc>>
     \/ /\ current # 0
        /\ VmmDestroyAddressSpace(call.as)
        /\ proc' = [proc EXCEPT ![call.pid] = NoProcess]
        /\ call' = Idle
  /\ UNCHANGED <<current, cr3, heap_end>>

ExecveFails ==
  /\ call.op = "execve" /\ call.todo = <<>> /\ ~call.valid
  /\ VmmDestroyAddressSpace(call.as)
  /\ call' = Idle
  /\ UNCHANGED <<proc, current, cr3, heap_end>>

\* The old address space is destroyed while CR3 still points to it ...
ExecveDestroysOld ==
  /\ call.op = "execve" /\ call.todo = <<>> /\ call.valid
  /\ VmmDestroyAddressSpace(As(current))
  /\ call' = [call EXCEPT !.op = "install"]
  /\ UNCHANGED <<proc, current, cr3, heap_end>>

\* ... and the new one takes its place.
ExecveInstallsNew ==
  /\ call.op = "install"
  /\ proc' = [proc EXCEPT ![current] = [@ EXCEPT !.as = call.as, !.brk_start = BrkStart,
                                                 !.brk = BrkStart, !.known = TRUE]]
  /\ cr3' = call.as
  /\ call' = Idle
  /\ UNCHANGED <<used, khalf, entries, current, heap_end>>

\* Mutant: brk_current is set although a page could not be mapped.
BrkReturnsAnyway ==
  /\ call.op = "brk" /\ call.todo = <<>>
  /\ proc' = [proc EXCEPT ![current].brk = call.brk]
  /\ call' = Idle
  /\ UNCHANGED <<used, khalf, entries, current, cr3, heap_end>>

\* A break in the last page of all aligns to 0: nothing was mapped for it.
BrkReturns ==
  /\ call.op = "brk" /\ call.todo = <<>>
  /\ proc' = IF call.valid
             THEN [proc EXCEPT ![current] = [@ EXCEPT !.brk = call.brk,
                                                      !.known = proc[current].known /\ call.brk + PageSize <= AddressEnd]]
             ELSE proc
  /\ call' = Idle
  /\ UNCHANGED <<used, khalf, entries, current, cr3, heap_end>>

\* Mutant: CR3 stays.
SwitchToSameTables(q) == current' = q /\ UNCHANGED cr3

\* schedule(): CR3 is loaded when the process changes.
SwitchTo(q) ==
  /\ current' = q
  /\ cr3' = IF q # current THEN As(q) ELSE cr3

Switch(q) ==
  /\ call = Idle /\ q # current
  /\ SwitchTo(q)
  /\ UNCHANGED <<used, khalf, entries, proc, heap_end, call>>

\* exit, or the end of a process that faults: the children go to the kernel, the
\* thread never runs again.
ProcessExit(q) ==
  /\ call = Idle /\ current # 0 /\ q # current
  /\ proc' = [p \in Pid |-> IF p = current THEN [proc[p] EXCEPT !.state = "zombie"]
                            ELSE IF proc[p].parent = current THEN [proc[p] EXCEPT !.parent = 0]
                            ELSE proc[p]]
  /\ SwitchTo(q)
  /\ UNCHANGED <<used, khalf, entries, heap_end, call>>

\* waitpid finds a zombie and destroys it.
Reap(z) ==
  /\ call = Idle /\ current # 0
  /\ proc[z].state = "zombie" /\ proc[z].parent = current
  /\ VmmDestroyAddressSpace(proc[z].as)
  /\ proc' = [proc EXCEPT ![z] = NoProcess]
  /\ UNCHANGED <<current, cr3, heap_end, call>>

Next ==
  \/ ExpandHeap
  \/ \E image \in Images : SysExecve(image) \/ \E p \in Pid : ProcessCreate(p, image)
  \/ \E new \in BrkRequests : SysBrkGrow(new) \/ SysBrkShrink(new)
  \/ ReusePage \/ AllocPage \/ GetNextLevel \/ VmmMapPage
  \/ HeapReturns \/ SpawnSucceeds \/ SpawnFails
  \/ ExecveFails \/ ExecveDestroysOld \/ ExecveInstallsNew \/ BrkReturns
  \/ \E q \in Live \cup {0} : Switch(q) \/ ProcessExit(q)
  \/ \E z \in Pid : Reap(z)

Spec == Init /\ [][Next]_vars

(* Properties *)

Pml4s == DOMAIN khalf \ {BootPml4}

Held == {call.frame} \ {0}

Owned == Pml4s \cup {e.frame : e \in entries} \cup Held

Leaked == used \ Owned

Nodes == {Node(k, page) : k \in 1..Levels, page \in 0..(HeapBase + HeapPages - 1)}

Wants == [page : 0..(HeapBase + HeapPages - 1), writable : BOOLEAN, reuse : BOOLEAN]

Entries(pml4s) == [as : pml4s, node : Nodes, frame : Frame, writable : BOOLEAN]

Processes ==
  [state : {"none", "new", "live", "zombie"}, parent : Pid \cup {0}, as : Frame \cup {0},
   brk_start : Address, brk : Address, known : BOOLEAN]

Calls ==
  [op : {"none", "panic", "heap", "spawn", "execve", "install", "brk"}, pid : Pid \cup {0},
   as : Frame \cup {BootPml4}, todo : Seq(Wants), frame : Frame \cup {0}, valid : BOOLEAN, brk : Address]

\* The types of the variables: the fields of struct process, the entries of page
\* tables and the local variables of a call.
TypeOK ==
  /\ used \subseteq Frame
  /\ Pml4s \subseteq Frame /\ BootPml4 \in DOMAIN khalf
  /\ khalf \in [DOMAIN khalf -> SUBSET (BootTops \cup {Node(1, HeapBase)[2]})]
  /\ entries \subseteq Entries(DOMAIN khalf)
  /\ proc \in [Pid -> Processes]
  /\ current \in Live \cup {0}
  /\ cr3 \in Frame \cup {BootPml4}
  /\ heap_end \in HeapBase..(HeapBase + HeapPages)
  /\ call \in Calls

\* A frame has one use: a PML4, one entry of one table, or the page a call is about
\* to map.  vmm_map_page(), the rollbacks of elf_load_image() and sys_brk(), and
\* vmm_destroy_address_space() never give a frame two owners or free one in use.
FramesOwnedOnce ==
  /\ Owned \subseteq used
  /\ Pml4s \cap Held = {}
  /\ \A e \in entries : e.frame \notin Pml4s \cup Held
  /\ \A e, f \in entries : e.frame = f.frame => e = f

\* The processor translates with the tables of the running process, and every
\* process has tables of its own.  Only between the destruction of the old address
\* space by sys_execve() and the load of CR3 it uses freed tables, and in that
\* window nobody has been given their PML4.
RunsOnLiveTables ==
  /\ IF call.op = "install" THEN cr3 \notin used ELSE cr3 = As(current)
  /\ \A p \in Pid : proc[p].state # "none" /\ (call.op = "install" => p # current) => proc[p].as \in Pml4s
  /\ \A p, q \in Pid : proc[p].state # "none" /\ proc[q].state # "none" /\ proc[p].as = proc[q].as => p = q

\* Every address space sees the whole kernel half: the heap may grow through the
\* boot PML4 while any process runs, because the top entry of the heap was there
\* before vmm_create_address_space() first copied the upper half.
KernelHalfShared ==
  \A a \in DOMAIN khalf : khalf[a] = khalf[BootPml4]

\* Page tables are trees: one entry per place, below a table of the same address
\* space that is there and allows at least what the entry allows, so that
\* get_next_level() never leaves a writable page behind a read-only table.
TablesAreTrees ==
  /\ \A e, f \in entries : e.as = f.as /\ e.node = f.node => e = f
  /\ \A e \in entries : e.node[1] > 1 =>
       \E t \in entries : /\ t.as = e.as /\ t.node = <<e.node[1] - 1, e.node[2] \div Fanout>>
                          /\ e.writable => t.writable

\* vmm_is_user_readable() and vmm_is_user_writable() of a page, with tables E.
VmmIsUserReadable(E, a, page) ==
  /\ IsUser(page)
  /\ \A k \in 1..Levels : \E e \in E : e.as = a /\ e.node = Node(k, page)

VmmIsUserWritable(E, a, page) ==
  /\ IsUser(page)
  /\ \A k \in 1..Levels : \E e \in E : e.as = a /\ e.node = Node(k, page) /\ e.writable

\* user_range_readable() and user_range_writable(): the end wraps.
UserRange(start, len, allowed) ==
  LET end == (start + len) % AddressEnd IN
  \/ len = 0
  \/ /\ end >= start /\ end <= UserPages * PageSize
     /\ \A page \in (start \div PageSize)..((end - 1) \div PageSize) : page \in allowed

UserRangeReadable(a, start, len) ==
  UserRange(start, len, {page \in 0..UserPages-1 : VmmIsUserReadable(entries, a, page)})

UserRangeWritable(a, start, len) ==
  UserRange(start, len, {page \in 0..UserPages-1 : VmmIsUserWritable(entries, a, page)})

\* A process whose break was set, and never reached the last page of the address
\* space, may pass any part of its heap to read() and of its stack to write(),
\* whatever growths of the break have failed halfway in sys_brk() before.
HeapIsMapped ==
  \A p \in Live : proc[p].known /\ call.op # "install" =>
    /\ UserRangeWritable(proc[p].as, proc[p].brk_start, proc[p].brk - proc[p].brk_start)
    /\ UserRangeReadable(proc[p].as, StackBottom * PageSize, (StackTop + 1 - StackBottom) * PageSize)

\* Frames are lost only where an address space is destroyed, and only those of the
\* pages mapped in it: no failure of a call that allocates loses one.
LosesOnlyPages ==
  [][Leaked' \ Leaked \subseteq {e.frame : e \in {x \in entries : x.as \notin DOMAIN khalf' /\ x.node[1] = Levels}}]_vars

\* What a call in progress relies on.  The pages it maps lie in the lower half, and
\* in the heap for expand_heap(); a process being loaded, and the address space
\* execve loads, are nobody else's.
CallOK ==
  /\ call.op \in {"none", "panic", "install"} => call.todo = <<>>
  /\ call.todo = <<>> => call.frame = 0
  /\ call.op = "heap" =>
       /\ call.as = BootPml4
       /\ call.todo \in {<<>>} \cup {Fresh(h, h) : h \in HeapBase..(HeapBase + HeapPages - 1)}
       /\ call.todo # <<>> => heap_end < HeapBase + HeapPages
  /\ call.op # "heap" => \A i \in 1..Len(call.todo) : IsUser(call.todo[i].page)
  /\ call.op = "spawn" => call.pid \in Pid /\ proc[call.pid].state = "new" /\ call.as = proc[call.pid].as
  /\ call.op = "brk" => current # 0 /\ call.as = proc[current].as
  /\ call.op \in {"execve", "install"} =>
       /\ current # 0 /\ call.as \in Pml4s
       /\ \A p \in Pid : proc[p].state # "none" => proc[p].as # call.as

\* The heap has its top entry before there is a process.
HeapFirst ==
  /\ heap_end # HeapBase => Node(1, HeapBase)[2] \in khalf[BootPml4]
  /\ heap_end = HeapBase => Pml4s = {} /\ call.op \in {"heap", "panic"}

\* The inductive invariant behind the safety properties of vmm.c and of the calls.
IInv ==
  /\ TypeOK /\ FramesOwnedOnce /\ RunsOnLiveTables /\ KernelHalfShared /\ CallOK /\ HeapFirst

\* The kernel tables that TablesAreTrees is about hang below the boot PML4.
TopsPresent ==
  \A e \in entries : e.as = BootPml4 /\ e.node[1] = 1 => e.node[2] \in khalf[BootPml4]

(* What HeapIsMapped rests on. *)

\* Processes that run in an address space whose break is set.
Settled == {p \in Live : proc[p].known /\ ~(call.op = "install" /\ p = current)}

\* With tables E the pages of process r up to the break are writable, and end below the
\* stack, whose pages are there.
SpaceOK(E, r) ==
  /\ r.brk_start = BrkStart /\ BrkStart <= r.brk /\ r.brk + PageSize <= AddressEnd
  /\ PageUp(r.brk) <= StackBottom
  /\ \A page \in (BrkStart \div PageSize)..(PageUp(r.brk) - 1) : VmmIsUserWritable(E, r.as, page)
  /\ \A page \in StackBottom..StackTop : VmmIsUserReadable(E, r.as, page)

\* The page is still to be mapped.
Pending(todo, page) == \E i \in 1..Len(todo) : todo[i].page = page

\* sys_brk(): the pages between the old break and the new one are to be mapped, or
\* are mapped and none of them is in the stack.
GrowthOK ==
  call.op = "brk" =>
    /\ \A i \in 1..Len(call.todo) : call.todo[i].writable /\ ~call.todo[i].reuse
    /\ current \in Settled => proc[current].brk <= call.brk
    /\ current \in Settled /\ call.valid =>
         \A page \in PageUp(proc[current].brk)..(PageUp(call.brk) - 1) :
           \/ Pending(call.todo, page)
           \/ VmmIsUserWritable(entries, call.as, page) /\ page \notin StackBottom..StackTop

\* elf_load_image(): the pages of the stack are to be mapped, or are mapped.
LoadOK ==
  /\ call.op = "install" => call.valid
  /\ call.op = "spawn" => ~proc[call.pid].known
  /\ call.op \in {"spawn", "execve", "install"} /\ call.valid =>
       \A page \in StackBottom..StackTop :
         Pending(call.todo, page) \/ VmmIsUserReadable(entries, call.as, page)

\* The inductive invariant behind HeapIsMapped, with IInv.
MapInv ==
  /\ \A p \in Settled : SpaceOK(entries, proc[p])
  /\ GrowthOK /\ LoadOK

\* vmm_destroy_address_space() leaves no frame without an owner.
NoLeaks == Leaked = {}
=============================================================================
