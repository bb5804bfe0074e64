# Verification of the Kryos kernel

TLA+ models of the Kryos kernel, the TLC configurations that check them on small
instances, and TLAPS proofs of the main results for instances of any size.
`PROJECT.json` lists the runs, the properties, the source lines behind every
definition, the hazards and the theorems.

## 1. The system

Kryos is a uniprocessor x86_64 kernel. Its parts, and what they do to each other:

| Part | State | Operations | Meets |
|---|---|---|---|
| Threads (`kernel/thread`) | circular list, `current`, states, `in_scheduler`, saved `rsp` | create, `schedule`, yield, exit, block, wake, reap | processes, terminals, timer |
| Processes (`kernel/process`) | tree of parent pointers and sibling lists, zombie state, `waiter` | create, exit, reparent, destroy | threads, system calls, address spaces |
| System calls (`kernel/syscall`) | none of their own | spawn, exit, waitpid, read, write, open, close, execve, brk, directory calls | everything |
| Interrupts (`kernel/interrupts`) | IDT, PIC | timer, keyboard, faults | scheduler, terminals, processes |
| Terminals (`kernel/fs/tty.c`, `vt.c`, `drivers/ps2.c`, `vga.c`) | modifiers, line buffers, wait queues, screen buffers, parser state, active terminal | receive a scancode, read, write, switch | scheduler |
| PMM (`kernel/memory/pmm.c`) | bitmap, `used_frames` | init, mark region, allocate, free | Multiboot parsing, VMM, heap |
| Heap (`kernel/memory/heap.c`) | list of blocks in memory | `kmalloc`, `kfree`, grow | PMM, VMM, every part of the kernel |
| VMM (`kernel/memory/vmm.c`) | page tables | map, unmap, create, destroy, range checks | PMM, processes, execve, brk |
| ELF loader (`kernel/process/elf.c`) | none | load an image | VMM, spawn, execve |
| VFS and file tables (`kernel/fs/vfs.c`) | open files, descriptors | open, read, write, close, resolve a path | processes, KFS, terminals |
| KFS (`kernel/fs/kfs.c`) | superblock, bitmaps, inodes, directories | create, read, write, truncate, unlink, mkdir, rmdir | block layer |
| Block layer and ATA (`kernel/fs/blk.c`, `kernel/drivers/ata.c`) | devices | read and write sectors | KFS |
| User library (`user/libkryos`) | user heap | malloc, free, wrappers | brk |

What makes the code hard to test:

- **Interleaving.** A timer interrupt may arrive between any two instructions that
  run with interrupts enabled. System calls run with interrupts disabled
  (`syscall_init()` masks IF), interrupt handlers too (interrupt gates), so a
  system call is atomic up to the point where it calls `schedule()`.
- **Calls that sleep.** `sys_waitpid()` and `tty_read_vfs()` block in the middle and
  loop when they wake; the state they looked at before is stale by then.
- **Order of deaths.** A parent, its children and its grandchildren may exit in any
  order, before or after anybody waits for them; a dead thread is freed by a later
  `schedule()` of somebody else, a dead process by its parent.
- **Partial failure.** Allocations fail in the middle of spawn, of heap growth, of brk.
- **Boundaries.** Memory that does not end at a frame boundary, bitmaps rounded to
  bytes, remainders too small to be a block, a full line buffer.
- **Crashes** between the writes of one file-system operation.
- **Devices.** The drive answers, stores and fails in its own time while the driver polls
  it; key presses come between the writes of programs, and their echo goes through the
  same escape-sequence parser.

The `hazards` of `PROJECT.json` list these at the lines where they bite.

## 2. Modules

| Module | Models | Kind |
|---|---|---|
| `Threads` | thread list, `schedule()` as one step, thread creation | component |
| `Kernel` | processes, spawn, exit and faults, waitpid, terminal reads, keyboard, timer, boot loop; extends `Threads` | composition |
| `BootWait` | the boot thread calling `sys_waitpid()` from kernel mode, as the kernel tests do; extends `Kernel` | composition |
| `RoundRobin` | what the scheduler promises | abstract specification |
| `Preempt` | `schedule()` and `context_switch()` one store at a time, with timer interrupts | detailed specification |
| `PMM` | `pmm.c` and the memory-map passes of `multiboot_parse()` | component |
| `Heap` | `heap.c` with its in-memory headers and links | component |
| `FileStore` | what the file system promises its callers | abstract specification |
| `KFS` | `kfs.c`, the path walk of `vfs.c`, the file system calls | component |
| `AddressSpace` | `vmm.c`, the mapping of images by `elf.c`, spawn, execve, brk, exit and reaping as users of frames, the growth of the kernel heap | composition |
| `BlockDevice` | `blk.c` and `ata.c` over an external drive | component |
| `Terminal` | `ps2.c`, the line discipline of `tty.c`, `vt.c` and `vga.c` | composition |
| `KernelStepProofs` | lemmas about `Kernel`: `schedule()`, waitpid | proofs |
| `AddressSpaceStepProofs` | lemmas: the actions of `AddressSpace` keep its first invariant | proofs |
| `KernelProofs`, `PreemptProofs`, `PMMProofs`, `HeapProofs`, `AddressSpaceProofs`, `BlockDeviceProofs` | theorems | proofs |
| `MCKernel`, `MCPMM`, `MCHeap`, `MCKFS`, `MCAddressSpace`, `MCBlockDevice`, `MCTerminal` | instances for TLC | model checking |

### Threads and Kernel

Threads and processes are named by their ids, which the code never reuses; NONE
means not created, or freed. The circular list is not a variable: creation appends
at the tail, reaping unlinks, so the list is always the existing threads in id order,
and `Hops` measures how far the scan of `schedule()` has to go to reach one.

| Code | Definition |
|---|---|
| `reap_dead_threads()` and `tty_remove_waiter()` | `Reapable`, `Requeued`, first conjunct of `Schedule` |
| the scan, the switch, the CR3 reload, the halt | `Picked`, `SwitchTo`, `Halt` |
| `thread_create*()` | `ThreadCreate` |
| `process_create()`, the failures of `sys_spawn()` | `ProcessCreate`, `SpawnSucceeds`, `SpawnBadImage`, `SpawnNoAddressSpace`, `SpawnNoThread` |
| `process_exit()`, `thread_wake_waiter()`, `thread_terminate_process()`, `schedule_after_exit()` | `ProcessExit`, `AfterExit`, `Exits`, `SysExitOrFault` |
| a walk over a list with a freed process, in `sys_waitpid()` and `process_reparent_children()` | `Dangling`, `WalksFreed` |
| one turn of the loop in `sys_waitpid()` | `Waitpid`: `WaitpidNoChild`, `WaitpidReap`, `WaitpidBlock` |
| one turn of the loop in `tty_read_vfs()` | `TtyReadVfs`: `TtyTakeLine`, `TtyBlock` |
| `tty_receive_char('\n')`, `vt_switch()` | `KeyboardNewline`, `KeyboardSwitch` |
| `timer_handler()`, `for (;;) schedule();` | `Timer`, `MainSchedule` |

Decisions worth knowing:

- `context_switch()` does not save RFLAGS. A user thread or kernel thread gets its
  IF back from `sysret`, `iret`, `irq_restore()` or the `sti` of its start wrapper; the
  boot thread does not. `main_if` is its flag, and `MainSchedule` clears it when
  another thread ran meanwhile.
- `run_kernel_tests()` ends with a deliberate panic, so in the tree as it stands
  the code behind it in `kernel_main()` is reached only when the tests are taken
  out. `Init` is the state at the final loop.
- The PIC masks IRQ1. `KeyboardOn = TRUE` is the keyboard with the mask lifted,
  which allows more behaviours.
- `preemption_enabled` is set by `test_preempt()` alone and never reset; `Preemption` is a
  constant.
- A terminal buffer is the number of complete lines in it. A read with a small
  count may leave the newline behind; a newline into a full buffer may overwrite
  the last newline. Both are choices of the action.
- After `process_create()` has failed for lack of memory, a freed process stays on its
  parent's list. The next process may get the same memory, and the list then loops. What
  a walk over it does depends on the heap: it goes round for ever with interrupts
  disabled, or reads what is no process. In the model the machine stops at the first such
  walk (`WalksFreed`), and nothing is claimed of what comes after. A spawn puts its
  process at the head of the list and takes it off there, so it walks over nothing.

`BootWait` adds the waits of the boot thread in the kernel tests. `test_preempt()` turns
preemption and the boot thread's interrupts on, before the suites that wait. The first
wait that blocks comes back through `context_switch()` with the interrupt flag of the
thread that switched, which is clear, and nothing sets it again: from then on the boot
thread is `Quiet`. `QuietSpec` starts there, with `Preemption = TRUE`. A first wait with
interrupts enabled can lose an exit between the scan and the block
(`BootWait_enabled.cfg`).

### Preempt and RoundRobin

Each thread has a stack of frames of `schedule()`; each action is one store of
`schedule()` or one half of `context_switch()`, and `TimerIrq` pushes a new frame
whenever IF is set. `ImplementsRoundRobin` states that the stack the CPU executes on
moves from thread to next ready thread (`RR!Spec`, with the refinement mapping
`running <- cpu`), and keeps doing so. `MainIF` is the interrupt flag with which the boot
thread enters its loop. Nothing in `kernel_main()` sets it, so the run and the theorems
have it `FALSE`, and the timer then strikes in the threads' own code and never inside
`schedule()`. The kernel tests also call `schedule()` with interrupts enabled.

### PMM

Addresses are bytes and frames are 4096 bytes. A boot input is the extent of the
kernel, of the Multiboot structure, of the modules, and the memory map. `PmmInit`,
`FreeAvailable`, `ReserveBootRegions`, `ReserveInfo` and `ReserveModules` are the
steps of `multiboot_parse()`; then `PmmAllocPage` and `PmmFreePage`. The variable
`any_free` says whether callers free only what they own. At most MAX_MODULES
modules are recorded by the code, and those are the model's modules.

### Heap

The unit is 16 bytes, the header is three units. `hdr` maps an address to the header
last written there; a header that was merged away stays until somebody writes over
it, which `KmallocFit` chooses. `Split`, `Extend`, `Merge` follow the pointer updates of
the code; `KfreeAccepts` is the assertions of `kfree()`. A failed expansion keeps the
pages it has mapped: they go to the tail of the list before `kmalloc()` returns NULL
(the comment in `expand_heap()` that calls them leaked is out of date).

### KFS

System calls run with interrupts disabled and the ATA driver polls, so a call is one
step, unless the power fails in it. `fs` is the disk: two bitmaps, the inode table, the
data blocks; the cached bitmaps are written through and not kept apart. A block is a row
of units; a unit holds a byte of a file, a piece of a directory entry or a block pointer.
Entries have one reclen, `EntryUnits`, which does not divide `BlockUnits`, so they
straddle blocks as those of the code do. What a program writes never looks like
an entry, so a directory scan ends there, as it does at zeros. The operators have the
names of the functions and return the error, the file system they leave behind and a
value: `KfsMapOrAllocBlock` and `KfsVnodeWrite` show what stays on disk when the second
of two allocations fails, `KfsRemoveDirent` is compaction with the recycling of trailing
blocks, `KfsVnodeCreate` with its undoing of a failed `mkdir`. `kmalloc(0)` is NULL,
which a lookup in an empty directory meets; other allocations of memory and the disk do
not fail. `got` is what a read returned: the bytes, or `NoData` for the -ENOENT of a read
that comes to a missing block.

An entry that is cut off. `kfs_vnode_create()` takes a short write of its entry for a
success, so on a full disk a directory may end in a part of an entry. The history variable
`cut` records that. A scan compares the name it looks for with the part and with
whatever lies behind it in memory, which `fs.behind` chooses; the removal of such an entry
passes a negative length to `memmove()`, and the kernel panics (`Removed`).

`fd_table` is one table of descriptors; two descriptors on a file behave the same
whether one process or two hold them. Programs may do anything: remove what is open,
truncate it, write to directories. The history variable `dir_written` records the last.

Crashes. Every operator that writes to the disk goes through `Wrote`, which adds the
image it leaves to `fs.past`; the images are those between two writes of the block
device, in the order of the code. `CrashInOpen`, `CrashInWrite`, `CrashInMkdir` and
`CrashInRemoval` take one of the images of a call and close all descriptors; the bitmaps
are then read again, as `kfs_load_bitmaps()` does. A block is one sector, whose write is
atomic. Nothing repairs the disk at mount. `torn` records that a crash has hit a removal
or a truncating open, which free blocks before they clear the pointers to them, and then
whether blocks have been allocated since (`"reused"`): such a block may have two homes.

`FileStore` knows files as sequences of bytes and holes, and descriptors as positions. The
refinement mapping reads a file through its pointers, a missing block as holes. A read
returns the bytes that are there, or fails at the first hole. A byte that was never
written is zero or a hole. `Crash` says what a loss of power may do: close the descriptors
and leave the file being written with some of the new bytes, and every other file as it
was. `sound` is that no crash has hit a call that takes something away; without it
`FileStore` promises nothing.

### AddressSpace

An address space is the frame of its PML4, as in the code. Below it, an entry is
named by its depth and by the index prefix it covers: a table above the last level, a
page at it. `call` is the system call in progress with the pages it still has to map;
`AllocPage`, `GetNextLevel` and `VmmMapPage` take one frame each, and any allocation may
find memory exhausted, so every error path of the loader, of spawn, execve, brk and
`expand_heap()` is a behaviour.

| Code | Definition |
|---|---|
| `get_next_level()`, `vmm_map_page()` | `GetNextLevel`, `Widened`, `VmmMapPage` |
| `vmm_unmap_page()`, `vmm_create_address_space()`, `vmm_destroy_address_space()` | `VmmUnmapPages`, `VmmCreateAddressSpace`, `VmmDestroyAddressSpace` |
| `elf_load_image()` | `ElfLoadImage`, `Wanted`, `ReusePage`, `Failed` |
| `sys_spawn()`, `process_create()` | `ProcessCreate`, `SpawnSucceeds`, `SpawnFails` |
| `sys_execve()` | `SysExecve`, `ExecveFails`, `ExecveDestroysOld`, `ExecveInstallsNew` |
| `sys_brk()` | `SysBrkGrow`, `BrkReturns`, `SysBrkShrink` |
| `process_exit()`, `process_destroy()`, the CR3 reload of `schedule()` | `ProcessExit`, `Reap`, `Switch` |
| `user_range_readable()`, `user_range_writable()` | `UserRangeReadable`, `UserRangeWritable` |

Addresses wrap at `AddressEnd`, so `PAGE_ALIGN_UP` of an address in the last page is page 0.
The break of the first process is never set by `kernel_main()`; `Garbage` is what it
may read as. `known` is a history variable: the break of the process has been set, and
has not been in the last page. `sys_brk()` does not check its argument against the end of
the user half; `BrkAssumption` has requests below it or in the last page. From a break that
was set, a larger request fails at the stack. From the first process's unset break it
would reach the shared tables of the kernel half, and that case is not covered.

### BlockDevice

A call of `blk_vnode_read()` or `blk_vnode_write()` is a loop over sectors; `call` is
its local state and `io` that of the driver below it. A driver step is one command, one
wait that has ended or one transfer of a sector. The drive is external: it takes a
command while it is idle, answers or fails it, and stores a sector after its data; a
failed write may or may not have been stored. The split of the sector number over the
registers is kept (`LbaRegisters`), with small bases. The driver does not wait 400 ns
before it polls, and tests ERR before BSY; the model takes the status register as up to
date, and `CommandsMeetIdleDrive` and the exactness of transfers rest on that.

### Terminal

Keys are pressed and released in any order, as scancodes with their prefixes; each
scancode is one interrupt, between the reads and writes of programs, which run with
interrupts disabled. No scancode is lost: a key is pressed once the codes of the last have
been read, and a keyboard that drops codes while interrupts stay disabled is not modelled.
A write may end inside an escape sequence. One module has
the way of a key from the decoder through the line discipline, the echo and the
escape-sequence parser to the buffer of a terminal and to the screen. Screen cells
hold a character and a colour, parameters of escape sequences are bounded by
`IntRange`, beyond which the signed product overflows. The serial copy of the output
and the ring of raw scancodes kept for diagnostics are left out; sleeping readers are in
`Kernel`.

## 3. Runs

| Run | Shows | Bounds |
|---|---|---|
| `kernel_safety` | consistency of scheduler, process tree, waits and queues | 4 threads, 4 processes, 2 terminals, 2 lines, timer and keyboard on |
| `kernel_liveness` | no starvation, waitpid returns, with allocations failing, up to the first walk over a list with a freed process | 4 threads, 4 processes, 1 terminal |
| `keyboard_deaf` | violation: once all readers sleep, the boot loop spins with interrupts disabled | 3 threads |
| `boot_wait` | the boot thread waits for children in kernel mode, with its interrupts off and preemption on | 4 threads, 4 processes |
| `preempt` | `schedule()` at instruction level implements round robin | 4 threads, boot loop with interrupts off |
| `pmm` | boot and allocation on 30 machines of 9 to 17 frames | kernel, structure and modules before, inside and behind each other |
| `heap` | all call sequences of `kmalloc()` and `kfree()` | 4 pages of 5 units, requests of 1 and 8 units |
| `kfs` | all call sequences on a disk that fills up; KFS implements `FileStore` | 3 inodes, 4 blocks of 5 units, entries of 2, 1 direct and 1 indirect pointer, 2 descriptors, 3 paths, transfers of 7 units |
| `kfs_crash` | a loss of power after any write of any call; KFS implements `FileStore` until it hits a call that takes something away | as above, 1 descriptor |
| `vm` | who owns which frame, what the processor translates with, what failed calls lose | 16 frames, 2 processes, 3 levels of tables with 2 entries, 4 user pages, 2 heap pages |
| `block` | transfers are exact, the driver keeps to the protocol and returns | 3 sectors of 2 bytes, reads and writes at every offset that matters |
| `terminal` | screen, echo, modifiers and line buffer under interleaved keys and output | 2 terminals of 2 x 2 cells, lines of 3 bytes, 4 keys, 1 output |

Why the bounds are enough: four threads and processes give a grandparent, a parent and a
child beside process 0, so reparenting of zombies, waits for a particular child and for
any child, and two simultaneous waiters all happen. Two terminals let a reader sleep on
the one that is not active. In `pmm` the bitmap has one, two or three bytes, with the
last one full or not, the map has a hole, and regions overlap. In `heap` up to five
blocks exist, a free block has neighbours of every kind, requests span pages, and a
remainder is sometimes worth splitting and sometimes not. In `kfs` the third entry of a
directory straddles its blocks, a file or a directory with an indirect block fills the
disk, a directory shrinks across a block boundary, writes are cut short by a full disk and
by the largest file size, files get holes, and inodes are reused under open descriptors.
`MCKFS` views states up to the choice of blocks and descriptors and up to what free blocks
hold, which no operation depends on; a state in which numbers do matter, because a block
that is free or in two places is still pointed to or a crash may bring a free inode back,
is viewed as it is. Some states are checked but not followed further (`Followed`): those
in which a program has written to a directory, in which an entry was appended behind one
that was cut off, and in which blocks were allocated after a crash in a call that takes
something away. In `kfs_crash` neither are those in which an entry was cut off. In `vm` two
processes are parent and child or live one after the other, images share tables and
pages between segments, and 16 frames run out at every allocation of every call. In
`block` a transfer starts, ends and crosses inside sectors, runs past the end, and any
command of it fails. In `terminal` a 2 x 2 screen wraps and scrolls within one line, so
that the echo, a backspace, a clear and a cursor movement meet in every order.

Fairness. `FairSpec` of `Kernel` assumes that the CPU keeps executing the boot loop and
the resumed kernel loops, and that the PIT ticks (weak fairness of `Timer`, which is
enabled whenever interrupts are accepted). Nothing is assumed of user code.
`TypistSpec` adds a user who keeps pressing Enter, with strong fairness, since the key
is pending while interrupts are off for a while. `Preempt` assumes the same of
statements, the boot loop and the timer. `BlockDevice` assumes that the driver runs and
that the drive goes on with what it has begun; the second is an assumption on hardware that
the driver makes itself, since it polls without a limit.

`CHECK_DEADLOCK FALSE` is set where the machine may stop: when an assertion on a failed
allocation fires, a list with a freed process is walked or no disk is found at boot, when the user has stopped typing, and in
`boot_wait`, where `schedule()` may find nobody to run.

## 4. Proofs

TLC checks the instances above; the theorems hold for every value of the constants that
satisfies the named assumptions of the modules. Every inductive invariant was checked by
TLC on the instance of its run before it was proved.

| Module | For any | Theorem | Property of a run |
|---|---|---|---|
| `KernelProofs` | number of threads, processes, terminals and lines | `SchedulerNeverHalts` | `NeverHalts` |
| | | `ContextIsLive` | `LiveContext` |
| | | `WaitpidNeverMissesAnExit` | `NoLostWakeup` |
| | | `ReadersSleepSoundly` | `BlockedReaders` |
| | | `ProcessTreeIsSound` | `FamilyTree` |
| | | `ReaperIsNeverBehind` | `ReaperKeepsUp` |
| | | `ExitStatusIsKept` | `ZombieUntilReaped` |
| | | `WaitsForChildrenEnd` | `HaltsOnlyOnInput` |
| `PreemptProofs` | number of threads | `EveryThreadIsResumable` | `Resumable` |
| | | `SchedulerIsRoundRobin` | safety half of `ImplementsRoundRobin` |
| `PMMProofs` | boot input with a map that ends at a frame boundary, or for `OnlyRAM` of whole frames | `AccountingIsExact` | `ExactAccounting` |
| | | `BootMemoryIsSafe` | `BootMemorySafe` |
| | | `OnlyRAMIsHandedOut` | `OnlyRAM` |
| `HeapProofs` | page size, heap size, set of requests | `HeapStaysIntact` | `KheapVerify` |
| | | `AllocationsAreApart` | `LiveBlocks` |
| | | `KfreeAcceptsLiveBlocks` | `FreeOnce` |
| | | `KmallocLoopEnds` | `OneExpansionIsEnough` |
| `AddressSpaceProofs` | number of frames, processes, levels and entries, images, break requests | `FramesAreOwnedOnce` | `FramesOwnedOnce` |
| | | `ProcessesRunOnTheirTables` | `RunsOnLiveTables` |
| | | `KernelHalfIsShared` | `KernelHalfShared` |
| | | `OnlyDestructionLosesFrames` | `LosesOnlyPages` |
| | | `PageTablesAreTrees` | `TablesAreTrees` |
| | | `HeapsAreMapped` | `HeapIsMapped` |
| `BlockDeviceProofs` | size of sectors and disk, set of requests | `CommandsFindIdleDrive` | `CommandsMeetIdleDrive` |
| | | `ReadsAreExact` | `ReadIsExact` |
| | | `WritesAreExact` | `WriteIsExact` |

`KernelProofs` and `PMMProofs` also state their inductive invariants (`Invariance`) and
type correctness (`TypeCorrect`), and `PMMProofs` that owners can free their frames
(`OwnersCanFree`).

**Kernel.** The theorems assume that allocations succeed (`OutOfMemory = FALSE`;
`MCKernel_unlinked.cfg` shows that `FamilyTree` needs it). The properties are not
inductive by themselves. That `schedule()` never halts needs `BootThread` and `MainIsFree`:
the boot thread, which never waits, is always READY or RUNNING. That CR3 selects a live process needs `Ownership`: a thread
that has not exited belongs to a running process. That a sleeping waitpid has a waker
needs `Ownership` in the other direction, every running process but process 0 has exactly
one live thread, with `Waiters`, which ties `process->waiter` to the sleeping thread and
says that nothing it waits for is a zombie yet. `FreshIds` keeps new ids from colliding,
`KernelLoops` keeps kernel threads out of the sleeping calls. There is one lemma per
action, and one about `Schedule`, which most actions end in; `WaitersFrame` and
`ActiveTerminalFree` say what the invariant does not depend on.

**BootWait.** The invariant of `Kernel` is stated so that it holds here as well, where the
boot thread sleeps in waitpid and the machine may halt; only `MainIsFree` is lost. For the
boot thread `Waiters` says less: when a process exits, `process_reparent_children()` may
hand zombies to `kernel_process` without waking its waiter, so it may sleep over a zombie,
but one child it asked for is always alive. `ScanIsFresh` carries what the scan has found
to the block, and `ElderParents` says that a process has a higher pid than its parent. If
everybody waited for a child, the process with the highest pid among those waiting would
wait for a live child with a higher one, whose thread waits too: so in a halted machine
somebody waits for the keyboard. Besides successful allocations this is about `QuietSpec`,
in which the timer preempts every thread but the boot thread; `QuietStays` says that it
remains so. With the timer preempting the boot thread between scan and block, TLC finds a
child that exits in between and a machine that halts with nobody at the keyboard
(`BootWait_enabled.cfg`).

**Preempt.** The boot thread is assumed to enter its loop with interrupts disabled
(`MainIF = FALSE`), so that `schedule()` is never interrupted; `Preempt_enabled.cfg` shows
that `Resumable` fails otherwise. The
invariant says where a suspended thread is (`Suspended`), that `schedule()` is never entered
twice on a stack (`OneCall`), and what the scan has found at each place (`Decided`, `States`). The
refinement is proved step by step: each store is a step of `RoundRobin` or leaves its
variables alone.

**PMM.** The first four theorems assume that the highest end in the memory map is at a
frame boundary (`Aligned`); `MCPMM_unaligned.cfg` shows that `ExactAccounting` fails
otherwise. The invariant adds what `pmm_init()` computed (`Layout`), the loops of
`multiboot_parse()` (`Loops`), and that the boot regions stay reserved and nothing handed
out lies in them (`BootReserved`). `OnlyRAM` rests on a second invariant, `FreeIsRAM`, and
on `WholeFrames`: an available entry consists of whole frames or ends below the kernel,
since `pmm_mark_region()` rounds outwards. The low memory of a PC is of the second kind;
`MCPMM` has such a map (`LowMemory`).

**Heap.** The invariant says that the blocks reached by `next` are a list linked both ways
that tiles the committed heap (`IsList`), that no two neighbours are free (`Coalescing`),
that the used ones are those handed out (`Accounted`), and that after an expansion there
is room for the request (`Room`). Everything else in memory may hold stale headers. `Nth`,
the i-th block, is a recursive function; what it returns is proved without induction, from
the least counterexample (`Least`).

**AddressSpace.** Three invariants. `IInv` has the first three properties of the table,
what a call in progress relies on (`CallOK`: whose address space it works on, that the
frame it holds is for a page it still has to map), and that the heap has its top entry
before the first process exists (`HeapFirst`), without which a PML4 copied earlier would
miss the heap. `LosesOnlyPages` follows from it: on every step but a destruction each marked
frame keeps its owner or is given back. For `TablesAreTrees` it is joined by `TopsPresent`,
that tables of the kernel half hang below the boot PML4. For `HeapIsMapped` it is joined by
`MapInv`: the pages of a process up to the break are writable and below its stack
(`SpaceOK`), and for a call in progress each page of the growth or of the stack is mapped or
still to be mapped (`GrowthOK`, `LoadOK`). A growth fails at a page
that is mapped already, so one that succeeds has met neither the stack nor what an earlier
failed growth left behind. The assumptions are that an entry covers `Fanout` entries
of the next level (`SpanAssumption`), that the first break is on a page boundary below the
stack and that the user half ends before the addresses do (`LayoutAssumption`), and that
breaks are asked for in the user half or in the last page (`BrkAssumption`). `HeapsAreMapped`
speaks of breaks that are `known`: neither the unset break of the first process nor one
that was in the last page.

**BlockDevice.** The invariant follows a transfer through the four places of a sector: in
the buffer of the call, in the buffer of the driver, in the data register of the drive, on
the disk. `Old` and `New` are the disk before and after the sector in transfer; while it is
still to be stored the disk is `Old` and storing it gives `New` (`IoWrites`), so a failure
in between leaves one of the two. `DriveOK` says what the drive does at each place of the
driver, and that its registers hold the sector number. That needs `SizeAssumption`: the
sector numbers fit into the registers, 28 bits in the driver. `PlaceOK` ties sector number
and offset in the sector to the file offset. Reads add that what the buffers hold is what
the disk holds (`CallReads`, `IoReads`).

Only model-checked:

- liveness: `NoStarvation`, `WaitpidReturns`, `CallReturns`, and the fairness half of
  `ImplementsRoundRobin`; fairness and ENABLED are beyond the prover;
- `KFS`, its four invariants, `LeaksOnlyWhenFull` and the refinement of `FileStore`, and in `Terminal`
  `ScreenIsCurrent` and `EchoShowsLine`: the code they are about loops over directory
  entries, blocks and characters, which the models write as folds, and what a fold
  computes for every input needs induction over data, which the prover does not have;
- `NoStuckModifier` and `EnterHasRoom` of `Terminal`: within the prover's reach, and not
  done.

## 5. Findings

The boot loop is deaf once every reader sleeps (`keyboard_deaf`).

Further counterexamples come from configurations that are kept beside the runs. Each of
them checks one property that does not hold of the code as it stands:

| Configuration | Module | Property | Shows |
|---|---|---|---|
| `MCKernel_unlinked.cfg` | `MCKernel` | `FamilyTree` | a failed `process_create()` frees a process that is already on its parent's list |
| `BootWait_enabled.cfg` | `BootWait` | `HaltsOnlyOnInput` | a `sys_waitpid()` of the boot thread with interrupts and preemption on misses the exit of a child between its scan and its block |
| `Preempt_enabled.cfg` | `Preempt` | `Resumable` | `schedule()` clears its guard before the switch, so a caller with interrupts enabled can lose a context |
| `MCPMM_unaligned.cfg` | `MCPMM` | `ExactAccounting` | a memory map that ends inside a frame makes the frame counter inexact |
| `MCKFS_leak.cfg` | `MCKFS` | `NoLeaks` | a write that gets an indirect block and then no data block loses the indirect block |
| `MCKFS_cut.cfg` | `MCKFS` | `EntriesWhole` | on a full disk `kfs_vnode_create()` succeeds with a part of its entry |
| `MCKFS_hole.cfg` | `MCKFS` | `NoHoles` | a write through a descriptor whose file was truncated meanwhile leaves missing blocks, which `kfsck.py` reports and reads fail at |
| `MCKFS_torn.cfg` | `MCKFS` | `OneHome` | after a crash in a removal or a truncating open the next allocation gives a block a second home |
| `MCAddressSpace_leak.cfg` | `MCAddressSpace` | `NoLeaks` | destroying an address space frees its tables but not the pages they map |

Also met, without a configuration of their own:

- `pmm_free_page()` accepts a frame of a reserved hole of the memory map.
- A lookup in an emptied root directory returns -ENOMEM, since `kmalloc(0)` is NULL, so
  that open(O_CREAT) fails there while mkdir works.
- A mkdir that finds no room for its entry frees the block of the new directory before
  its inode; a crash in between leaves a nameless inode that points to a free block.
- A break in the last page of the address space wraps, and is set without a page being
  mapped; the break of the first process is not initialised; a growth of the break that
  failed halfway leaves pages behind, so that a later growth over them fails as well.
- A bare backspace in program output blanks the cell in the buffer and not on the
  screen; ESC[2J homes the cursor in the buffer and leaves the one on the screen;
  releasing one of two held Shift keys ends the shift; Enter on a full line buffer that
  holds only complete lines is lost.

## 6. Not modelled

- Open files shared by spawn: `sys_spawn()` copies the pointers of the file table
  without counting references. `KFS` has one table of descriptors; what a call through a
  freed `struct file` does depends on the contents of the heap.
- KFS: directory entries of several sizes; what scans make of an entry that was appended
  behind one that was cut off, of bytes a program has written to a directory, and of a
  block with two homes after a crash; crashes after an entry was cut off; failing reads
  and writes of the disk, which end at the block layer in `BlockDevice`.
- The links of the circular thread list, which `Threads` takes as the order of ids.
- The header checks of the ELF loader and the bytes it copies; the layout of argv on the
  user stack.
- `malloc()` of the user library, a single-threaded client of brk.
- In `Kernel` the address spaces are live or freed, and in `AddressSpace` the scheduler
  picks any process: the two are not composed, since their product is beyond TLC.

Also left out: formatting, the serial port, descriptor tables and the mode switch at
boot, which are register and port I/O; the tar file system, which is no longer mounted;
user programs; the build and test scripts.
