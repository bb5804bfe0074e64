-------------------------------- MODULE PMM ---------------------------------
(***************************************************************************)
(* The physical memory manager (kernel/memory/pmm.c) and its construction  *)
(* from the Multiboot2 memory map (multiboot_parse()).                     *)
(*                                                                         *)
(* Addresses are bytes, frames are 4 KiB, and a boot input is a record:    *)
(*   kernel_end   the physical end of the kernel image                     *)
(*   info         the extent [addr, len] of the Multiboot structure        *)
(*   modules      the extents of the boot modules                          *)
(*   mmap         the memory map: extents with a flag available            *)
(* The loops over modules and map entries take them in any order, since    *)
(* each loop only frees or only reserves.                                  *)
(***************************************************************************)
EXTENDS Integers, FiniteSets

CONSTANT Boots  \* the boot inputs considered

Extent == [addr : Nat, len : Nat]
MapEntry == [addr : Nat, len : Nat, available : BOOLEAN]

ASSUME BootsAssumption ==
  \A b \in Boots :
    /\ b.kernel_end \in Nat
    /\ b.info \in Extent
    /\ b.modules \subseteq Extent
    /\ b.mmap \subseteq MapEntry

VARIABLES
  boot,                  \* what the boot loader passed
  any_free,              \* whether pmm_free_page() is called with any address, or
                         \* only with addresses of frames that were allocated
  phase,                 \* how far multiboot_parse() has come
  todo,                  \* the map entries or modules its current loop has left
  max_physical_address,
  total_frames,
  bitmap_phys_addr,
  bitmap_size,           \* in bytes
  bitmap,                \* the frames whose bit is 1: used or reserved
  used_frames,
  owned                  \* frames handed out by pmm_alloc_page() and not freed

layout_vars == <<boot, any_free, max_physical_address, total_frames, bitmap_phys_addr, bitmap_size>>
vars == <<layout_vars, phase, todo, bitmap, used_frames, owned>>

PMM_PAGE_SIZE == 4096

align_down(a) == (a \div PMM_PAGE_SIZE) * PMM_PAGE_SIZE
align_up(a) == align_down(a + PMM_PAGE_SIZE - 1)

\* The bootstrap page tables map 1 GiB.
DirectMapEnd == 1073741824

Frames == 0..total_frames - 1

TypeOK ==
  /\ boot \in Boots /\ any_free \in BOOLEAN
  /\ phase \in {"start", "free", "reserve", "modules", "ready"}
  /\ {max_physical_address, total_frames, bitmap_phys_addr, bitmap_size} \subseteq Nat
  /\ bitmap \subseteq 0..8 * bitmap_size
  /\ used_frames \in 0..total_frames
  /\ owned \subseteq Frames

-----------------------------------------------------------------------------
(***************************************************************************)
(* Boot.                                                                   *)
(***************************************************************************)

Init ==
  /\ boot \in Boots
  /\ any_free \in BOOLEAN
  /\ phase = "start"
  /\ todo = {}
  /\ max_physical_address = 0
  /\ total_frames = 0
  /\ bitmap_phys_addr = 0
  /\ bitmap_size = 0
  /\ bitmap = {}
  /\ used_frames = 0
  /\ owned = {}

EndOf(e) == IF e.addr + e.len > DirectMapEnd THEN DirectMapEnd ELSE e.addr + e.len

\* Pass 1 of multiboot_parse(): where the map entries end, usable or not.
MapEnds == {0} \cup {EndOf(e) : e \in boot.mmap}

\* Mutant of StructureEnds: the bitmap goes right after the kernel image.
StructureEndsKernelOnly == {boot.kernel_end}

\* Where the structures end that the boot loader has put into memory.
StructureEnds ==
  {boot.kernel_end, boot.info.addr + boot.info.len} \cup {m.addr + m.len : m \in boot.modules}

IsMax(x, S) == \A y \in S : y <= x

\* pmm_init(highest_used, max_phys_addr): all frames are reserved.  The byte
\* behind the bitmap holds whatever it held before.
PmmInit ==
  /\ phase = "start"
  /\ \E max_phys_addr \in MapEnds, highest_used \in StructureEnds :
       /\ IsMax(max_phys_addr, MapEnds)
       /\ IsMax(highest_used, StructureEnds)
       /\ max_physical_address' = max_phys_addr
       /\ total_frames' = max_phys_addr \div PMM_PAGE_SIZE
       /\ bitmap_size' = (total_frames' + 7) \div 8
       /\ bitmap_phys_addr' = align_up(highest_used)
       /\ bitmap' \in {0..8 * bitmap_size' - 1, 0..8 * bitmap_size'}
       /\ used_frames' = total_frames'
  /\ phase' = "free"
  /\ todo' = {e \in boot.mmap : e.available}
  /\ UNCHANGED <<boot, any_free, owned>>

\* Mutant of Region: one frame too many.
RegionInclusive(addr, len) ==
  {f \in 0..total_frames :
     /\ align_down(addr) <= f * PMM_PAGE_SIZE
     /\ f * PMM_PAGE_SIZE <= align_up(addr + len)
     /\ f * PMM_PAGE_SIZE < max_physical_address}

\* The frames pmm_mark_region(addr, len, ...) visits.
Region(addr, len) ==
  {f \in 0..total_frames :
     /\ align_down(addr) <= f * PMM_PAGE_SIZE
     /\ f * PMM_PAGE_SIZE < align_up(addr + len)
     /\ f * PMM_PAGE_SIZE < max_physical_address}

MarkFree(R) ==
  /\ bitmap' = bitmap \ R
  /\ used_frames' = used_frames - Cardinality(bitmap \cap R)

\* Mutant of MarkReserved: counts every frame of the region.
MarkReservedCountsAll(R) ==
  /\ bitmap' = bitmap \cup R
  /\ used_frames' = used_frames + Cardinality(R)

MarkReserved(R) ==
  /\ bitmap' = bitmap \cup R
  /\ used_frames' = used_frames + Cardinality(R \ bitmap)

\* Pass 2: the available regions become free.
FreeAvailable ==
  /\ phase = "free"
  /\ \E e \in todo :
       /\ MarkFree(Region(e.addr, e.len))
       /\ todo' = todo \ {e}
  /\ UNCHANGED <<layout_vars, phase, owned>>

\* pmm_reserve_boot_regions()
ReserveBootRegions ==
  /\ phase = "free" /\ todo = {}
  /\ MarkReserved(Region(0, bitmap_phys_addr + bitmap_size))
  /\ phase' = "reserve"
  /\ UNCHANGED <<layout_vars, todo, owned>>

ReserveInfo ==
  /\ phase = "reserve"
  /\ MarkReserved(Region(boot.info.addr, boot.info.len))
  /\ phase' = "modules"
  /\ todo' = boot.modules
  /\ UNCHANGED <<layout_vars, owned>>

ReserveModules ==
  /\ phase = "modules"
  /\ \/ \E m \in todo :
          /\ MarkReserved(Region(m.addr, m.len))
          /\ todo' = todo \ {m}
          /\ UNCHANGED phase
     \/ /\ todo = {}
        /\ phase' = "ready"
        /\ UNCHANGED <<todo, bitmap, used_frames>>
  /\ UNCHANGED <<layout_vars, owned>>

-----------------------------------------------------------------------------
(***************************************************************************)
(* Allocation.                                                             *)
(***************************************************************************)

\* pmm_alloc_page() takes the first zero bit, unless it lies beyond the last
\* frame.  When it returns 0 it changes nothing, and that is no step here.
PmmAllocPage ==
  /\ phase = "ready"
  /\ \E f \in Frames \ bitmap :
       /\ \A g \in 0..f - 1 : g \in bitmap
       /\ bitmap' = bitmap \cup {f}
       /\ used_frames' = used_frames + 1
       /\ owned' = owned \cup {f}
  /\ UNCHANGED <<layout_vars, phase, todo>>

\* pmm_free_page() of frame f does not panic.  (It also panics on an address
\* that is not a multiple of the page size.)
FreeAccepted(f) ==
  /\ f * PMM_PAGE_SIZE < max_physical_address
  /\ f \in bitmap
  /\ f * PMM_PAGE_SIZE >= bitmap_phys_addr + bitmap_size

\* A free that panics changes nothing and the machine stops, or a test goes on.
PmmFreePage ==
  /\ phase = "ready"
  /\ \E f \in IF any_free THEN 0..total_frames ELSE owned :
       /\ FreeAccepted(f)
       /\ bitmap' = bitmap \ {f}
       /\ used_frames' = used_frames - 1
       /\ owned' = owned \ {f}
  /\ UNCHANGED <<layout_vars, phase, todo>>

Next ==
  \/ PmmInit \/ FreeAvailable \/ ReserveBootRegions \/ ReserveInfo \/ ReserveModules
  \/ PmmAllocPage \/ PmmFreePage

Spec == Init /\ [][Next]_vars

-----------------------------------------------------------------------------
\* used_frames, from which pmm_used_frames() and pmm_free_frames() answer, is
\* the number of frames whose bit is set, through every overlapping or repeated
\* call of pmm_mark_region().
ExactAccounting == used_frames = Cardinality(bitmap \cap Frames)

\* Frame f holds a byte of the extent from addr to end.
Touches(f, addr, end) ==
  f * PMM_PAGE_SIZE < end /\ addr < (f + 1) * PMM_PAGE_SIZE

\* No frame that pmm_alloc_page() hands out holds a byte of the first frame, the
\* kernel image, the Multiboot structure, a module or the bitmap itself,
\* whatever is freed meanwhile.
BootMemorySafe ==
  \A f \in owned :
    /\ f # 0
    /\ ~Touches(f, 0, boot.kernel_end)
    /\ ~Touches(f, boot.info.addr, boot.info.addr + boot.info.len)
    /\ \A m \in boot.modules : ~Touches(f, m.addr, m.addr + m.len)
    /\ ~Touches(f, bitmap_phys_addr, bitmap_phys_addr + bitmap_size)

\* The owner of a frame can give it back: its bit stays set, so nobody else gets
\* it meanwhile, and pmm_free_page() will not panic.
OwnedCanBeFreed == \A f \in owned : FreeAccepted(f)

\* All bytes of frame f lie in a map entry that is marked available.
IsRAM(f) ==
  \E e \in boot.mmap :
    /\ e.available
    /\ e.addr <= f * PMM_PAGE_SIZE
    /\ (f + 1) * PMM_PAGE_SIZE <= e.addr + e.len

\* As long as only frames that were handed out are freed, every frame that is free
\* or handed out is RAM.
OnlyRAM ==
  ~any_free =>
    \A f \in owned \cup (IF phase = "ready" THEN Frames \ bitmap ELSE {}) : IsRAM(f)

-----------------------------------------------------------------------------
(***************************************************************************)
(* An inductive invariant, for machines whose memory ends at a frame       *)
(* boundary.                                                               *)
(***************************************************************************)

Aligned ==
  \A b \in Boots : \A e \in b.mmap :
    (\A g \in b.mmap : EndOf(g) <= EndOf(e)) => EndOf(e) % PMM_PAGE_SIZE = 0

\* What pmm_init() computed from the boot input.
Layout ==
  /\ max_physical_address = total_frames * PMM_PAGE_SIZE
  /\ total_frames <= 8 * bitmap_size
  /\ phase # "start" => \A x \in StructureEnds : x <= bitmap_phys_addr

\* The loops of multiboot_parse() stay within their lists.
Loops ==
  /\ phase = "free" => todo \subseteq boot.mmap
  /\ phase = "modules" => todo \subseteq boot.modules

\* From pmm_reserve_boot_regions() on, the boot regions stay reserved; nothing is
\* handed out before, and nothing handed out lies in them.
BootReserved ==
  /\ phase \in {"reserve", "modules", "ready"} =>
       Region(0, bitmap_phys_addr + bitmap_size) \subseteq bitmap
  /\ phase # "ready" => owned = {}
  /\ owned \subseteq bitmap
  /\ \A f \in owned : f * PMM_PAGE_SIZE >= bitmap_phys_addr + bitmap_size

IInv == TypeOK /\ Layout /\ Loops /\ BootReserved /\ ExactAccounting

-----------------------------------------------------------------------------
(***************************************************************************)
(* Another one, for OnlyRAM.  pmm_mark_region() rounds outwards, so the    *)
(* available entries have to consist of whole frames.  The low memory of a *)
(* PC does not, but it lies below the end of the kernel and is reserved.   *)
(***************************************************************************)

WholeFrames ==
  \A b \in Boots : \A e \in b.mmap : e.available =>
    \/ e.addr + e.len <= b.kernel_end
    \/ e.addr % PMM_PAGE_SIZE = 0 /\ (e.addr + e.len) % PMM_PAGE_SIZE = 0

\* What is free is RAM, or below the bitmap while that is not yet reserved.
FreeIsRAM ==
  /\ boot \in Boots
  /\ {max_physical_address, total_frames, bitmap_phys_addr, bitmap_size} \subseteq Nat
  /\ total_frames * PMM_PAGE_SIZE <= max_physical_address
  /\ phase # "start" => boot.kernel_end <= bitmap_phys_addr
  /\ phase = "free" => todo \subseteq {e \in boot.mmap : e.available}
  /\ phase = "start" => total_frames = 0
  /\ ~any_free =>
       /\ \A f \in owned : IsRAM(f)
       /\ \A f \in Frames \ bitmap :
            IsRAM(f) \/ (phase = "free" /\ f * PMM_PAGE_SIZE < bitmap_phys_addr)

=============================================================================
