----------------------------- MODULE PMMProofs ------------------------------
(***************************************************************************)
(* Proofs about module PMM, for every boot input whose memory map ends at  *)
(* a frame boundary.                                                       *)
(***************************************************************************)
EXTENDS PMM, FiniteSetTheorems, TLAPS

\* The two address roundings.
LEMMA Rounding ==
  ASSUME NEW a \in Nat
  PROVE  /\ align_up(a) \in Nat /\ align_down(a) \in Nat
         /\ align_down(a) <= a /\ a <= align_up(a)
         /\ align_down(0) = 0
         /\ \A f \in Nat : f * PMM_PAGE_SIZE >= a => f * PMM_PAGE_SIZE >= align_up(a)
BY SMTT(30) DEF align_up, align_down, PMM_PAGE_SIZE

\* A bitmap of s bytes has a bit for each of t frames.
LEMMA BitmapCovers ==
  ASSUME NEW t \in Nat, NEW s \in Nat, t <= 8 * s
  PROVE  0..8 * s - 1 \subseteq 0..8 * s /\ 0..t - 1 \subseteq 0..8 * s - 1
OBVIOUS

LEMMA FramesFinite ==
  ASSUME TypeOK
  PROVE  IsFiniteSet(Frames) /\ Cardinality(Frames) = total_frames
<1>1. 0 \in Int /\ total_frames - 1 \in Int /\ total_frames \in Nat
  BY DEF TypeOK
<1>2. IsFiniteSet(0..total_frames - 1)
      /\ Cardinality(0..total_frames - 1)
           = IF 0 > total_frames - 1 THEN 0 ELSE total_frames - 1 - 0 + 1
  BY <1>1, FS_Interval
<1> QED
  BY <1>1, <1>2 DEF Frames

LEMMA BitmapFinite ==
  ASSUME TypeOK
  PROVE  IsFiniteSet(bitmap) /\ IsFiniteSet(bitmap \cap Frames)
<1>1. bitmap \subseteq 0..8 * bitmap_size /\ 0 \in Int /\ 8 * bitmap_size \in Int
  BY DEF TypeOK
<1> QED
  BY <1>1, FS_Interval, FS_Subset, FS_Intersection, Zenon

\* The frames pmm_mark_region() visits are frames of the machine.
LEMMA RegionFrames ==
  ASSUME TypeOK, Layout, NEW a \in Nat, NEW n \in Nat
  PROVE  Region(a, n) \subseteq Frames /\ IsFiniteSet(Region(a, n))
<1>1. Region(a, n) \subseteq Frames
  BY DEF Region, Frames, TypeOK, Layout, PMM_PAGE_SIZE
<1> QED
  BY <1>1, FramesFinite, FS_Subset

\* Freeing a region keeps the count exact.
LEMMA MarkFreeExact ==
  ASSUME IInv, NEW R, R \subseteq Frames, IsFiniteSet(R), MarkFree(R),
         total_frames' = total_frames
  PROVE  ExactAccounting' /\ used_frames' \in 0..total_frames
<1>1. IsFiniteSet(bitmap \cap Frames) /\ used_frames = Cardinality(bitmap \cap Frames)
  BY BitmapFinite DEF IInv, ExactAccounting
<1>2. Cardinality((bitmap \cap Frames) \ R)
        = Cardinality(bitmap \cap Frames) - Cardinality((bitmap \cap Frames) \cap R)
  BY <1>1, FS_Difference, Zenon
<1>3. (bitmap \cap Frames) \cap R = bitmap \cap R /\ (bitmap \ R) \cap Frames = (bitmap \cap Frames) \ R
  OBVIOUS
<1>4. Frames' = Frames
  BY DEF Frames
<1>5. used_frames' = Cardinality(bitmap' \cap Frames')
  BY <1>1, <1>2, <1>3, <1>4 DEF MarkFree
<1>6. Cardinality((bitmap \cap Frames) \ R) \in Nat
  BY <1>1, FS_Difference, FS_CardinalityType, Zenon
<1>7. Cardinality((bitmap \cap Frames) \cap R) \in Nat
  BY <1>1, FS_Intersection, FS_CardinalityType, Zenon
<1>8. used_frames' = used_frames - Cardinality(bitmap \cap R)
  BY DEF MarkFree
<1>9. used_frames \in 0..total_frames /\ total_frames \in Nat
  BY DEF IInv, TypeOK
<1>10. used_frames' \in 0..total_frames
  <2>1. used_frames' \in Nat
    BY <1>3, <1>4, <1>5, <1>6, Zenon DEF MarkFree
  <2>2. Cardinality(bitmap \cap R) \in Nat
    BY <1>3, <1>7
  <2> QED
    BY <1>8, <1>9, <2>1, <2>2
<1> QED
  BY <1>5, <1>10 DEF ExactAccounting

\* So does reserving one.
LEMMA MarkReservedExact ==
  ASSUME IInv, NEW R, R \subseteq Frames, IsFiniteSet(R), MarkReserved(R),
         total_frames' = total_frames
  PROVE  ExactAccounting' /\ used_frames' \in 0..total_frames
<1> DEFINE B == bitmap \cap Frames
<1> DEFINE N == R \ bitmap
<1>1. IsFiniteSet(B) /\ used_frames = Cardinality(B)
  BY BitmapFinite DEF IInv, ExactAccounting
<1>2. IsFiniteSet(N)
  BY FS_Difference, Zenon
<1>3. (bitmap \cup R) \cap Frames = B \cup N /\ B \cap N = {}
  OBVIOUS
<1>4. Cardinality(B \cup N) = Cardinality(B) + Cardinality(N) - Cardinality(B \cap N)
  BY <1>1, <1>2, FS_Union
<1>5. Cardinality(B \cap N) = 0
  BY <1>3, FS_EmptySet
<1>6. Cardinality(B) \in Nat /\ Cardinality(N) \in Nat
  BY <1>1, <1>2, FS_CardinalityType
<1>7. Frames' = Frames
  BY DEF Frames
<1>8. used_frames' = Cardinality(bitmap' \cap Frames') /\ used_frames' \in Nat
  <2>1. bitmap' \cap Frames' = B \cup N /\ used_frames' = used_frames + Cardinality(N)
    BY <1>3, <1>7 DEF MarkReserved
  <2> HIDE DEF B, N
  <2>2. Cardinality(B \cup N) = Cardinality(B) + Cardinality(N)
    BY <1>4, <1>5, <1>6
  <2>3. used_frames' = Cardinality(B \cup N)
    BY <1>1, <2>1, <2>2
  <2>4. Cardinality(B \cup N) \in Nat
    BY <1>6, <2>2
  <2> QED
    BY <2>1, <2>3, <2>4, Zenon
<1>9. Cardinality(B \cup N) <= total_frames
  <2>1. IsFiniteSet(Frames) /\ Cardinality(Frames) = total_frames
    BY FramesFinite DEF IInv
  <2>2. B \cup N \in SUBSET Frames
    OBVIOUS
  <2> QED
    BY <2>1, <2>2, FS_Subset
<1>10. bitmap' \cap Frames' = B \cup N
  BY <1>3, <1>7 DEF MarkReserved
<1>11. used_frames' <= total_frames /\ total_frames \in Nat
  <2>1. total_frames \in Nat
    BY DEF IInv, TypeOK
  <2> HIDE DEF B, N
  <2> QED
    BY <1>8, <1>9, <1>10, <2>1
<1>12. ExactAccounting'
  BY <1>8 DEF ExactAccounting
<1> QED
  BY <1>8, <1>11, <1>12

-----------------------------------------------------------------------------
LEMMA InitIInv == Init => IInv
<1> SUFFICES ASSUME Init PROVE IInv
  OBVIOUS
<1>1. Frames = {} /\ bitmap \cap Frames = {}
  BY DEF Init, Frames
<1>2. ExactAccounting
  BY <1>1, FS_EmptySet DEF ExactAccounting, Init
<1> QED
  BY <1>2 DEF Init, IInv, TypeOK, Layout, Loops, BootReserved, PMM_PAGE_SIZE

\* pmm_init()
LEMMA PmmInitStep ==
  ASSUME Aligned, IInv, PmmInit
  PROVE  IInv'
<1>1. PICK m \in MapEnds, h \in StructureEnds :
        /\ IsMax(m, MapEnds)
        /\ IsMax(h, StructureEnds)
        /\ max_physical_address' = m
        /\ total_frames' = m \div PMM_PAGE_SIZE
        /\ bitmap_size' = (total_frames' + 7) \div 8
        /\ bitmap_phys_addr' = align_up(h)
        /\ bitmap' \in {0..8 * bitmap_size' - 1, 0..8 * bitmap_size'}
        /\ used_frames' = total_frames'
  BY DEF PmmInit
<1>2. boot \in Boots /\ boot' = boot /\ any_free \in BOOLEAN /\ any_free' = any_free
      /\ owned' = owned /\ phase' = "free" /\ phase = "start"
      /\ todo' = {e \in boot.mmap : e.available}
  BY DEF PmmInit, IInv, TypeOK
<1>3. m \in Nat /\ m % PMM_PAGE_SIZE = 0
  <2>1. CASE m = 0
    BY <2>1 DEF PMM_PAGE_SIZE
  <2>2. ASSUME NEW e \in boot.mmap, m = EndOf(e)
        PROVE  m \in Nat /\ m % PMM_PAGE_SIZE = 0
    <3>1. e.addr \in Nat /\ e.len \in Nat
      BY <1>2, BootsAssumption DEF MapEntry
    <3>2. \A g \in boot.mmap : EndOf(g) <= EndOf(e)
      BY <1>1, <2>2 DEF IsMax, MapEnds
    <3>3. EndOf(e) % PMM_PAGE_SIZE = 0
      BY <1>2, <3>2 DEF Aligned
    <3> QED
      BY <2>2, <3>1, <3>3 DEF EndOf, DirectMapEnd
  <2> QED
    BY <1>1, <2>1, <2>2 DEF MapEnds
<1>4. StructureEnds \subseteq Nat
  BY <1>2, BootsAssumption DEF StructureEnds, Extent
<1>5. /\ total_frames' \in Nat /\ bitmap_size' \in Nat /\ bitmap_phys_addr' \in Nat
      /\ max_physical_address' = total_frames' * PMM_PAGE_SIZE
      /\ total_frames' <= 8 * bitmap_size'
      /\ \A x \in StructureEnds : x <= bitmap_phys_addr'
  <2>1. /\ total_frames' \in Nat /\ max_physical_address' = total_frames' * PMM_PAGE_SIZE
    BY <1>1, <1>3 DEF PMM_PAGE_SIZE
  <2>2. bitmap_size' \in Nat /\ total_frames' <= 8 * bitmap_size'
    BY <1>1, <2>1, SMTT(30)
  <2>3. h \in Nat /\ h <= align_up(h) /\ align_up(h) \in Nat
    BY <1>1, <1>4, Rounding
  <2>4. ASSUME NEW x \in StructureEnds
        PROVE  x <= bitmap_phys_addr'
    BY <1>1, <1>4, <2>3 DEF IsMax
  <2> QED
    BY <1>1, <2>1, <2>2, <2>3, <2>4
<1>6. owned = {}
  BY <1>2 DEF IInv, BootReserved
<1>7. bitmap' \subseteq 0..8 * bitmap_size' /\ bitmap' \cap Frames' = Frames'
  <2>1. /\ 0..8 * bitmap_size' - 1 \subseteq 0..8 * bitmap_size'
        /\ Frames' \subseteq 0..8 * bitmap_size' - 1
    BY <1>5, BitmapCovers, Zenon DEF Frames
  <2> QED
    BY <1>1, <2>1, Zenon
<1>8. TypeOK'
  <2>1. owned' \subseteq Frames'
    BY <1>2, <1>6
  <2>2. used_frames' \in 0..total_frames' /\ max_physical_address' \in Nat
    BY <1>1, <1>3, <1>5
  <2> QED
    BY <1>2, <1>5, <1>7, <2>1, <2>2, Zenon DEF TypeOK
<1>9. ExactAccounting'
  <2>1. Cardinality(Frames') = total_frames'
    BY <1>5, FS_Interval, SMTT(30) DEF Frames
  <2> QED
    BY <1>1, <1>7, <2>1, Zenon DEF ExactAccounting
<1>10. Layout'
  BY <1>2, <1>5, Zenon DEF Layout, StructureEnds
<1>11. Loops' /\ BootReserved'
  BY <1>2, <1>6 DEF Loops, BootReserved
<1> QED
  BY <1>8, <1>9, <1>10, <1>11 DEF IInv

\* A region that is marked free or reserved during boot keeps types and layout.
LEMMA MarkKeeps ==
  ASSUME IInv, UNCHANGED <<layout_vars, owned>>,
         NEW R, R \subseteq Frames, bitmap' \subseteq bitmap \cup R,
         used_frames' \in 0..total_frames,
         phase' \in {"free", "reserve", "modules", "ready"}, phase # "start"
  PROVE  TypeOK' /\ Layout'
<1>1. UNCHANGED <<boot, any_free, max_physical_address, total_frames, bitmap_phys_addr,
                  bitmap_size, owned>>
  BY DEF layout_vars
<1>2. Frames \subseteq 0..8 * bitmap_size
  BY DEF Frames, IInv, TypeOK, Layout
<1>3. TypeOK'
  BY <1>1, <1>2 DEF IInv, TypeOK, Frames
<1>4. Layout'
  BY <1>1 DEF IInv, Layout, StructureEnds
<1> QED
  BY <1>3, <1>4

LEMMA FreeAvailableStep ==
  ASSUME IInv, FreeAvailable
  PROVE  IInv'
<1>1. PICK e \in todo : MarkFree(Region(e.addr, e.len)) /\ todo' = todo \ {e}
  BY DEF FreeAvailable
<1>2. phase = "free" /\ phase' = "free" /\ UNCHANGED <<layout_vars, owned>>
  BY DEF FreeAvailable
<1>3. e.addr \in Nat /\ e.len \in Nat
  BY <1>1, <1>2, BootsAssumption DEF IInv, Loops, TypeOK, MapEntry
<1> DEFINE R == Region(e.addr, e.len)
<1>4. R \subseteq Frames /\ IsFiniteSet(R)
  BY <1>3, RegionFrames DEF IInv
<1>5. MarkFree(R) /\ total_frames' = total_frames
  BY <1>1, <1>2 DEF layout_vars
<1> HIDE DEF R
<1>6. ExactAccounting' /\ used_frames' \in 0..total_frames
  BY <1>4, <1>5, MarkFreeExact
<1>7. TypeOK' /\ Layout'
  BY <1>2, <1>4, <1>5, <1>6, MarkKeeps, Zenon DEF MarkFree
<1>8. Loops' /\ BootReserved'
  BY <1>1, <1>2 DEF IInv, Loops, BootReserved, layout_vars
<1> QED
  BY <1>6, <1>7, <1>8 DEF IInv

\* One reserving call of pmm_mark_region() on R.
LEMMA ReserveStep ==
  ASSUME IInv, NEW R, R \subseteq Frames, IsFiniteSet(R), MarkReserved(R),
         UNCHANGED <<layout_vars, owned>>,
         phase \in {"free", "reserve", "modules"},
         phase' \in {"reserve", "modules"},
         phase = "free" => R = Region(0, bitmap_phys_addr + bitmap_size),
         Loops'
  PROVE  IInv'
<1>1. ExactAccounting' /\ used_frames' \in 0..total_frames
  BY MarkReservedExact DEF layout_vars
<1>2. TypeOK' /\ Layout'
  BY <1>1, MarkKeeps, Zenon DEF MarkReserved
<1>3. Region(0, bitmap_phys_addr + bitmap_size)' = Region(0, bitmap_phys_addr + bitmap_size)
  BY DEF Region, layout_vars
<1>4. BootReserved'
  BY <1>3 DEF IInv, BootReserved, MarkReserved, layout_vars
<1> QED
  BY <1>1, <1>2, <1>4 DEF IInv

LEMMA ReserveBootRegionsStep ==
  ASSUME IInv, ReserveBootRegions
  PROVE  IInv'
<1> DEFINE R == Region(0, bitmap_phys_addr + bitmap_size)
<1>1. R \subseteq Frames /\ IsFiniteSet(R)
  <2>1. bitmap_phys_addr + bitmap_size \in Nat
    BY DEF IInv, TypeOK
  <2> QED
    BY <2>1, RegionFrames DEF IInv
<1>2. Loops'
  BY DEF ReserveBootRegions, Loops
<1>3. /\ MarkReserved(R) /\ UNCHANGED <<layout_vars, owned>>
      /\ phase = "free" /\ phase' = "reserve"
  BY DEF ReserveBootRegions
<1> QED
  BY <1>1, <1>2, <1>3, ReserveStep

LEMMA ReserveInfoStep ==
  ASSUME IInv, ReserveInfo
  PROVE  IInv'
<1> DEFINE R == Region(boot.info.addr, boot.info.len)
<1>1. R \subseteq Frames /\ IsFiniteSet(R)
  <2>1. boot.info.addr \in Nat /\ boot.info.len \in Nat
    BY BootsAssumption DEF IInv, TypeOK, Extent
  <2> QED
    BY <2>1, RegionFrames DEF IInv
<1>2. Loops'
  BY DEF ReserveInfo, Loops, layout_vars
<1>3. /\ MarkReserved(R) /\ UNCHANGED <<layout_vars, owned>>
      /\ phase = "reserve" /\ phase' = "modules"
  BY DEF ReserveInfo
<1> QED
  BY <1>1, <1>2, <1>3, ReserveStep

LEMMA ReserveModulesStep ==
  ASSUME IInv, ReserveModules
  PROVE  IInv'
<1>1. phase = "modules" /\ UNCHANGED <<layout_vars, owned>>
  BY DEF ReserveModules
<1>2. ASSUME NEW m \in todo, MarkReserved(Region(m.addr, m.len)),
             todo' = todo \ {m}, phase' = phase
      PROVE  IInv'
  <2>1. m.addr \in Nat /\ m.len \in Nat
    BY <1>1, BootsAssumption DEF IInv, Loops, TypeOK, Extent
  <2>2. Region(m.addr, m.len) \subseteq Frames /\ IsFiniteSet(Region(m.addr, m.len))
    BY <2>1, RegionFrames DEF IInv
  <2>3. Loops'
    BY <1>1, <1>2 DEF IInv, Loops, layout_vars
  <2> QED
    BY <1>1, <1>2, <2>2, <2>3, ReserveStep
<1>3. ASSUME phase' = "ready", UNCHANGED <<todo, bitmap, used_frames>>
      PROVE  IInv'
  <2>1. TypeOK' /\ Layout' /\ Loops' /\ ExactAccounting'
    BY <1>1, <1>3 DEF IInv, TypeOK, Layout, StructureEnds, Loops, ExactAccounting,
                      Frames, layout_vars
  <2>2. BootReserved'
    BY <1>1, <1>3 DEF IInv, BootReserved, Region, layout_vars
  <2> QED
    BY <2>1, <2>2 DEF IInv
<1> QED
  BY <1>2, <1>3 DEF ReserveModules

-----------------------------------------------------------------------------
\* A frame outside the boot regions, in bytes.
LEMMA OutsideBootRegions ==
  ASSUME IInv, NEW f \in Frames
  PROVE  f \in Region(0, bitmap_phys_addr + bitmap_size)
           <=> f * PMM_PAGE_SIZE < bitmap_phys_addr + bitmap_size
<1> DEFINE end == bitmap_phys_addr + bitmap_size
<1>1. end \in Nat /\ total_frames \in Nat /\ f \in 0..total_frames - 1
      /\ max_physical_address = total_frames * PMM_PAGE_SIZE
  BY DEF IInv, TypeOK, Layout, Frames
<1>2. f * PMM_PAGE_SIZE < max_physical_address /\ f * PMM_PAGE_SIZE \in Nat
  BY <1>1 DEF PMM_PAGE_SIZE
<1>3. /\ align_up(end) \in Nat /\ end <= align_up(end) /\ align_down(0) = 0
      /\ f * PMM_PAGE_SIZE >= end => f * PMM_PAGE_SIZE >= align_up(end)
  BY <1>1, Rounding
<1>4. 0 + end = end
  BY <1>1
<1> HIDE DEF end
<1>5. f \in Region(0, end) <=> f * PMM_PAGE_SIZE < align_up(end)
  BY <1>1, <1>2, <1>3, <1>4 DEF Region
<1>6. f \in Region(0, end) <=> f * PMM_PAGE_SIZE < end
  BY <1>1, <1>2, <1>3, <1>5
<1> QED
  BY <1>6 DEF end

LEMMA PmmAllocPageStep ==
  ASSUME IInv, PmmAllocPage
  PROVE  IInv'
<1>1. PICK f \in Frames \ bitmap : /\ bitmap' = bitmap \cup {f}
                                   /\ used_frames' = used_frames + 1
                                   /\ owned' = owned \cup {f}
  BY DEF PmmAllocPage
<1>2. /\ UNCHANGED <<boot, any_free, max_physical_address, total_frames, bitmap_phys_addr,
                     bitmap_size, phase, todo>>
      /\ phase = "ready"
  BY DEF PmmAllocPage, layout_vars
<1> DEFINE B == bitmap \cap Frames
<1>3. IsFiniteSet(B) /\ used_frames = Cardinality(B) /\ f \notin B
  BY BitmapFinite DEF IInv, ExactAccounting
<1>4. Frames' = Frames /\ bitmap' \cap Frames' = B \cup {f}
  BY <1>1, <1>2 DEF Frames
<1>5. ExactAccounting'
  BY <1>1, <1>3, <1>4, FS_AddElement DEF ExactAccounting
<1>6. used_frames' <= total_frames
  <2>1. B \cup {f} \in SUBSET Frames
    OBVIOUS
  <2>2. Cardinality(B \cup {f}) <= Cardinality(Frames) /\ Cardinality(Frames) = total_frames
    BY <2>1, FramesFinite, FS_Subset DEF IInv
  <2> QED
    BY <1>4, <1>5, <2>2 DEF ExactAccounting
<1>7. TypeOK'
  <2>1. f \in 0..8 * bitmap_size
    BY DEF Frames, IInv, Layout, TypeOK
  <2>2. used_frames' \in 0..total_frames'
    BY <1>1, <1>2, <1>6 DEF IInv, TypeOK
  <2> QED
    BY <1>1, <1>2, <1>4, <2>1, <2>2 DEF IInv, TypeOK
<1>8. Layout' /\ Loops'
  BY <1>2 DEF IInv, Layout, StructureEnds, Loops
<1>9. BootReserved'
  <2>1. Region(0, bitmap_phys_addr + bitmap_size)' = Region(0, bitmap_phys_addr + bitmap_size)
    BY <1>2 DEF Region
  <2>2. f \notin Region(0, bitmap_phys_addr + bitmap_size)
    BY <1>1, <1>2 DEF IInv, BootReserved
  <2>3. f * PMM_PAGE_SIZE >= bitmap_phys_addr + bitmap_size
    BY <2>2, OutsideBootRegions DEF IInv, TypeOK, Frames, PMM_PAGE_SIZE
  <2> QED
    BY <1>1, <1>2, <2>1, <2>3 DEF IInv, BootReserved
<1> QED
  BY <1>5, <1>7, <1>8, <1>9 DEF IInv

LEMMA PmmFreePageStep ==
  ASSUME IInv, PmmFreePage
  PROVE  IInv'
<1>1. PICK f \in IF any_free THEN 0..total_frames ELSE owned :
        /\ FreeAccepted(f)
        /\ bitmap' = bitmap \ {f}
        /\ used_frames' = used_frames - 1
        /\ owned' = owned \ {f}
  BY DEF PmmFreePage
<1>2. /\ UNCHANGED <<boot, any_free, max_physical_address, total_frames, bitmap_phys_addr,
                     bitmap_size, phase, todo>>
      /\ phase = "ready"
  BY DEF PmmFreePage, layout_vars
<1>3. f \in Frames
  <2>1. f \in 0..total_frames
    BY <1>1 DEF IInv, TypeOK, Frames
  <2> QED
    BY <1>1, <2>1 DEF FreeAccepted, IInv, Layout, TypeOK, Frames, PMM_PAGE_SIZE
<1> DEFINE B == bitmap \cap Frames
<1>4. IsFiniteSet(B) /\ used_frames = Cardinality(B) /\ f \in B
  BY <1>1, <1>3, BitmapFinite DEF IInv, ExactAccounting, FreeAccepted
<1>5. Frames' = Frames /\ bitmap' \cap Frames' = B \ {f}
  BY <1>1, <1>2 DEF Frames
<1>6. ExactAccounting'
  BY <1>1, <1>4, <1>5, FS_RemoveElement DEF ExactAccounting
<1>7. used_frames' \in 0..total_frames
  <2>1. Cardinality(B \ {f}) \in Nat
    BY <1>4, FS_RemoveElement, FS_CardinalityType, Zenon
  <2>2. used_frames' \in Nat
    BY <1>5, <1>6, <2>1 DEF ExactAccounting
  <2>3. used_frames \in 0..total_frames /\ total_frames \in Nat
    BY DEF IInv, TypeOK
  <2> QED
    BY <1>1, <2>2, <2>3
<1>8. TypeOK' /\ Layout' /\ Loops'
  <2>1. TypeOK'
    BY <1>1, <1>2, <1>5, <1>7 DEF IInv, TypeOK
  <2>2. Layout' /\ Loops'
    BY <1>2 DEF IInv, Layout, StructureEnds, Loops
  <2> QED
    BY <2>1, <2>2
<1>9. BootReserved'
  <2>1. Region(0, bitmap_phys_addr + bitmap_size)' = Region(0, bitmap_phys_addr + bitmap_size)
    BY <1>2 DEF Region
  <2>2. f \notin Region(0, bitmap_phys_addr + bitmap_size)
    BY <1>1, <1>3, OutsideBootRegions
       DEF FreeAccepted, IInv, TypeOK, Frames, PMM_PAGE_SIZE
  <2> QED
    BY <1>1, <1>2, <2>1, <2>2 DEF IInv, BootReserved
<1> QED
  BY <1>6, <1>8, <1>9 DEF IInv

LEMMA NextIInv ==
  ASSUME Aligned
  PROVE  IInv /\ [Next]_vars => IInv'
<1> SUFFICES ASSUME IInv, [Next]_vars PROVE IInv'
  OBVIOUS
<1>1. CASE UNCHANGED vars
  BY <1>1 DEF vars, layout_vars, IInv, TypeOK, Layout, StructureEnds, Loops, BootReserved,
              ExactAccounting, Frames, Region
<1> QED
  BY <1>1, PmmInitStep, FreeAvailableStep, ReserveBootRegionsStep, ReserveInfoStep,
     ReserveModulesStep, PmmAllocPageStep, PmmFreePageStep DEF Next

-----------------------------------------------------------------------------
LEMMA Invariance ==
  ASSUME Aligned
  PROVE  Spec => []IInv
<1>1. IInv /\ [Next]_vars => IInv'
  BY NextIInv
<1> QED
  BY InitIInv, <1>1, PTL DEF Spec

\* Type correctness: in particular every set bit lies in the bitmap and
\* used_frames never leaves 0..total_frames, so it cannot wrap.
THEOREM TypeCorrect ==
  ASSUME Aligned
  PROVE  Spec => []TypeOK
<1>1. IInv => TypeOK
  BY DEF IInv
<1> QED
  BY Invariance, <1>1, PTL

\* "Exact frame accounting": the counter is the number of set bits, on every
\* machine whose memory ends at a frame boundary.
THEOREM AccountingIsExact ==
  ASSUME Aligned
  PROVE  Spec => []ExactAccounting
<1>1. IInv => ExactAccounting
  BY DEF IInv
<1> QED
  BY Invariance, <1>1, PTL

\* Wherever the boot loader put its structures, and whatever is freed, no frame
\* with a byte of them, of the kernel or of the bitmap is ever handed out.
THEOREM BootMemoryIsSafe ==
  ASSUME Aligned
  PROVE  Spec => []BootMemorySafe
<1>1. ASSUME IInv PROVE BootMemorySafe
  <2> SUFFICES ASSUME NEW f \in owned
               PROVE  /\ f # 0
                      /\ ~Touches(f, 0, boot.kernel_end)
                      /\ ~Touches(f, boot.info.addr, boot.info.addr + boot.info.len)
                      /\ \A m \in boot.modules : ~Touches(f, m.addr, m.addr + m.len)
                      /\ ~Touches(f, bitmap_phys_addr, bitmap_phys_addr + bitmap_size)
    BY DEF BootMemorySafe
  <2>1. /\ f \in 0..total_frames - 1 /\ total_frames \in Nat /\ bitmap_size \in Nat
        /\ bitmap_phys_addr \in Nat /\ phase = "ready"
        /\ f * PMM_PAGE_SIZE >= bitmap_phys_addr + bitmap_size
        /\ total_frames <= 8 * bitmap_size
        /\ \A x \in StructureEnds : x <= bitmap_phys_addr
    BY <1>1 DEF IInv, TypeOK, BootReserved, Layout, Frames
  <2>2. StructureEnds \subseteq Nat
    BY <1>1, BootsAssumption DEF IInv, TypeOK, StructureEnds, Extent
  <2>3. \A x \in StructureEnds : ~(f * PMM_PAGE_SIZE < x)
    BY <2>1, <2>2 DEF PMM_PAGE_SIZE
  <2>4. f # 0 /\ ~(f * PMM_PAGE_SIZE < bitmap_phys_addr + bitmap_size)
    BY <2>1 DEF PMM_PAGE_SIZE
  <2> QED
    BY <2>3, <2>4 DEF Touches, StructureEnds
<1> QED
  BY Invariance, <1>1, PTL

\* The owner of a frame can always give it back.
THEOREM OwnersCanFree ==
  ASSUME Aligned
  PROVE  Spec => []OwnedCanBeFreed
<1>1. ASSUME IInv PROVE OwnedCanBeFreed
  <2> SUFFICES ASSUME NEW f \in owned PROVE FreeAccepted(f)
    BY DEF OwnedCanBeFreed
  <2>1. f \in 0..total_frames - 1 /\ total_frames \in Nat
        /\ max_physical_address = total_frames * PMM_PAGE_SIZE
    BY <1>1 DEF IInv, TypeOK, Layout, Frames
  <2>2. f * PMM_PAGE_SIZE < max_physical_address
    BY <2>1 DEF PMM_PAGE_SIZE
  <2> QED
    BY <1>1, <2>2 DEF IInv, BootReserved, FreeAccepted
<1> QED
  BY Invariance, <1>1, PTL

-----------------------------------------------------------------------------
(***************************************************************************)
(* OnlyRAM.  FreeIsRAM is inductive by itself, wherever memory ends.       *)
(***************************************************************************)

\* Frame boundaries are not rounded.
LEMMA WholeRounding ==
  ASSUME NEW a \in Nat, a % PMM_PAGE_SIZE = 0
  PROVE  /\ align_down(a) = a /\ align_up(a) = a
         /\ \A f \in Nat : f * PMM_PAGE_SIZE < a => (f + 1) * PMM_PAGE_SIZE <= a
BY SMTT(30) DEF align_up, align_down, PMM_PAGE_SIZE

\* A frame that pass 2 of multiboot_parse() frees is RAM, or will be reserved.
LEMMA FreedIsRAM ==
  ASSUME WholeFrames, FreeIsRAM, phase = "free", NEW e \in todo,
         NEW f \in Region(e.addr, e.len)
  PROVE  IsRAM(f) \/ f * PMM_PAGE_SIZE < bitmap_phys_addr
<1> DEFINE end == e.addr + e.len
<1>1. /\ e \in boot.mmap /\ e.available /\ e.addr \in Nat /\ e.len \in Nat /\ end \in Nat
      /\ boot \in Boots /\ boot.kernel_end \in Nat
      /\ boot.kernel_end <= bitmap_phys_addr /\ bitmap_phys_addr \in Nat
  BY BootsAssumption DEF FreeIsRAM, MapEntry
<1>2. /\ f \in Nat /\ f * PMM_PAGE_SIZE \in Nat
      /\ align_down(e.addr) <= f * PMM_PAGE_SIZE /\ f * PMM_PAGE_SIZE < align_up(end)
  BY DEF FreeIsRAM, Region, PMM_PAGE_SIZE
<1>3. CASE end <= boot.kernel_end
  <2>1. align_up(end) \in Nat /\ (f * PMM_PAGE_SIZE >= end => f * PMM_PAGE_SIZE >= align_up(end))
    BY <1>1, <1>2, Rounding
  <2> HIDE DEF end
  <2> QED
    BY <1>1, <1>2, <1>3, <2>1
<1>4. CASE e.addr % PMM_PAGE_SIZE = 0 /\ end % PMM_PAGE_SIZE = 0
  <2>1. align_down(e.addr) = e.addr
    BY <1>1, <1>4, WholeRounding
  <2>2. (f + 1) * PMM_PAGE_SIZE <= end
    BY <1>1, <1>2, <1>4, WholeRounding
  <2> QED
    BY <1>1, <1>2, <2>1, <2>2 DEF IsRAM
<1> QED
  BY <1>1, <1>3, <1>4 DEF WholeFrames

LEMMA InitFreeIsRAM == Init => FreeIsRAM
  BY DEF Init, FreeIsRAM, Frames, PMM_PAGE_SIZE

\* pmm_init() reserves every frame.
LEMMA PmmInitKeepsRAM ==
  ASSUME FreeIsRAM, PmmInit
  PROVE  FreeIsRAM'
<1>1. PICK m \in MapEnds, h \in StructureEnds :
        /\ IsMax(h, StructureEnds)
        /\ max_physical_address' = m
        /\ total_frames' = m \div PMM_PAGE_SIZE
        /\ bitmap_size' = (total_frames' + 7) \div 8
        /\ bitmap_phys_addr' = align_up(h)
        /\ bitmap' \in {0..8 * bitmap_size' - 1, 0..8 * bitmap_size'}
  BY DEF PmmInit
<1>2. /\ boot \in Boots /\ UNCHANGED <<boot, any_free, owned>> /\ phase' = "free"
      /\ todo' = {e \in boot.mmap : e.available}
  BY DEF PmmInit, FreeIsRAM
<1>3. m \in Nat /\ StructureEnds \subseteq Nat /\ boot.kernel_end \in StructureEnds
  <2>1. \A e \in boot.mmap : EndOf(e) \in Nat
    BY <1>2, BootsAssumption DEF MapEntry, EndOf, DirectMapEnd
  <2>2. StructureEnds \subseteq Nat /\ boot.kernel_end \in StructureEnds
    BY <1>2, BootsAssumption DEF StructureEnds, Extent
  <2> QED
    BY <1>1, <2>1, <2>2 DEF MapEnds
<1>4. /\ total_frames' \in Nat /\ total_frames' * PMM_PAGE_SIZE <= m
      /\ bitmap_size' \in Nat /\ total_frames' <= 8 * bitmap_size'
  <2>1. total_frames' \in Nat /\ total_frames' * PMM_PAGE_SIZE <= m
    BY <1>1, <1>3 DEF PMM_PAGE_SIZE
  <2> QED
    BY <1>1, <2>1
<1>5. bitmap_phys_addr' \in Nat /\ boot.kernel_end <= bitmap_phys_addr'
  <2>1. h \in Nat /\ h <= align_up(h) /\ align_up(h) \in Nat
    BY <1>1, <1>3, Rounding
  <2>2. boot.kernel_end <= h /\ boot.kernel_end \in Nat
    BY <1>1, <1>3 DEF IsMax
  <2> QED
    BY <1>1, <2>1, <2>2
<1>6. Frames' \subseteq bitmap'
  <2>1. /\ 0..8 * bitmap_size' - 1 \subseteq 0..8 * bitmap_size'
        /\ Frames' \subseteq 0..8 * bitmap_size' - 1
    BY <1>4, BitmapCovers, Zenon DEF Frames
  <2> QED
    BY <1>1, <2>1, Zenon
<1>7. \A f : IsRAM(f)' <=> IsRAM(f)
  BY <1>2 DEF IsRAM
<1> QED
  BY <1>1, <1>2, <1>3, <1>4, <1>5, <1>6, <1>7 DEF FreeIsRAM

\* A step frees and hands out nothing but RAM, or what will be reserved.
FreesRAM ==
  ~any_free =>
    /\ \A f \in owned' : IsRAM(f)
    /\ \A f \in Frames \ bitmap' :
         IsRAM(f) \/ (phase' = "free" /\ f * PMM_PAGE_SIZE < bitmap_phys_addr)

\* Such steps after pmm_init() keep the invariant.
LEMMA KeepsRAM ==
  ASSUME FreeIsRAM, UNCHANGED layout_vars, phase # "start",
         phase' \in {"free", "reserve", "modules", "ready"},
         phase' = "free" => phase = "free" /\ todo' \subseteq todo,
         FreesRAM
  PROVE  FreeIsRAM'
<1>1. UNCHANGED <<boot, any_free, max_physical_address, total_frames, bitmap_phys_addr, bitmap_size>>
  BY DEF layout_vars
<1>2. (\A f : IsRAM(f)' <=> IsRAM(f)) /\ Frames' = Frames
  BY <1>1 DEF IsRAM, Frames
<1> QED
  BY <1>1, <1>2 DEF FreeIsRAM, FreesRAM

LEMMA NextFreeIsRAM ==
  ASSUME WholeFrames
  PROVE  FreeIsRAM /\ [Next]_vars => FreeIsRAM'
<1> SUFFICES ASSUME FreeIsRAM, [Next]_vars PROVE FreeIsRAM'
  OBVIOUS
<1>1. CASE PmmInit
  BY <1>1, PmmInitKeepsRAM
<1>2. CASE FreeAvailable
  <2>1. /\ UNCHANGED <<layout_vars, phase, owned>> /\ phase = "free"
        /\ \E e \in todo : bitmap' = bitmap \ Region(e.addr, e.len) /\ todo' = todo \ {e}
    BY <1>2 DEF FreeAvailable, MarkFree
  <2>2. ASSUME ~any_free, NEW f \in Frames \ bitmap'
        PROVE  IsRAM(f) \/ f * PMM_PAGE_SIZE < bitmap_phys_addr
    BY <2>1, <2>2, FreedIsRAM DEF FreeIsRAM
  <2>3. FreesRAM
    BY <2>1, <2>2 DEF FreeIsRAM, FreesRAM
  <2> QED
    BY <2>1, <2>3, KeepsRAM
<1>3. CASE ReserveBootRegions
  <2> DEFINE R == Region(0, bitmap_phys_addr + bitmap_size)
  <2>1. UNCHANGED <<layout_vars, owned>> /\ phase = "free" /\ phase' = "reserve" /\ bitmap' = bitmap \cup R
    BY <1>3 DEF ReserveBootRegions, MarkReserved
  <2>2. ASSUME NEW f \in Frames, f * PMM_PAGE_SIZE < bitmap_phys_addr PROVE f \in R
    <3>1. /\ {max_physical_address, total_frames, bitmap_phys_addr, bitmap_size} \subseteq Nat
          /\ total_frames * PMM_PAGE_SIZE <= max_physical_address
      BY DEF FreeIsRAM
    <3>2. f \in 0..total_frames /\ f < total_frames /\ f \in Nat
      BY <3>1 DEF Frames
    <3>3. f * PMM_PAGE_SIZE < max_physical_address /\ f * PMM_PAGE_SIZE \in Nat
      BY <3>1, <3>2 DEF PMM_PAGE_SIZE
    <3>4. LET end == bitmap_phys_addr + bitmap_size
          IN  end \in Nat /\ 0 + end = end /\ end <= align_up(end) /\ align_up(end) \in Nat
              /\ align_down(0) = 0
      BY <3>1, Rounding
    <3>5. f * PMM_PAGE_SIZE < align_up(0 + (bitmap_phys_addr + bitmap_size))
      BY <2>2, <3>1, <3>3, <3>4
    <3> QED
      BY <3>2, <3>3, <3>4, <3>5 DEF Region
  <2> HIDE DEF R
  <2>3. FreesRAM
    BY <2>1, <2>2 DEF FreeIsRAM, FreesRAM
  <2> QED
    BY <2>1, <2>3, KeepsRAM
<1>4. CASE ReserveInfo \/ ReserveModules
  <2>1. /\ UNCHANGED <<layout_vars, owned>> /\ phase \in {"reserve", "modules"}
        /\ phase' \in {"modules", "ready"} /\ bitmap \subseteq bitmap'
    BY <1>4 DEF ReserveInfo, ReserveModules, MarkReserved
  <2>2. FreesRAM
    BY <2>1 DEF FreeIsRAM, FreesRAM
  <2> QED
    BY <2>1, <2>2, KeepsRAM
<1>5. CASE PmmAllocPage \/ PmmFreePage
  <2>1. UNCHANGED layout_vars /\ phase = "ready" /\ phase' = "ready"
    BY <1>5 DEF PmmAllocPage, PmmFreePage
  <2>2. ASSUME ~any_free
        PROVE  \E f \in (Frames \ bitmap) \cup owned :
                 \/ bitmap' = bitmap \cup {f} /\ owned' = owned \cup {f}
                 \/ bitmap' = bitmap \ {f} /\ owned' = owned \ {f}
    BY <1>5, <2>2 DEF PmmAllocPage, PmmFreePage
  <2>3. FreesRAM
    BY <2>1, <2>2 DEF FreeIsRAM, FreesRAM
  <2> QED
    BY <2>1, <2>3, KeepsRAM
<1>6. CASE UNCHANGED vars
  BY <1>6 DEF vars, layout_vars, FreeIsRAM, IsRAM, Frames
<1> QED
  BY <1>1, <1>2, <1>3, <1>4, <1>5, <1>6 DEF Next

\* As long as owners free only what they were handed, every frame that is free or
\* handed out is RAM, on every machine whose available memory above the kernel
\* consists of whole frames.
THEOREM OnlyRAMIsHandedOut ==
  ASSUME WholeFrames
  PROVE  Spec => []OnlyRAM
<1>1. FreeIsRAM /\ [Next]_vars => FreeIsRAM'
  BY NextFreeIsRAM
<1>2. FreeIsRAM => OnlyRAM
  BY DEF FreeIsRAM, OnlyRAM
<1> QED
  BY InitFreeIsRAM, <1>1, <1>2, PTL DEF Spec

=============================================================================
