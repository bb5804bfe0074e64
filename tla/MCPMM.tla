------------------------------- MODULE MCPMM --------------------------------
(***************************************************************************)
(* Module PMM for TLC, on machines of at most 17 frames.                   *)
(***************************************************************************)
EXTENDS PMM

KiB == 1024

\* A machine with ram frames at the bottom and, above a hole of one frame,
\* high more.  extra bytes at the top make an end that is not page-aligned.
Machine(ram, high, extra) ==
  {[addr |-> 0, len |-> ram * 4 * KiB, available |-> TRUE],
   [addr |-> ram * 4 * KiB, len |-> 4 * KiB, available |-> FALSE],
   [addr |-> (ram + 1) * 4 * KiB, len |-> high * 4 * KiB + extra, available |-> TRUE]}

\* The loader places the structure and a module before, inside the last page of
\* or behind the kernel image, which ends in the middle of frame 1.
Placements ==
  {[kernel_end |-> 6 * KiB, info |-> i, modules |-> m] :
     i \in {[addr |-> 2 * KiB, len |-> KiB], [addr |-> 7 * KiB, len |-> 2 * KiB]},
     m \in {{}, {[addr |-> 8 * KiB, len |-> 5 * KiB]},
            {[addr |-> 12 * KiB, len |-> 4 * KiB], [addr |-> 6 * KiB, len |-> KiB]}}}

\* Like the low memory of a PC, the first entry ends inside a frame, below the end of
\* the kernel.
LowMemory ==
  {[addr |-> 0, len |-> KiB, available |-> TRUE],
   [addr |-> KiB, len |-> 3 * KiB, available |-> FALSE],
   [addr |-> 4 * KiB, len |-> 20 * KiB, available |-> TRUE]}

WithMap(p, mmap) ==
  [kernel_end |-> p.kernel_end, info |-> p.info, modules |-> p.modules, mmap |-> mmap]

AlignedBoots ==
  {WithMap(p, Machine(ram, high, 0)) : p \in Placements, ram \in {7, 8}, high \in {1, 2}}
    \cup {WithMap(p, mmap) : p \in Placements, mmap \in {Machine(8, 8, 0), LowMemory}}

\* A machine whose memory map ends in the middle of a frame.
UnalignedBoots == {WithMap(p, Machine(6, 1, KiB)) : p \in Placements}

=============================================================================
