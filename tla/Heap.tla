-------------------------------- MODULE Heap --------------------------------
(***************************************************************************)
(* The kernel heap (kernel/memory/heap.c), with the headers and the links  *)
(* it keeps in memory.                                                     *)
(*                                                                         *)
(* The unit is 16 bytes: align_up(size, 16) makes every request a number   *)
(* of units, and the 48-byte header is 3 of them.  Addresses count from    *)
(* heap_start.  A block is named by the address of its header.  kmalloc()  *)
(* and kfree() run with interrupts disabled; the turns of the loop in      *)
(* kmalloc() are separate steps, between which nothing else happens.       *)
(***************************************************************************)
EXTENDS Integers, Functions

CONSTANTS
  PageUnits,     \* PMM_PAGE_SIZE in units
  ReservedPages, \* heap_reserved_end in pages
  Requests       \* the sizes asked for, in units

ASSUME HeapAssumption ==
  /\ PageUnits \in Nat /\ PageUnits > 4
  /\ ReservedPages \in Nat
  /\ Requests \subseteq Nat \ {0}

Header == 3  \* sizeof(struct heap_block)
NULL == -1

VARIABLES
  hdr,   \* address -> the header last written there and not overwritten since
  head,
  heap_committed_end,
  live,  \* blocks handed out -> the size asked for
  req    \* the size for which kmalloc() has just expanded the heap, or 0

vars == <<hdr, head, heap_committed_end, live, req>>

Units == 0..ReservedPages * PageUnits

\* struct heap_block; the magic number is what makes an address a member of DOMAIN hdr.
Headers == [size : Units, used : BOOLEAN, next : Units \cup {NULL}, prev : Units \cup {NULL}]

IsHeap(h) == DOMAIN h \subseteq Units /\ \A b \in DOMAIN h : h[b] \in Headers

TypeOK ==
  /\ IsHeap(hdr)
  /\ head \in {0, NULL}
  /\ heap_committed_end \in {p * PageUnits : p \in 0..ReservedPages}
  /\ DOMAIN live \subseteq DOMAIN hdr
  /\ req \in Requests \cup {0}

\* kheap_init()
Init ==
  /\ hdr = <<>>
  /\ head = NULL
  /\ heap_committed_end = 0
  /\ live = <<>>
  /\ req = 0

-----------------------------------------------------------------------------
(***************************************************************************)
(* Reading and writing headers.                                            *)
(***************************************************************************)

\* v is written at address a.
Put(f, a, v) == [c \in DOMAIN f \cup {a} |-> IF c = a THEN v ELSE f[c]]

\* "if (a) a->prev = p;"
SetPrev(h, a, p) == IF a = NULL THEN h ELSE [h EXCEPT ![a].prev = p]

\* More blocks than fit into the reserved range.
MaxBlocks == (ReservedPages * PageUnits) \div (Header + 1) + 1

\* The list: its i-th block, or NULL past its end.
Nth[i \in 0..MaxBlocks] ==
  IF i = 0 THEN head
  ELSE LET b == Nth[i - 1] IN IF b = NULL THEN NULL ELSE hdr[b].next

Blocks == {Nth[i] : i \in DOMAIN Nth} \ {NULL}

\* The search loop of kmalloc() stops at the first free block that is large
\* enough.
FirstFit(b, n) ==
  \E i \in DOMAIN Nth :
    /\ b = Nth[i] /\ b # NULL
    /\ ~hdr[b].used /\ hdr[b].size >= n
    /\ \A j \in 0..i - 1 : hdr[Nth[j]].used \/ hdr[Nth[j]].size < n

Fits(n) == \E b \in Blocks : FirstFit(b, n)

IsTail(b) == IF head = NULL THEN b = NULL ELSE b \in Blocks /\ hdr[b].next = NULL

-----------------------------------------------------------------------------
(***************************************************************************)
(* kmalloc()                                                               *)
(***************************************************************************)

\* kmalloc(n) is called, or goes round its loop.
Searching(n) == req \in {0, n}

\* Mutant of Split: the block behind is not told of its new neighbour.
SplitNoBackLink(b, n) ==
  LET rest == b + Header + n
      new == [size |-> hdr[b].size - n - Header, used |-> FALSE,
              next |-> hdr[b].next, prev |-> b]
  IN  Put([hdr EXCEPT ![b].size = n, ![b].used = TRUE, ![b].next = rest], rest, new)

\* The headers after block b is cut to n units.
Split(b, n) ==
  LET rest == b + Header + n
      new == [size |-> hdr[b].size - n - Header, used |-> FALSE,
              next |-> hdr[b].next, prev |-> b]
  IN  Put([SetPrev(hdr, hdr[b].next, rest)
             EXCEPT ![b].size = n, ![b].used = TRUE, ![b].next = rest], rest, new)

\* The remainder can hold a header and 16 bytes.
WorthSplitting(b, n) == hdr[b].size - n >= Header + 1

Allocated(b, n) ==
  IF WorthSplitting(b, n) THEN Split(b, n) ELSE [hdr EXCEPT ![b].used = TRUE]

\* The search succeeds.  The caller may then write over its payload, and over
\* any header of an earlier block that is still there.
KmallocFit(n) ==
  /\ Searching(n)
  /\ \E b \in Blocks :
       /\ FirstFit(b, n)
       /\ \E written \in {{}, b + 1..b + Header + Allocated(b, n)[b].size - 1} :
            hdr' = Restrict(Allocated(b, n), DOMAIN Allocated(b, n) \ written)
       /\ live' = Put(live, b, n)
  /\ req' = 0
  /\ UNCHANGED <<head, heap_committed_end>>

\* Mutant of PagesFor: no room for the header.
PagesForPayload(n) == (n + PageUnits - 1) \div PageUnits

\* expand_heap(block_extent), in pages.
PagesFor(n) == (Header + n + PageUnits - 1) \div PageUnits

\* The heap has grown by k > 0 pages, which go to a free tail or become a block.
Extend(tail, k) ==
  /\ IF tail # NULL /\ ~hdr[tail].used
     THEN /\ hdr' = [hdr EXCEPT ![tail].size = @ + k * PageUnits]
          /\ UNCHANGED head
     ELSE LET new == [size |-> k * PageUnits - Header, used |-> FALSE,
                      next |-> NULL, prev |-> tail]
              linked == IF tail = NULL THEN hdr
                        ELSE [hdr EXCEPT ![tail].next = heap_committed_end]
          IN  /\ hdr' = Put(linked, heap_committed_end, new)
              /\ head' = IF tail = NULL THEN heap_committed_end ELSE head
  /\ heap_committed_end' = heap_committed_end + k * PageUnits

\* The search fails and the heap grows by all the pages asked for: search again.
KmallocExpand(n) ==
  /\ Searching(n) /\ ~Fits(n)
  /\ heap_committed_end + PagesFor(n) * PageUnits <= ReservedPages * PageUnits
  /\ \E tail \in Blocks \cup {NULL} : IsTail(tail) /\ Extend(tail, PagesFor(n))
  /\ req' = n
  /\ UNCHANGED live

\* The search fails and the heap cannot grow, or the frames run out on the way;
\* what was mapped by then stays in the heap.
KmallocNull(n) ==
  /\ Searching(n) /\ ~Fits(n)
  /\ \/ /\ heap_committed_end + PagesFor(n) * PageUnits <= ReservedPages * PageUnits
        /\ \E tail \in Blocks \cup {NULL}, k \in 1..PagesFor(n) - 1 :
             IsTail(tail) /\ Extend(tail, k)
     \/ UNCHANGED <<hdr, head, heap_committed_end>>
  /\ req' = 0
  /\ UNCHANGED live

-----------------------------------------------------------------------------
(***************************************************************************)
(* kfree()                                                                 *)
(***************************************************************************)

\* Mutant of KfreeAccepts: without KASSERT(block->state == HEAP_USED).
KfreeAcceptsFree(b) ==
  /\ b >= 0 /\ b + Header < heap_committed_end
  /\ b \in DOMAIN hdr

\* The assertions of kfree() on the pointer to the payload of b.
KfreeAccepts(b) ==
  /\ b >= 0 /\ b + Header < heap_committed_end
  /\ b \in DOMAIN hdr
  /\ hdr[b].used

\* Coalesce block a with its successor in h.  The header of the successor stays
\* in memory; nothing but its state is read again, so the rest is forgotten.
Merge(h, a) ==
  LET b == h[a].next IN
  SetPrev([h EXCEPT ![a].size = @ + Header + h[b].size, ![a].next = h[b].next,
                    ![b].size = 0, ![b].next = NULL, ![b].prev = NULL],
          h[b].next, a)

\* Mutant of Coalesced: the successor is absorbed whatever its state.
CoalescedAnyState(b) ==
  LET h == [hdr EXCEPT ![b].used = FALSE]
      f == IF h[b].next # NULL THEN Merge(h, b) ELSE h
  IN  IF f[b].prev # NULL /\ ~f[f[b].prev].used THEN Merge(f, f[b].prev) ELSE f

Coalesced(b) ==
  LET h == [hdr EXCEPT ![b].used = FALSE]
      f == IF h[b].next # NULL /\ ~h[h[b].next].used THEN Merge(h, b) ELSE h
  IN  IF f[b].prev # NULL /\ ~f[f[b].prev].used THEN Merge(f, f[b].prev) ELSE f

Kfree ==
  /\ req = 0
  /\ \E b \in DOMAIN live :
       /\ KfreeAccepts(b)
       /\ hdr' = Coalesced(b)
       /\ live' = Restrict(live, DOMAIN live \ {b})
  /\ UNCHANGED <<head, heap_committed_end, req>>

Next ==
  \/ \E n \in Requests : KmallocFit(n) \/ KmallocExpand(n) \/ KmallocNull(n)
  \/ Kfree

Spec == Init /\ [][Next]_vars

-----------------------------------------------------------------------------
\* The state is well typed, and the assertions of kheap_verify() hold: the blocks tile the committed heap from
\* heap_start to its end, the links agree in both directions, and no two free
\* blocks are neighbours.
KheapVerify ==
  /\ TypeOK
  /\ \A b \in Blocks :
       /\ b + Header + hdr[b].size <= heap_committed_end
       /\ IF hdr[b].next # NULL
          THEN hdr[hdr[b].next].prev = b /\ b + Header + hdr[b].size = hdr[b].next
          ELSE b + Header + hdr[b].size = heap_committed_end
       /\ IF hdr[b].prev # NULL THEN hdr[hdr[b].prev].next = b ELSE b = head
       /\ ~hdr[b].used /\ hdr[b].next # NULL => hdr[hdr[b].next].used

\* What was handed out belongs to its caller: the block is still in the list and
\* in use, is as large as asked for, and ends before the next header, so that no
\* other allocation and no bookkeeping of the heap shares a byte with it.
LiveBlocks ==
  /\ \A b \in DOMAIN live :
       /\ b \in Blocks /\ hdr[b].used /\ live[b] <= hdr[b].size
       /\ b + Header + hdr[b].size <= heap_committed_end
       /\ \A c \in Blocks \ {b} : c + Header <= b \/ c >= b + Header + hdr[b].size
  /\ \A b \in Blocks : hdr[b].used => b \in DOMAIN live

\* "Free an allocated block. Panics on invalid pointers.": the assertions of
\* kfree() let through the pointers that were handed out and not yet given back,
\* and no other place where a header is or has been, so that a second kfree()
\* panics even after the block was merged into a neighbour.
FreeOnce == \A b \in Units : KfreeAccepts(b) <=> b \in DOMAIN live

\* The loop of kmalloc() turns at most twice: once the heap has grown, the
\* search succeeds.
OneExpansionIsEnough == req # 0 => Fits(req)

-----------------------------------------------------------------------------
(***************************************************************************)
(* The inductive invariant behind these.                                   *)
(***************************************************************************)

\* S is the list in h from block hd on: linked in both directions, it tiles the heap
\* up to end.
IsList(h, hd, end, S) ==
  /\ S \subseteq DOMAIN h
  /\ IF hd = NULL THEN S = {} /\ end = 0 ELSE hd \in S
  /\ \A b \in S :
       /\ h[b].size >= 1 /\ b + Header + h[b].size <= end
       /\ IF h[b].next = NULL
          THEN b + Header + h[b].size = end
          ELSE /\ h[b].next \in S /\ h[h[b].next].prev = b
               /\ h[b].next = b + Header + h[b].size
       /\ IF h[b].prev = NULL THEN b = hd ELSE h[b].prev \in S /\ h[h[b].prev].next = b
       /\ \A c \in S : c > b => c >= b + Header + h[b].size

\* No two free blocks of the list S are neighbours.
Coalescing(h, S) == \A b \in S : ~h[b].used /\ h[b].next # NULL => h[h[b].next].used

\* The used blocks are those handed out, each in the list and as large as asked for;
\* headers that are no longer in the list are free.
Accounted(S) ==
  /\ \A b \in DOMAIN hdr : hdr[b].used <=> b \in DOMAIN live
  /\ \A b \in DOMAIN live : b \in S /\ live[b] \in Nat /\ live[b] <= hdr[b].size

\* A free block for the request the heap was expanded for.
Room(S) == req # 0 => \E b \in S : ~hdr[b].used /\ hdr[b].size >= req

IInv ==
  /\ TypeOK
  /\ IsList(hdr, head, heap_committed_end, Blocks)
  /\ Coalescing(hdr, Blocks) /\ Accounted(Blocks) /\ Room(Blocks)

=============================================================================
