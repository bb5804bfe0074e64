----------------------------- MODULE HeapProofs -----------------------------
(***************************************************************************)
(* Proofs about Heap, for any page size, size of the reserved range and    *)
(* requests: kheap_verify() never panics, blocks handed out are safe from  *)
(* each other and from the heap, and the loop of kmalloc() ends.           *)
(***************************************************************************)
EXTENDS Heap, TLAPS

LOCAL INSTANCE WellFoundedInduction

-----------------------------------------------------------------------------
(***************************************************************************)
(* The list of blocks.                                                     *)
(***************************************************************************)

\* A nonempty set of natural numbers has a least element.
LEMMA Least ==
  ASSUME NEW T, T \subseteq Nat, T # {}
  PROVE  \E n \in T : \A m \in T : n <= m
<1>1. PICK n \in T : \A m \in T : <<m, n>> \notin OpToRel(<, Nat)
  BY NatLessThanWellFounded, WFMin, Zenon
<1>2. \A m \in T : ~(m < n)
  BY <1>1, Zenon DEF OpToRel
<1> QED
  BY <1>2

\* Addresses are natural numbers, and so are those below an address.
LEMMA UnitsFacts ==
  /\ Units \subseteq Nat /\ 0 \in Units /\ NULL \notin Units
  /\ \A x \in Units, y \in Nat : y <= x => y \in Units
<1>1. ReservedPages * PageUnits \in Nat
  BY HeapAssumption
<1> QED
  BY <1>1 DEF Units, NULL

\* The last index of Nth is out of reach of blocks of four units and more.
LEMMA MaxBlocksFacts ==
  MaxBlocks \in Nat /\ \A x \in Units, i \in Nat : 4 * i <= x => i + 1 <= MaxBlocks
<1> DEFINE n == ReservedPages * PageUnits
<1>1. n \in Nat
  BY HeapAssumption
<1>2. MaxBlocks = n \div 4 + 1 /\ Units = 0..n
  BY DEF MaxBlocks, Header, Units
<1> HIDE DEF n
<1> QED
  BY <1>1, <1>2

\* The next block, past the end of the list included.
Follow(b) == IF b = NULL THEN NULL ELSE hdr[b].next

\* The recursive definition of Nth has a solution.
LEMMA NthDef ==
  Nth = [i \in 0..MaxBlocks |-> IF i = 0 THEN head ELSE Follow(Nth[i - 1])]
<1> DEFINE Eq(f, n) == f = [i \in 0..n |-> IF i = 0 THEN head ELSE Follow(f[i - 1])]
           T == {n \in Nat : ~ \E f : Eq(f, n)}
<1>1. T = {}
  <2>1. SUFFICES ASSUME T # {} PROVE FALSE
    OBVIOUS
  <2>2. PICK n \in T : \A m \in T : n <= m
    BY <2>1, Least, Zenon
  <2>3. n # 0
    <3>1. Eq([i \in 0..0 |-> head], 0)
      OBVIOUS
    <3> QED
      BY <3>1, Zenon
  <2>4. n - 1 \in Nat /\ n - 1 \notin T
    <3>1. n \in Nat
      OBVIOUS
    <3> HIDE DEF T
    <3> QED
      BY <2>2, <2>3, <3>1
  <2>5. PICK f : Eq(f, n - 1)
    BY <2>4
  <2> DEFINE g == [i \in 0..n |-> IF i = n THEN Follow(f[n - 1]) ELSE f[i]]
  <2>6. \A i \in 0..n - 1 : f[i] = IF i = 0 THEN head ELSE Follow(f[i - 1])
    BY <2>5
  <2>7. \A i \in 0..n : g[i] = IF i = 0 THEN head ELSE Follow(g[i - 1])
    BY <2>3, <2>6
  <2>8. Eq(g, n)
    BY <2>7
  <2> QED
    BY <2>2, <2>8, Zenon
<1>2. \E f : Eq(f, MaxBlocks)
  BY <1>1, MaxBlocksFacts, Zenon
<1> QED
  BY <1>2, Zenon DEF Nth, Follow

\* The list starts at head, each block is followed by its successor.
LEMMA NthFacts ==
  /\ DOMAIN Nth = 0..MaxBlocks /\ Nth[0] = head
  /\ \A i \in 0..MaxBlocks : i > 0 => Nth[i] = Follow(Nth[i - 1])
<1> DEFINE F == [i \in 0..MaxBlocks |-> IF i = 0 THEN head ELSE Follow(Nth[i - 1])]
<1>1. /\ DOMAIN F = 0..MaxBlocks /\ F[0] = head
      /\ \A i \in 0..MaxBlocks : i > 0 => F[i] = Follow(Nth[i - 1])
  BY MaxBlocksFacts
<1>2. Nth = F
  BY NthDef, Zenon
<1> HIDE DEF F
<1> QED
  BY <1>1, <1>2

\* The i-th block of a list is a block of it, i times four units or more from the start.
LEMMA NthInList ==
  ASSUME NEW S, IsHeap(hdr), IsList(hdr, head, heap_committed_end, S), head \in {0, NULL}
  PROVE  \A i \in 0..MaxBlocks : Nth[i] # NULL => Nth[i] \in S /\ Nth[i] >= 4 * i
<1> DEFINE T == {i \in 0..MaxBlocks : ~(Nth[i] # NULL => Nth[i] \in S /\ Nth[i] >= 4 * i)}
<1>1. SUFFICES ASSUME T # {} PROVE FALSE
  OBVIOUS
<1>2. T \subseteq Nat
  BY MaxBlocksFacts
<1>3. PICK i \in T : \A m \in T : i <= m
  BY <1>1, <1>2, Least, Zenon
<1>4. i # 0
  BY <1>3, NthFacts DEF IsList
<1>5. i - 1 \in 0..MaxBlocks /\ i - 1 \notin T /\ Nth[i] = Follow(Nth[i - 1])
  BY <1>3, <1>4, NthFacts, MaxBlocksFacts
<1> DEFINE b == Nth[i - 1]
<1>6. b # NULL => b \in S /\ b >= 4 * (i - 1)
  BY <1>5
<1>7. ASSUME b # NULL, hdr[b].next # NULL PROVE hdr[b].next \in S /\ hdr[b].next >= 4 * i
  <2>1. b \in S /\ b \in Units /\ hdr[b].size \in Units
    BY <1>6, <1>7 DEF IsList, IsHeap, Headers
  <2>2. hdr[b].next \in S /\ hdr[b].next = b + 3 + hdr[b].size /\ hdr[b].size >= 1
    BY <1>7, <2>1 DEF IsList, Header
  <2> QED
    <3>1. i \in Nat /\ b \in Nat /\ hdr[b].size \in Nat /\ b >= 4 * (i - 1)
      BY <1>2, <1>6, <1>7, <2>1, UnitsFacts, Zenon
    <3> HIDE DEF b
    <3> QED
      BY <2>2, <3>1
<1> QED
  BY <1>3, <1>5, <1>7 DEF Follow

\* A set that is linked like the list from head is the list.
LEMMA ListIsBlocks ==
  ASSUME NEW S, IsHeap(hdr), IsList(hdr, head, heap_committed_end, S), head \in {0, NULL}
  PROVE  Blocks = S
<1>1. Blocks \subseteq S
  BY NthInList, NthFacts DEF Blocks
<1>2. S \subseteq Blocks
  <2> DEFINE T == {b \in S : b \notin Blocks}
  <2>1. SUFFICES ASSUME T # {} PROVE FALSE
    OBVIOUS
  <2>2. S \subseteq Units /\ S \subseteq DOMAIN hdr
    BY DEF IsList, IsHeap
  <2>3. PICK b \in T : \A m \in T : b <= m
    BY <2>1, <2>2, Least, UnitsFacts, Zenon
  <2>4. b \in S /\ head # NULL
    BY <2>3 DEF IsList
  <2>5. b # head
    <3>1. Nth[0] = head /\ 0 \in DOMAIN Nth
      BY NthFacts, MaxBlocksFacts
    <3> QED
      BY <2>3, <2>4, <3>1 DEF Blocks
  <2> DEFINE c == hdr[b].prev
  <2>6. c \in S /\ hdr[c].next = b
    BY <2>4, <2>5 DEF IsList
  <2>7. b \in Units /\ c \in Units /\ hdr[c].size \in Units
    BY <2>2, <2>4, <2>6 DEF IsHeap, Headers
  <2>8. b = c + 3 + hdr[c].size
    BY <2>4, <2>6, <2>7, UnitsFacts DEF IsList, Header
  <2>9. c \in Blocks
    BY <2>3, <2>6, <2>7, <2>8, UnitsFacts
  <2>10. PICK i \in 0..MaxBlocks : c = Nth[i] /\ c # NULL
    BY <2>9, NthFacts DEF Blocks
  <2>11. c >= 4 * i
    BY <2>10, NthInList
  <2>12. i + 1 \in 0..MaxBlocks
    <3>1. i \in Nat
      BY <2>10, MaxBlocksFacts
    <3>2. i + 1 <= MaxBlocks
      BY <2>7, <2>11, <3>1, MaxBlocksFacts
    <3> QED
      BY <3>1, <3>2, MaxBlocksFacts
  <2>13. Nth[i + 1] = Follow(Nth[i])
    BY <2>10, <2>12, NthFacts, MaxBlocksFacts
  <2>14. Nth[i + 1] = b
    BY <2>6, <2>10, <2>13 DEF Follow
  <2> QED
    BY <2>3, <2>7, <2>12, <2>14, NthFacts, UnitsFacts DEF Blocks
<1> QED
  BY <1>1, <1>2

\* The search of kmalloc() finds a block if there is one.
LEMMA FitsIffRoom ==
  ASSUME IsHeap(hdr), IsList(hdr, head, heap_committed_end, Blocks), head \in {0, NULL},
         NEW n \in Nat
  PROVE  Fits(n) <=> \E b \in Blocks : ~hdr[b].used /\ hdr[b].size >= n
<1>1. Fits(n) => \E b \in Blocks : ~hdr[b].used /\ hdr[b].size >= n
  BY DEF Fits, FirstFit
<1>2. ASSUME NEW b \in Blocks, ~hdr[b].used, hdr[b].size >= n PROVE Fits(n)
  <2> DEFINE T == {i \in 0..MaxBlocks : Nth[i] # NULL /\ ~hdr[Nth[i]].used /\ hdr[Nth[i]].size >= n}
             U == {i \in 0..MaxBlocks : Nth[i] = NULL}
  <2>1. T \subseteq Nat /\ T # {}
    BY <1>2, NthFacts, MaxBlocksFacts DEF Blocks
  <2>2. PICK i \in T : \A m \in T : i <= m
    BY <2>1, Least, Zenon
  <2>3. \A j \in 0..i - 1 : Nth[j] # NULL
    <3>1. SUFFICES ASSUME NEW j \in 0..i - 1, Nth[j] = NULL PROVE FALSE
      OBVIOUS
    <3> DEFINE V == {k \in 0..MaxBlocks : k > j /\ Nth[k] # NULL}
    <3>2. i \in V /\ V \subseteq Nat
      BY <2>2, <3>1, MaxBlocksFacts
    <3>3. PICK k \in V : \A m \in V : k <= m
      BY <3>2, Least, Zenon
    <3>4. k - 1 \in 0..MaxBlocks /\ Nth[k] = Follow(Nth[k - 1])
      BY <3>3, <3>1, NthFacts, MaxBlocksFacts
    <3>5. Nth[k - 1] = NULL
      BY <3>1, <3>3, <3>4, MaxBlocksFacts
    <3> QED
      BY <3>3, <3>4, <3>5 DEF Follow
  <2>4. \A j \in 0..i - 1 : hdr[Nth[j]].used \/ hdr[Nth[j]].size < n
    <3>1. SUFFICES ASSUME NEW j \in 0..i - 1, ~hdr[Nth[j]].used PROVE hdr[Nth[j]].size < n
      OBVIOUS
    <3>2. j \in 0..MaxBlocks /\ j \notin T /\ Nth[j] # NULL
      BY <2>2, <2>3, MaxBlocksFacts
    <3>3. Nth[j] \in Blocks
      BY <3>2, NthFacts DEF Blocks
    <3>4. hdr[Nth[j]].size \in Nat
      BY <3>3, UnitsFacts, Zenon DEF IsHeap, IsList, Headers
    <3> QED
      BY <3>1, <3>2, <3>4
  <2>5. FirstFit(Nth[i], n) /\ Nth[i] \in Blocks
    BY <2>2, <2>4, NthFacts DEF FirstFit, Blocks
  <2> QED
    BY <2>5 DEF Fits
<1> QED
  BY <1>1, <1>2
-----------------------------------------------------------------------------
(***************************************************************************)
(* Coalescing.                                                             *)
(***************************************************************************)

\* The fields of a header, one by one.
LEMMA HeaderFacts ==
  ASSUME NEW h, IsHeap(h), NEW b \in DOMAIN h
  PROVE  /\ b \in Nat /\ h[b].size \in Nat /\ h[b].used \in BOOLEAN
         /\ h[b].next \in Units \cup {NULL} /\ h[b].prev \in Units \cup {NULL}
  BY UnitsFacts, Zenon DEF IsHeap, Headers

\* g is h but for the prev field of block a, which is p.
PrevSet(g, h, a, p) ==
  /\ IsHeap(g) /\ DOMAIN g = DOMAIN h
  /\ \A c \in DOMAIN h :
       /\ g[c].size = h[c].size /\ g[c].used = h[c].used /\ g[c].next = h[c].next
       /\ g[c].prev = IF c = a THEN p ELSE h[c].prev

\* "if (a) a->prev = p;" changes that field only.
LEMMA SetPrevFields ==
  ASSUME NEW h, IsHeap(h), NEW a \in DOMAIN h \cup {NULL}, NEW p \in Units,
         NEW g, g = SetPrev(h, a, p)
  PROVE  PrevSet(g, h, a, p)
<1>1. CASE a = NULL
  <2>1. \A c \in DOMAIN h : c # a
    BY <1>1, UnitsFacts DEF IsHeap
  <2> QED
    BY <1>1, <2>1 DEF SetPrev, PrevSet
<1>2. CASE a # NULL
  <2>1. g = [h EXCEPT ![a].prev = p] /\ a \in DOMAIN h
    BY <1>2 DEF SetPrev
  <2>2. DOMAIN g = DOMAIN h /\ g[a] = [h[a] EXCEPT !.prev = p] /\ \A c \in DOMAIN h \ {a} : g[c] = h[c]
    BY <2>1
  <2>3. h[a] \in Headers
    BY <2>1 DEF IsHeap
  <2>4. /\ g[a] \in Headers /\ g[a].size = h[a].size /\ g[a].used = h[a].used
        /\ g[a].next = h[a].next /\ g[a].prev = p
    BY <2>2, <2>3 DEF Headers
  <2> QED
    BY <2>1, <2>2, <2>4 DEF IsHeap, PrevSet
<1> QED
  BY <1>1, <1>2

\* The headers once block b is absorbed by a, before its successor is told.
Joined(h, a, b) ==
  [h EXCEPT ![a].size = @ + Header + h[b].size, ![a].next = h[b].next,
            ![b].size = 0, ![b].next = NULL, ![b].prev = NULL]

\* The successor is absorbed, and its own successor linked to the block.
LEMMA MergeFields ==
  ASSUME NEW h, IsHeap(h), NEW a \in DOMAIN h, NEW b \in DOMAIN h, h[a].next = b, a # b,
         h[b].next \in (DOMAIN h \ {a, b}) \cup {NULL},
         h[a].size + Header + h[b].size \in Units
  PROVE  /\ IsHeap(Merge(h, a)) /\ DOMAIN Merge(h, a) = DOMAIN h
         /\ \A c \in DOMAIN h :
              /\ Merge(h, a)[c].used = h[c].used
              /\ Merge(h, a)[c].size = IF c = a THEN h[a].size + Header + h[b].size
                                       ELSE IF c = b THEN 0 ELSE h[c].size
              /\ Merge(h, a)[c].next = IF c = a THEN h[b].next
                                       ELSE IF c = b THEN NULL ELSE h[c].next
              /\ Merge(h, a)[c].prev = IF c = h[b].next THEN a
                                       ELSE IF c = b THEN NULL ELSE h[c].prev
<1> DEFINE g == Joined(h, a, b)
           ra == [h[a] EXCEPT !.size = h[a].size + Header + h[b].size, !.next = h[b].next]
           rb == [h[b] EXCEPT !.size = 0, !.next = NULL, !.prev = NULL]
<1>1. Merge(h, a) = SetPrev(g, h[b].next, a)
  <2>1. Merge(h, a) = SetPrev(Joined(h, a, h[a].next), h[h[a].next].next, a)
    BY Zenon DEF Merge, Joined
  <2> QED
    BY <2>1
<1>2. DOMAIN g = DOMAIN h /\ \A c \in DOMAIN h \ {a, b} : g[c] = h[c]
  BY DEF Joined
<1>3. g[a] = ra /\ g[b] = rb
  BY Zenon DEF Joined
<1>4. h[a] \in Headers /\ h[b] \in Headers /\ a \in Units /\ DOMAIN h \subseteq Units
  BY DEF IsHeap
<1>5. /\ ra \in Headers /\ ra.used = h[a].used /\ ra.prev = h[a].prev
      /\ ra.size = h[a].size + Header + h[b].size /\ ra.next = h[b].next
  BY <1>4, Zenon DEF Headers
<1>6. /\ rb \in Headers /\ rb.used = h[b].used /\ rb.prev = NULL
      /\ rb.size = 0 /\ rb.next = NULL
  BY <1>4, UnitsFacts, Zenon DEF Headers
<1> HIDE DEF g, ra, rb
<1>7. IsHeap(g)
  BY <1>2, <1>3, <1>4, <1>5, <1>6 DEF IsHeap
<1>8. \A c \in DOMAIN h :
        /\ g[c].used = h[c].used
        /\ g[c].size = IF c = a THEN h[a].size + Header + h[b].size
                       ELSE IF c = b THEN 0 ELSE h[c].size
        /\ g[c].next = IF c = a THEN h[b].next ELSE IF c = b THEN NULL ELSE h[c].next
        /\ g[c].prev = IF c = b THEN NULL ELSE h[c].prev
  BY <1>2, <1>3, <1>5, <1>6
<1>9. h[b].next \in DOMAIN g \cup {NULL} /\ h[b].next # b
  BY <1>2, <1>4, UnitsFacts
<1> DEFINE x == h[b].next
           m == SetPrev(g, x, a)
<1>10. x \in DOMAIN g \cup {NULL} /\ a \in Units /\ m = Merge(h, a) /\ m = SetPrev(g, x, a)
  BY <1>1, <1>4, <1>9
<1> HIDE DEF x, m
<1>11. PrevSet(m, g, x, a)
  BY <1>7, <1>10, SetPrevFields
<1> QED
  BY <1>2, <1>8, <1>9, <1>10, <1>11 DEF x, PrevSet

\* The heap ends at an address.
LEMMA EndFacts == ASSUME TypeOK PROVE heap_committed_end \in Units
<1>1. PICK p \in 0..ReservedPages : heap_committed_end = p * PageUnits
  BY DEF TypeOK
<1>2. p * PageUnits \in Nat /\ p * PageUnits <= ReservedPages * PageUnits
  BY HeapAssumption
<1> QED
  BY <1>1, <1>2 DEF Units

\* Links lead to higher addresses, so neither one nor two of them lead back.
LEMMA NoLoop ==
  ASSUME NEW h, IsHeap(h), NEW hd, NEW end, NEW S, IsList(h, hd, end, S), NEW a \in S,
         h[a].next # NULL
  PROVE  h[a].next # a /\ h[h[a].next].next # a
<1>1. h[a].next \in S /\ h[a].next = a + 3 + h[a].size /\ S \subseteq DOMAIN h
  BY DEF IsList, Header
<1> DEFINE b == h[a].next
<1>2. a \in Nat /\ b \in Nat /\ h[a].size \in Nat /\ h[b].size \in Nat
  BY <1>1, HeaderFacts
<1>3. h[b].next = NULL \/ h[b].next = b + 3 + h[b].size
  BY <1>1 DEF IsList, Header
<1> QED
  BY <1>1, <1>2, <1>3 DEF NULL

\* m is the list S of h with block b merged into its predecessor a.
Merged(m, h, hd, end, S, a, b) ==
  /\ b \in S \ {a, hd} /\ IsHeap(m) /\ DOMAIN m = DOMAIN h
  /\ IsList(m, hd, end, S \ {b})
  /\ \A c \in DOMAIN h : m[c].used = h[c].used
  /\ m[a].prev = h[a].prev /\ m[a].next = h[b].next
  /\ \A c \in S \ {b} : m[c].size >= h[c].size
  /\ \A c \in S \ {a, b} : m[c].next = h[c].next

\* Merging a block with its successor takes the successor from the list.
LEMMA MergeList ==
  ASSUME NEW h, NEW hd \in {0, NULL}, NEW end \in Units, NEW S, NEW a \in S, NEW b, NEW m,
         IsHeap(h), IsList(h, hd, end, S), h[a].next = b, b # NULL, m = Merge(h, a)
  PROVE  Merged(m, h, hd, end, S, a, b)
<1> DEFINE x == h[b].next
<1>1. S \subseteq DOMAIN h /\ a \in DOMAIN h /\ S \subseteq Nat
  BY UnitsFacts, Zenon DEF IsList, IsHeap
<1>2. \A c \in S : /\ c \in Nat /\ h[c].size \in Nat /\ h[c].size >= 1
                   /\ h[c].next \in Nat \cup {NULL} /\ h[c].prev \in Nat \cup {NULL}
  BY <1>1, HeaderFacts, UnitsFacts DEF IsList
<1>3. b \in S /\ b = a + 3 + h[a].size /\ h[b].prev = a
  BY DEF IsList, Header
<1>4. a < b /\ a # b /\ a # NULL /\ b # hd /\ b \in DOMAIN h
  BY <1>1, <1>2, <1>3 DEF NULL
<1>5. x # NULL => x \in S /\ x = b + 3 + h[b].size /\ h[x].prev = b
  BY <1>3 DEF IsList, Header
<1>6. x \in (DOMAIN h \ {a, b}) \cup {NULL}
  BY <1>1, <1>2, <1>3, <1>4, <1>5
<1>7. h[a].size + Header + h[b].size \in Units
  <2>1. b + 3 + h[b].size <= end
    BY <1>3 DEF IsList, Header
  <2>2. h[a].size + 3 + h[b].size <= end
    BY <1>1, <1>2, <1>3, <2>1, UnitsFacts
  <2> QED
    BY <1>1, <1>2, <1>3, <2>2, UnitsFacts DEF Header
<1>8. /\ IsHeap(m) /\ DOMAIN m = DOMAIN h
      /\ \A c \in DOMAIN h :
           /\ m[c].used = h[c].used
           /\ m[c].size = IF c = a THEN h[a].size + 3 + h[b].size
                          ELSE IF c = b THEN 0 ELSE h[c].size
           /\ m[c].next = IF c = a THEN x ELSE IF c = b THEN NULL ELSE h[c].next
           /\ m[c].prev = IF c = x THEN a ELSE IF c = b THEN NULL ELSE h[c].prev
  BY <1>1, <1>4, <1>6, <1>7, MergeFields DEF Header
<1> HIDE DEF x
<1>9. \A c \in S \ {b} :
        /\ m[c].size = IF c = a THEN h[a].size + 3 + h[b].size ELSE h[c].size
        /\ m[c].next = IF c = a THEN x ELSE h[c].next
        /\ m[c].prev = IF c = x THEN a ELSE h[c].prev
  BY <1>1, <1>8
<1>10. IsList(m, hd, end, S \ {b})
  <2>1. S \ {b} \subseteq DOMAIN m
    BY <1>1, <1>8
  <2>2. hd # NULL /\ hd \in S \ {b}
    BY <1>3, <1>4 DEF IsList
  <2>3. SUFFICES ASSUME NEW c \in S \ {b}
                 PROVE  /\ m[c].size >= 1 /\ c + 3 + m[c].size <= end
                        /\ IF m[c].next = NULL
                           THEN c + 3 + m[c].size = end
                           ELSE /\ m[c].next \in S \ {b} /\ m[m[c].next].prev = c
                                /\ m[c].next = c + 3 + m[c].size
                        /\ IF m[c].prev = NULL THEN c = hd
                           ELSE m[c].prev \in S \ {b} /\ m[m[c].prev].next = c
                        /\ \A d \in S \ {b} : d > c => d >= c + 3 + m[c].size
    BY <2>1, <2>2 DEF IsList, Header
  <2>4. \A d \in S : /\ d + 3 + h[d].size <= end
                     /\ IF h[d].next = NULL THEN d + 3 + h[d].size = end
                        ELSE /\ h[d].next \in S /\ h[h[d].next].prev = d
                             /\ h[d].next = d + 3 + h[d].size
                     /\ IF h[d].prev = NULL THEN d = hd
                        ELSE h[d].prev \in S /\ h[h[d].prev].next = d
                     /\ \A e \in S : e > d => e >= d + 3 + h[d].size
    BY DEF IsList, Header
  <2>5. m[c].size >= 1 /\ c + 3 + m[c].size <= end
    BY <1>2, <1>3, <1>9, <2>3, <2>4, UnitsFacts
  <2>6. IF m[c].next = NULL THEN c + 3 + m[c].size = end
        ELSE /\ m[c].next \in S \ {b} /\ m[m[c].next].prev = c /\ m[c].next = c + 3 + m[c].size
    <3>1. CASE c = a
      <4>1. /\ m[a].next = x /\ m[a].size = h[a].size + 3 + h[b].size /\ b = a + 3 + h[a].size
        BY <1>3, <1>4, <1>5, <1>9, <2>3, <2>4, <3>1
      <4>2. CASE x = NULL
        BY <1>2, <1>3, <1>4, <2>4, <3>1, <4>1, <4>2 DEF x
      <4>3. CASE x # NULL
        <5>1. /\ x \in S /\ x # b /\ x = b + 3 + h[b].size
          BY <1>3, <1>4, <1>6, <2>4, <4>3 DEF x
        <5>2. m[x].prev = a
          BY <1>9, <5>1 DEF x
        <5>3. x = a + 3 + m[a].size
          BY <1>2, <1>3, <4>1, <5>1
        <5> QED
          BY <3>1, <4>1, <4>3, <5>1, <5>2, <5>3
      <4> QED
        BY <4>2, <4>3
    <3>2. CASE c # a
      <4>1. m[c].next = h[c].next /\ m[c].size = h[c].size
        BY <1>9, <3>2
      <4>2. h[c].next # NULL => h[c].next # b /\ h[c].next # x
        BY <1>3, <1>5, <2>3, <2>4, <3>2
      <4> QED
        BY <1>9, <2>3, <2>4, <4>1, <4>2
    <3> QED
      BY <3>1, <3>2
  <2>7. IF m[c].prev = NULL THEN c = hd ELSE m[c].prev \in S \ {b} /\ m[m[c].prev].next = c
    <3>1. CASE c = x
      <4>1. a \in S \ {b} /\ a # NULL
        BY <1>1, <1>4, UnitsFacts DEF IsHeap
      <4> QED
        BY <1>9, <3>1, <4>1
    <3>2. CASE c # x
      <4>1. m[c].prev = h[c].prev
        BY <1>9, <3>2
      <4>2. h[c].prev # NULL => h[c].prev # b
        BY <2>3, <2>4, <3>2 DEF x
      <4>3. h[c].prev # NULL => h[c].prev # a
        BY <2>3, <2>4
      <4> QED
        BY <1>9, <2>3, <2>4, <4>1, <4>2, <4>3
    <3> QED
      BY <3>1, <3>2
  <2>8. \A d \in S \ {b} : d > c => d >= c + 3 + m[c].size
    <3>1. SUFFICES ASSUME NEW d \in S \ {b}, d > c PROVE d >= c + 3 + m[c].size
      OBVIOUS
    <3>2. d >= c + 3 + h[c].size
      BY <2>3, <2>4, <3>1
    <3>3. CASE c = a
      BY <1>2, <1>3, <1>9, <2>3, <2>4, <3>1, <3>2, <3>3
    <3> QED
      BY <1>9, <3>2, <3>3
  <2> QED
    BY <2>5, <2>6, <2>7, <2>8
<1>11. a # x
  BY <1>2, <1>3, <1>4, <1>5, <1>6
<1>12. m[a].prev = h[a].prev /\ m[a].next = x
  BY <1>4, <1>9, <1>11
<1>13. \A c \in S \ {b} : m[c].size >= h[c].size
  BY <1>2, <1>3, <1>9
<1>14. \A c \in S \ {a, b} : m[c].next = h[c].next
  BY <1>9
<1>15. b \in S \ {a, hd}
  BY <1>3, <1>4
<1> QED
  BY <1>8, <1>10, <1>12, <1>13, <1>14, <1>15 DEF x, Merged
\* What makes a list of headers a list are its sizes and its links.
LEMMA ListFields ==
  ASSUME NEW h, NEW g, NEW hd, NEW end, NEW S, IsList(h, hd, end, S), S \subseteq DOMAIN g,
         \A c \in S : g[c].size = h[c].size /\ g[c].next = h[c].next /\ g[c].prev = h[c].prev
  PROVE  IsList(g, hd, end, S)
<1>1. \A b \in S :
       /\ h[b].size >= 1 /\ b + Header + h[b].size <= end
       /\ IF h[b].next = NULL
          THEN b + Header + h[b].size = end
          ELSE /\ h[b].next \in S /\ h[h[b].next].prev = b
               /\ h[b].next = b + Header + h[b].size
       /\ IF h[b].prev = NULL THEN b = hd ELSE h[b].prev \in S /\ h[h[b].prev].next = b
       /\ \A c \in S : c > b => c >= b + Header + h[b].size
  BY DEF IsList
<1>2. \A b \in S :
       /\ g[b].size >= 1 /\ b + Header + g[b].size <= end
       /\ IF g[b].next = NULL
          THEN b + Header + g[b].size = end
          ELSE /\ g[b].next \in S /\ g[g[b].next].prev = b
               /\ g[b].next = b + Header + g[b].size
       /\ IF g[b].prev = NULL THEN b = hd ELSE g[b].prev \in S /\ g[g[b].prev].next = b
       /\ \A c \in S : c > b => c >= b + Header + g[b].size
  BY <1>1
<1> QED
  BY <1>2 DEF IsList

\* Block b given back: marked free, merged with a free successor and then with a free
\* predecessor.  What is left is a list without free neighbours, and the headers of
\* the blocks that went are free.
LEMMA CoalescedFacts ==
  ASSUME IInv, NEW b \in DOMAIN live, NEW m, m = Coalesced(b)
  PROVE  \E S \in SUBSET Blocks :
           /\ IsHeap(m) /\ DOMAIN m = DOMAIN hdr
           /\ IsList(m, head, heap_committed_end, S) /\ Coalescing(m, S)
           /\ \A c \in DOMAIN hdr : m[c].used <=> hdr[c].used /\ c # b
           /\ \A c \in S : m[c].size >= hdr[c].size
           /\ \A c \in DOMAIN live \ {b} : c \in S
<1> DEFINE end == heap_committed_end
           h == [hdr EXCEPT ![b].used = FALSE]
           n == h[b].next
           f == IF n # NULL /\ ~h[n].used THEN Merge(h, b) ELSE h
           p == f[b].prev
<1>1. m = IF p # NULL /\ ~f[p].used THEN Merge(f, p) ELSE f
  BY DEF Coalesced
<1>2. /\ IsHeap(hdr) /\ IsList(hdr, head, end, Blocks) /\ Coalescing(hdr, Blocks)
      /\ b \in Blocks /\ b \in DOMAIN hdr /\ hdr[b].used /\ Blocks \subseteq DOMAIN hdr
      /\ head \in {0, NULL} /\ end \in Units
      /\ \A c \in DOMAIN live : c \in Blocks /\ c \in DOMAIN hdr /\ hdr[c].used
  <2>1. TypeOK /\ Accounted(Blocks) /\ IsList(hdr, head, end, Blocks) /\ Coalescing(hdr, Blocks)
    BY DEF IInv
  <2>2. \A c \in DOMAIN live : c \in Blocks /\ c \in DOMAIN hdr /\ hdr[c].used
    BY <2>1 DEF TypeOK, Accounted
  <2>3. end \in Units
    BY <2>1, EndFacts
  <2> QED
    BY <2>1, <2>2, <2>3 DEF TypeOK, IsList
<1>3. /\ DOMAIN h = DOMAIN hdr /\ IsHeap(h)
      /\ \A c \in DOMAIN hdr : /\ h[c].size = hdr[c].size /\ h[c].next = hdr[c].next
                               /\ h[c].prev = hdr[c].prev /\ (h[c].used <=> hdr[c].used /\ c # b)
  <2>1. hdr[b] \in Headers
    BY <1>2 DEF IsHeap
  <2> DEFINE r == [hdr[b] EXCEPT !.used = FALSE]
  <2>2. /\ r \in Headers /\ r.size = hdr[b].size /\ r.next = hdr[b].next /\ r.prev = hdr[b].prev
        /\ r.used = FALSE
    BY <2>1, Zenon DEF Headers
  <2>3. DOMAIN h = DOMAIN hdr /\ h[b] = r /\ \A c \in DOMAIN hdr \ {b} : h[c] = hdr[c]
    BY <1>2
  <2>4. \A c \in DOMAIN hdr : hdr[c].used \in BOOLEAN
    BY <1>2, HeaderFacts
  <2> HIDE DEF h, r
  <2> QED
    BY <1>2, <2>2, <2>3, <2>4 DEF IsHeap
<1> HIDE DEF h
<1>4. IsList(h, head, end, Blocks)
  BY <1>2, <1>3, ListFields
<1>5. \A c \in Blocks : hdr[c].used \in BOOLEAN /\ c # NULL
  BY <1>2, HeaderFacts, UnitsFacts DEF IsHeap
<1>6. PICK S \in SUBSET Blocks :
        /\ IsHeap(f) /\ DOMAIN f = DOMAIN hdr /\ IsList(f, head, end, S) /\ b \in S
        /\ \A c \in DOMAIN hdr : f[c].used <=> hdr[c].used /\ c # b
        /\ \A c \in S : f[c].size >= hdr[c].size
        /\ \A c \in DOMAIN live \ {b} : c \in S
        /\ f[b].next # NULL => f[f[b].next].used
        /\ \A c \in S \ {b} : ~f[c].used /\ f[c].next \notin {NULL, b} => f[f[c].next].used
  <2>1. CASE n # NULL /\ ~h[n].used
    <3>1. f = Merge(h, b)
      BY <2>1
    <3> HIDE DEF f
    <3>2. /\ n \in Blocks \ {b} /\ IsHeap(f) /\ DOMAIN f = DOMAIN h
          /\ IsList(f, head, end, Blocks \ {n})
          /\ \A c \in DOMAIN h : f[c].used = h[c].used
          /\ f[b].next = h[n].next
          /\ \A c \in Blocks \ {n} : f[c].size >= h[c].size
          /\ \A c \in Blocks \ {b, n} : f[c].next = h[c].next
      <4>1. Merged(f, h, head, end, Blocks, b, n)
        BY <1>2, <1>3, <1>4, <2>1, <3>1, MergeList
      <4> QED
        BY <4>1 DEF Merged
    <3>3. ~hdr[n].used
      BY <1>2, <1>3, <2>1, <3>2
    <3>4. hdr[n].next # NULL => hdr[n].next \in Blocks /\ hdr[n].next # b /\ hdr[hdr[n].next].used
      <4>1. hdr[n].next # NULL => hdr[n].next \in Blocks /\ hdr[hdr[n].next].used
                                  /\ hdr[hdr[n].next].prev = n
        BY <1>2, <3>2, <3>3 DEF Coalescing, IsList
      <4>2. IsHeap(h) /\ b \in Blocks /\ n \in DOMAIN hdr
        BY <1>2, <1>3, <3>2
      <4>3. h[n].next # b
        BY <1>4, <2>1, <4>2, NoLoop
      <4> QED
        BY <1>3, <4>1, <4>2, <4>3
    <3>5. f[b].next # NULL => f[f[b].next].used
      BY <1>2, <1>3, <3>2, <3>4
    <3>7. \A c \in Blocks \ {b, n} : ~f[c].used /\ f[c].next \notin {NULL, b} => f[f[c].next].used
      <4>1. SUFFICES ASSUME NEW c \in Blocks \ {b, n}, ~f[c].used, f[c].next \notin {NULL, b}
                     PROVE  f[f[c].next].used
        OBVIOUS
      <4>2. f[c].next = hdr[c].next /\ c \in DOMAIN hdr /\ ~hdr[c].used
        BY <1>2, <1>3, <3>2, <4>1
      <4>3. hdr[c].next \in Blocks /\ hdr[c].next \in DOMAIN hdr
        BY <1>2, <4>1, <4>2 DEF IsList
      <4>4. hdr[hdr[c].next].used
        BY <1>2, <4>1, <4>2 DEF Coalescing
      <4> QED
        BY <1>3, <3>2, <4>1, <4>2, <4>3, <4>4
    <3>8. \A c \in DOMAIN live \ {b} : c \in Blocks \ {n}
      BY <1>2, <3>3
    <3>9. /\ \A c \in DOMAIN hdr : f[c].used <=> hdr[c].used /\ c # b
          /\ \A c \in Blocks \ {n} : f[c].size >= hdr[c].size
      BY <1>2, <1>3, <3>2
    <3>10. b \in Blocks \ {n} /\ IsHeap(f) /\ DOMAIN f = DOMAIN hdr
           /\ IsList(f, head, end, Blocks \ {n})
      BY <1>2, <1>3, <3>2
    <3> QED
      BY <3>5, <3>7, <3>8, <3>9, <3>10
  <2>2. CASE ~(n # NULL /\ ~h[n].used)
    <3>1. f = h
      BY <2>2
    <3> HIDE DEF f
    <3>2. \A c \in Blocks \ {b} : ~h[c].used /\ h[c].next \notin {NULL, b} => h[h[c].next].used
      BY <1>2, <1>3 DEF Coalescing, IsList
    <3>3. \A c \in Blocks : h[c].size >= hdr[c].size
      BY <1>2, <1>3, HeaderFacts
    <3> QED
      BY <1>2, <1>3, <1>4, <2>2, <3>1, <3>2, <3>3
  <2> QED
    BY <2>1, <2>2, Zenon
<1> HIDE DEF f
<1>7. CASE p # NULL /\ ~f[p].used
  <2>1. m = Merge(f, p)
    BY <1>1, <1>7
  <2>2. p \in S /\ f[p].next = b
    BY <1>6, <1>7 DEF IsList
  <2>3. p # b /\ b # NULL
    BY <1>5, <1>6, <2>2, <1>2, NoLoop
  <2> HIDE DEF p
  <2>4. /\ IsHeap(m) /\ DOMAIN m = DOMAIN f
        /\ IsList(m, head, end, S \ {b})
        /\ \A c \in DOMAIN f : m[c].used = f[c].used
        /\ m[p].next = f[b].next
        /\ \A c \in S \ {b} : m[c].size >= f[c].size
        /\ \A c \in S \ {p, b} : m[c].next = f[c].next
    <3>1. Merged(m, f, head, end, S, p, b)
      BY <1>2, <1>6, <2>1, <2>2, <2>3, MergeList
    <3> QED
      BY <3>1 DEF Merged
  <2>5. \A c \in S \ {p, b} : f[c].next # b
    BY <1>6, <2>2, <2>3 DEF IsList, p
  <2>6. \A c \in S : f[c].next # NULL => f[c].next \in DOMAIN f
    BY <1>6 DEF IsList
  <2>7. Coalescing(m, S \ {b})
    <3>1. SUFFICES ASSUME NEW c \in S \ {b}, ~m[c].used, m[c].next # NULL
                   PROVE  m[m[c].next].used
      BY DEF Coalescing
    <3>2. c \in DOMAIN f /\ ~f[c].used
      BY <1>2, <1>6, <2>4, <3>1
    <3>3. CASE c = p
      BY <1>6, <2>4, <2>6, <3>1, <3>3
    <3>4. CASE c # p
      BY <1>6, <2>4, <2>5, <2>6, <3>1, <3>2, <3>4
    <3> QED
      BY <3>3, <3>4
  <2>8. \A c \in S \ {b} : m[c].size >= hdr[c].size
    <3>1. \A c \in S \ {b} : m[c].size \in Nat /\ f[c].size \in Nat /\ hdr[c].size \in Nat
      BY <1>2, <1>6, <2>4, HeaderFacts
    <3> QED
      BY <1>6, <2>4, <3>1
  <2>9. /\ S \ {b} \in SUBSET Blocks /\ \A c \in DOMAIN live \ {b} : c \in S \ {b}
        /\ \A c \in DOMAIN hdr : m[c].used <=> hdr[c].used /\ c # b
    BY <1>6, <2>4
  <2> QED
    BY <1>6, <2>4, <2>7, <2>8, <2>9
<1>8. CASE ~(p # NULL /\ ~f[p].used)
  <2>1. m = f
    BY <1>1, <1>8
  <2>2. \A c \in S : f[c].next = b => f[c].used
    BY <1>5, <1>6, <1>8 DEF IsList
  <2>3. Coalescing(f, S)
    BY <1>6, <2>2 DEF Coalescing
  <2> QED
    BY <1>2, <1>6, <2>1, <2>3
<1> QED
  BY <1>7, <1>8
-----------------------------------------------------------------------------
(***************************************************************************)
(* The invariant after a step.                                             *)
(***************************************************************************)

ListIsUnique ==
  \A S : /\ IsHeap(hdr) /\ head \in {0, NULL}
         /\ IsList(hdr, head, heap_committed_end, S)
         => Blocks = S

LEMMA UniqueList == ListIsUnique
  BY ListIsBlocks DEF ListIsUnique

\* The list that a step leaves behind is the one its readers will walk.
LEMMA ListAfter ==
  ASSUME NEW S, TypeOK', IsList(hdr', head', heap_committed_end', S),
         Coalescing(hdr', S), Accounted(S)', Room(S)'
  PROVE  IInv'
<1>1. ListIsUnique'
  BY UniqueList, PTL
<1>2. IsHeap(hdr') /\ head' \in {0, NULL}
  BY DEF TypeOK
<1>3. Blocks' = S
  BY <1>1, <1>2 DEF ListIsUnique
<1> QED
  BY <1>3 DEF IInv

\* kfree() keeps the invariant.
LEMMA KfreeStep == IInv /\ Kfree => IInv'
<1> SUFFICES ASSUME IInv, Kfree PROVE IInv'
  OBVIOUS
<1>1. UNCHANGED <<head, heap_committed_end, req>> /\ req = 0
  BY DEF Kfree
<1>2. PICK b \in DOMAIN live : /\ hdr' = Coalesced(b)
                               /\ live' = Restrict(live, DOMAIN live \ {b})
  BY DEF Kfree
<1>3. DOMAIN live' = DOMAIN live \ {b} /\ \A c \in DOMAIN live \ {b} : live'[c] = live[c]
  BY <1>2 DEF Restrict
<1>4. PICK S \in SUBSET Blocks :
           /\ IsHeap(hdr') /\ DOMAIN hdr' = DOMAIN hdr
           /\ IsList(hdr', head, heap_committed_end, S) /\ Coalescing(hdr', S)
           /\ \A c \in DOMAIN hdr : hdr'[c].used <=> hdr[c].used /\ c # b
           /\ \A c \in S : hdr'[c].size >= hdr[c].size
           /\ \A c \in DOMAIN live \ {b} : c \in S
  BY <1>2, CoalescedFacts
<1>5. TypeOK /\ Accounted(Blocks) /\ Blocks \subseteq DOMAIN hdr
  BY DEF IInv, IsList
<1>6. TypeOK'
  BY <1>1, <1>3, <1>4, <1>5 DEF TypeOK
<1>7. Accounted(S)'
  <2>1. \A c \in DOMAIN hdr : hdr'[c].used <=> c \in DOMAIN live'
    BY <1>3, <1>4, <1>5 DEF Accounted
  <2>2. \A c \in DOMAIN live' : c \in S /\ live'[c] \in Nat /\ live'[c] <= hdr'[c].size
    <3>1. SUFFICES ASSUME NEW c \in DOMAIN live \ {b}
                   PROVE  c \in S /\ live'[c] \in Nat /\ live'[c] <= hdr'[c].size
      BY <1>3
    <3>2. c \in S /\ c \in DOMAIN hdr /\ c \in DOMAIN hdr'
      BY <1>4, <1>5
    <3>3. hdr[c].size \in Nat /\ hdr'[c].size \in Nat /\ hdr'[c].size >= hdr[c].size
      BY <1>4, <1>5, <3>2, HeaderFacts DEF TypeOK
    <3>4. live[c] \in Nat /\ live[c] <= hdr[c].size
      BY <1>5 DEF Accounted
    <3> QED
      BY <1>3, <3>2, <3>3, <3>4
  <2> QED
    BY <1>4, <2>1, <2>2 DEF Accounted
<1>8. Room(S)'
  BY <1>1 DEF Room
<1> QED
  BY <1>1, <1>4, <1>6, <1>7, <1>8, ListAfter

-----------------------------------------------------------------------------
(***************************************************************************)
(* kmalloc()                                                               *)
(***************************************************************************)

\* The facts about the list that the steps of kmalloc() use.
LEMMA ListFacts ==
  ASSUME IInv
  PROVE  /\ IsHeap(hdr) /\ Blocks \subseteq DOMAIN hdr /\ Blocks \subseteq Nat
         /\ head \in {0, NULL} /\ heap_committed_end \in Units /\ heap_committed_end \in Nat
         /\ \A b \in Blocks : /\ hdr[b].size \in Nat /\ hdr[b].used \in BOOLEAN
                              /\ hdr[b].next \in Nat \cup {NULL} /\ hdr[b].prev \in Nat \cup {NULL}
                              /\ b # NULL /\ b \in Units
<1>1. IsHeap(hdr) /\ Blocks \subseteq DOMAIN hdr /\ head \in {0, NULL} /\ heap_committed_end \in Units
  BY EndFacts DEF IInv, TypeOK, IsList
<1>2. Blocks \subseteq Units
  BY <1>1 DEF IsHeap
<1> QED
  BY <1>1, <1>2, HeaderFacts, UnitsFacts, Zenon

\* The headers that Split writes.
LEMMA SplitFields ==
  ASSUME IInv, NEW b \in Blocks, NEW n \in Nat, hdr[b].size - n >= 4,
         NEW rest, rest = b + 3 + n, NEW m, m = Split(b, n)
  PROVE  /\ IsHeap(m) /\ DOMAIN m = DOMAIN hdr \cup {rest}
         /\ m[rest].size = hdr[b].size - n - 3 /\ ~m[rest].used
         /\ m[rest].next = hdr[b].next /\ m[rest].prev = b
         /\ \A c \in DOMAIN hdr \ {rest} :
              /\ m[c].size = IF c = b THEN n ELSE hdr[c].size
              /\ m[c].used <=> c = b \/ hdr[c].used
              /\ m[c].next = IF c = b THEN rest ELSE hdr[c].next
              /\ m[c].prev = IF c = hdr[b].next THEN rest ELSE hdr[c].prev
<1> DEFINE x == hdr[b].next
           new == [size |-> hdr[b].size - n - Header, used |-> FALSE, next |-> x, prev |-> b]
           h == SetPrev(hdr, x, rest)
           g == [h EXCEPT ![b].size = n, ![b].used = TRUE, ![b].next = rest]
           r == [h[b] EXCEPT !.size = n, !.used = TRUE, !.next = rest]
<1>1. /\ IsHeap(hdr) /\ Blocks \subseteq DOMAIN hdr /\ b \in Units /\ b \in DOMAIN hdr /\ b \in Nat
      /\ hdr[b].size \in Nat /\ heap_committed_end \in Units
  BY ListFacts
<1>2. b + 3 + hdr[b].size <= heap_committed_end
  BY DEF IInv, IsList, Header
<1>3. rest \in Units /\ n \in Units /\ hdr[b].size - n - 3 \in Units
  BY <1>1, <1>2, UnitsFacts
<1>4. x = NULL \/ (x \in Blocks /\ x = b + 3 + hdr[b].size)
  BY DEF IInv, IsList, Header
<1>5. x \in DOMAIN hdr \cup {NULL} /\ x # b /\ x \in Units \cup {NULL} /\ b # NULL
  BY <1>1, <1>4, HeaderFacts, UnitsFacts DEF NULL
<1>6. m = Put(g, rest, new)
  BY DEF Split, Header
<1>7. new \in Headers
  BY <1>1, <1>3, <1>5 DEF Headers, Header
<1>8. new.size = hdr[b].size - n - 3 /\ ~new.used /\ new.next = x /\ new.prev = b
  BY DEF Header
<1> HIDE DEF x, new
<1>9. /\ IsHeap(h) /\ DOMAIN h = DOMAIN hdr
      /\ \A c \in DOMAIN hdr :
           /\ h[c].size = hdr[c].size /\ h[c].used = hdr[c].used /\ h[c].next = hdr[c].next
           /\ h[c].prev = IF c = x THEN rest ELSE hdr[c].prev
  <2>1. PrevSet(h, hdr, x, rest)
    BY <1>1, <1>3, <1>5, SetPrevFields
  <2> QED
    BY <2>1 DEF PrevSet
<1> HIDE DEF h
<1>10. h[b] \in Headers
  BY <1>1, <1>9 DEF IsHeap
<1>11. r \in Headers /\ r.size = n /\ r.used /\ r.next = rest /\ r.prev = h[b].prev
  BY <1>3, <1>10, Zenon DEF Headers
<1>12. DOMAIN g = DOMAIN hdr /\ g[b] = r /\ \A c \in DOMAIN hdr \ {b} : g[c] = h[c]
  BY <1>1, <1>9
<1> HIDE DEF g, r
<1>13. /\ DOMAIN m = DOMAIN hdr \cup {rest} /\ m[rest] = new
       /\ \A c \in DOMAIN hdr \ {rest} : m[c] = g[c]
  BY <1>6, <1>12 DEF Put
<1>14. IsHeap(m)
  BY <1>3, <1>7, <1>9, <1>11, <1>12, <1>13 DEF IsHeap
<1>15. \A c \in DOMAIN hdr \ {rest} :
              /\ m[c].size = IF c = b THEN n ELSE hdr[c].size
              /\ m[c].used <=> c = b \/ hdr[c].used
              /\ m[c].next = IF c = b THEN rest ELSE hdr[c].next
              /\ m[c].prev = IF c = x THEN rest ELSE hdr[c].prev
  BY <1>5, <1>9, <1>11, <1>12, <1>13
<1> QED
  BY <1>8, <1>13, <1>14, <1>15 DEF x
\* m is the heap with block b handed out for n units, and S its list.
Handed(m, b, n, S) ==
  /\ IsHeap(m) /\ IsList(m, head, heap_committed_end, S) /\ Coalescing(m, S)
  /\ Blocks \subseteq S
  /\ \A c \in DOMAIN m : m[c].used <=> c = b \/ (c \in DOMAIN hdr /\ hdr[c].used)
  /\ m[b].size >= n /\ \A c \in Blocks \ {b} : m[c].size = hdr[c].size

\* The rest of a block that is cut becomes a free block between it and the next.
LEMMA SplitList ==
  ASSUME IInv, NEW b \in Blocks, NEW n \in Nat, n >= 1, hdr[b].size - n >= 4, ~hdr[b].used,
         NEW m, m = Split(b, n)
  PROVE  Handed(m, b, n, Blocks \cup {b + 3 + n})
<1> DEFINE rest == b + 3 + n
           end == heap_committed_end
           x == hdr[b].next
           S == Blocks \cup {rest}
<1>1. /\ IsHeap(hdr) /\ Blocks \subseteq DOMAIN hdr /\ head \in {0, NULL} /\ end \in Nat
      /\ \A c \in Blocks : /\ hdr[c].size \in Nat /\ hdr[c].used \in BOOLEAN /\ c \in Nat
                           /\ hdr[c].next \in Nat \cup {NULL} /\ hdr[c].prev \in Nat \cup {NULL}
                           /\ c # NULL
  BY ListFacts
<1>2. \A c \in Blocks :
        /\ hdr[c].size >= 1 /\ c + 3 + hdr[c].size <= end
        /\ IF hdr[c].next = NULL THEN c + 3 + hdr[c].size = end
           ELSE /\ hdr[c].next \in Blocks /\ hdr[hdr[c].next].prev = c
                /\ hdr[c].next = c + 3 + hdr[c].size
        /\ IF hdr[c].prev = NULL THEN c = head
           ELSE hdr[c].prev \in Blocks /\ hdr[hdr[c].prev].next = c
        /\ \A d \in Blocks : d > c => d >= c + 3 + hdr[c].size
  BY DEF IInv, IsList, Header
<1>3. head # NULL /\ head \in Blocks
  BY DEF IInv, IsList
<1>4. rest \in Nat /\ rest # NULL /\ rest > b /\ rest + 4 <= b + 3 + hdr[b].size
  BY <1>1 DEF NULL
<1>5. rest \notin Blocks
  BY <1>1, <1>2, <1>4
<1>6. x # NULL => x \in Blocks /\ x = b + 3 + hdr[b].size /\ hdr[x].prev = b /\ x # b
  BY <1>1, <1>2
<1>7. x # rest
  BY <1>4, <1>5, <1>6
<1>8. /\ IsHeap(m) /\ DOMAIN m = DOMAIN hdr \cup {rest}
      /\ m[rest].size = hdr[b].size - n - 3 /\ ~m[rest].used
      /\ m[rest].next = x /\ m[rest].prev = b
      /\ \A c \in DOMAIN hdr \ {rest} :
           /\ m[c].size = IF c = b THEN n ELSE hdr[c].size
           /\ m[c].used <=> c = b \/ hdr[c].used
           /\ m[c].next = IF c = b THEN rest ELSE hdr[c].next
           /\ m[c].prev = IF c = x THEN rest ELSE hdr[c].prev
  BY SplitFields
<1> HIDE DEF rest, x
<1>9. \A c \in Blocks :
        /\ m[c].size = IF c = b THEN n ELSE hdr[c].size
        /\ m[c].used <=> c = b \/ hdr[c].used
        /\ m[c].next = IF c = b THEN rest ELSE hdr[c].next
        /\ m[c].prev = IF c = x THEN rest ELSE hdr[c].prev
  BY <1>1, <1>5, <1>8
<1>10. IsList(m, head, end, S)
  <2>1. S \subseteq DOMAIN m
    BY <1>1, <1>8
  <2>2. SUFFICES ASSUME NEW c \in S
                 PROVE  /\ m[c].size >= 1 /\ c + 3 + m[c].size <= end
                        /\ IF m[c].next = NULL
                           THEN c + 3 + m[c].size = end
                           ELSE /\ m[c].next \in S /\ m[m[c].next].prev = c
                                /\ m[c].next = c + 3 + m[c].size
                        /\ IF m[c].prev = NULL THEN c = head
                           ELSE m[c].prev \in S /\ m[m[c].prev].next = c
                        /\ \A d \in S : d > c => d >= c + 3 + m[c].size
    BY <1>3, <2>1 DEF IsList, Header
  <2>3. CASE c = rest
    <3>1. m[c].size = hdr[b].size - n - 3 /\ m[c].next = x /\ m[c].prev = b
      BY <1>8, <2>3
    <3>2. m[c].size >= 1 /\ c + 3 + m[c].size = b + 3 + hdr[b].size
      BY <1>1, <2>3, <3>1 DEF rest
    <3>3. IF m[c].next = NULL THEN c + 3 + m[c].size = end
          ELSE /\ m[c].next \in S /\ m[m[c].next].prev = c /\ m[c].next = c + 3 + m[c].size
      BY <1>2, <1>6, <1>9, <2>3, <3>1, <3>2 DEF x
    <3>4. b # NULL /\ m[b].next = rest
      BY <1>1, <1>9
    <3>5. \A d \in S : d > c => d >= c + 3 + m[c].size
      BY <1>1, <1>2, <1>4, <2>3, <3>2
    <3> QED
      BY <1>2, <2>3, <3>1, <3>2, <3>3, <3>4, <3>5
  <2>4. CASE c = b
    <3>1. m[c].size = n /\ m[c].next = rest /\ m[c].prev = hdr[b].prev
      BY <1>6, <1>9, <2>4, <1>1
    <3>2. m[c].next \in S /\ m[m[c].next].prev = c /\ m[c].next = c + 3 + m[c].size
      BY <1>8, <2>4, <3>1 DEF rest
    <3>3. IF m[c].prev = NULL THEN c = head ELSE m[c].prev \in S /\ m[m[c].prev].next = c
      <4>1. hdr[b].prev # NULL => hdr[b].prev # b
        BY <1>1, <1>2
      <4> QED
        BY <1>2, <1>9, <2>4, <3>1, <4>1
    <3>4. \A d \in S : d > c => d >= c + 3 + m[c].size
      BY <1>1, <1>2, <2>4, <3>1 DEF rest
    <3>5. m[c].size >= 1 /\ c + 3 + m[c].size <= end
      BY <1>1, <1>2, <2>4, <3>1
    <3> QED
      BY <1>4, <3>1, <3>2, <3>3, <3>4, <3>5
  <2>5. CASE c \in Blocks \ {b}
    <3>1. m[c].size = hdr[c].size /\ m[c].next = hdr[c].next
      BY <1>9, <2>5
    <3>2. hdr[c].next # NULL => hdr[c].next # x
      BY <1>2, <1>6, <2>5
    <3>3. IF m[c].next = NULL THEN c + 3 + m[c].size = end
          ELSE /\ m[c].next \in S /\ m[m[c].next].prev = c /\ m[c].next = c + 3 + m[c].size
      BY <1>2, <1>9, <2>5, <3>1, <3>2
    <3>4. IF m[c].prev = NULL THEN c = head ELSE m[c].prev \in S /\ m[m[c].prev].next = c
      <4>1. CASE c = x
        BY <1>4, <1>8, <1>9, <2>5, <4>1
      <4>2. CASE c # x
        <5>1. m[c].prev = hdr[c].prev
          BY <1>9, <2>5, <4>2
        <5>2. hdr[c].prev # NULL => hdr[c].prev # b
          BY <1>2, <2>5, <4>2 DEF x
        <5> QED
          BY <1>2, <1>9, <2>5, <5>1, <5>2
      <4> QED
        BY <4>1, <4>2
    <3>5. \A d \in S : d > c => d >= c + 3 + m[c].size
      <4>1. SUFFICES ASSUME rest > c PROVE rest >= c + 3 + hdr[c].size
        BY <1>2, <2>5, <3>1
      <4>2. b > c
        BY <1>1, <1>2, <1>4, <2>5, <4>1
      <4>3. b >= c + 3 + hdr[c].size
        BY <1>2, <2>5, <4>2
      <4> QED
        BY <1>1, <1>4, <2>5, <4>3
    <3> QED
      BY <1>2, <2>5, <3>1, <3>3, <3>4, <3>5
  <2> QED
    BY <2>3, <2>4, <2>5
<1>11. Coalescing(m, S)
  <2>1. SUFFICES ASSUME NEW c \in S, ~m[c].used, m[c].next # NULL PROVE m[m[c].next].used
    BY DEF Coalescing
  <2>2. CASE c = rest
    <3>1. x # NULL /\ m[c].next = x
      BY <1>8, <2>1, <2>2
    <3>2. hdr[x].used
      BY <3>1 DEF x, IInv, Coalescing
    <3> QED
      BY <1>6, <1>9, <3>1, <3>2
  <2>3. CASE c \in Blocks
    <3>1. c # b /\ ~hdr[c].used /\ m[c].next = hdr[c].next
      BY <1>9, <2>1, <2>3
    <3>2. hdr[c].next \in Blocks
      BY <1>2, <2>1, <2>3, <3>1
    <3>3. hdr[hdr[c].next].used
      BY <2>1, <2>3, <3>1 DEF IInv, Coalescing
    <3> QED
      BY <1>9, <3>1, <3>2, <3>3
  <2> QED
    BY <2>2, <2>3
<1>12. \A c \in DOMAIN m : m[c].used <=> c = b \/ (c \in DOMAIN hdr /\ hdr[c].used)
  <2>1. rest \in DOMAIN hdr => ~hdr[rest].used
    BY <1>5 DEF IInv, Accounted
  <2> QED
    BY <1>4, <1>8, <2>1, <1>1
<1>13. m[b].size >= n /\ \A c \in Blocks \ {b} : m[c].size = hdr[c].size
  BY <1>9
<1> QED
  BY <1>8, <1>10, <1>11, <1>12, <1>13 DEF Handed, rest
\* A block that is handed out whole stays where it is.
LEMMA WholeList ==
  ASSUME IInv, NEW b \in Blocks, NEW n \in Nat, hdr[b].size >= n, ~hdr[b].used,
         NEW m, m = [hdr EXCEPT ![b].used = TRUE]
  PROVE  Handed(m, b, n, Blocks)
<1> DEFINE r == [hdr[b] EXCEPT !.used = TRUE]
<1>1. IsHeap(hdr) /\ Blocks \subseteq DOMAIN hdr /\ b \in DOMAIN hdr
  BY ListFacts
<1>2. hdr[b] \in Headers
  BY <1>1 DEF IsHeap
<1>3. /\ r \in Headers /\ r.size = hdr[b].size /\ r.next = hdr[b].next /\ r.prev = hdr[b].prev
      /\ r.used
  BY <1>2, Zenon DEF Headers
<1>4. DOMAIN m = DOMAIN hdr /\ m[b] = r /\ \A c \in DOMAIN hdr \ {b} : m[c] = hdr[c]
  BY <1>1
<1> HIDE DEF r
<1>5. IsHeap(m)
  BY <1>1, <1>3, <1>4, Zenon DEF IsHeap
<1>6. \A c \in DOMAIN hdr : /\ m[c].size = hdr[c].size /\ m[c].next = hdr[c].next
                            /\ m[c].prev = hdr[c].prev /\ (m[c].used <=> c = b \/ hdr[c].used)
  BY <1>3, <1>4
<1>7. IsList(hdr, head, heap_committed_end, Blocks) /\ Coalescing(hdr, Blocks)
  BY DEF IInv
<1>8. IsList(m, head, heap_committed_end, Blocks)
  BY <1>1, <1>4, <1>6, <1>7, ListFields, Zenon
<1>9. \A c \in Blocks : hdr[c].next # NULL => hdr[c].next \in DOMAIN hdr
  BY <1>1, <1>7 DEF IsList
<1>10. Coalescing(m, Blocks)
  BY <1>1, <1>6, <1>7, <1>9 DEF Coalescing
<1> QED
  BY <1>1, <1>4, <1>5, <1>6, <1>8, <1>10, Zenon DEF Handed

\* What the caller writes into its payload is no header of the list.
LEMMA PayloadWritten ==
  ASSUME IInv, NEW h, NEW b \in Blocks, NEW n \in Nat, NEW S, Handed(h, b, n, S),
         NEW written \in {{}, b + 1..b + Header + h[b].size - 1},
         NEW m, m = Restrict(h, DOMAIN h \ written)
  PROVE  Handed(m, b, n, S)
<1>1. /\ IsHeap(h) /\ IsList(h, head, heap_committed_end, S) /\ Coalescing(h, S)
      /\ Blocks \subseteq S /\ b \in S /\ S \subseteq DOMAIN h
      /\ \A c \in DOMAIN h : h[c].used <=> c = b \/ (c \in DOMAIN hdr /\ hdr[c].used)
      /\ h[b].size >= n /\ \A c \in Blocks \ {b} : h[c].size = hdr[c].size
  BY DEF Handed, IsList
<1>2. DOMAIN m = DOMAIN h \ written /\ \A c \in DOMAIN m : m[c] = h[c]
  BY DEF Restrict
<1>3. S \cap written = {}
  <2>1. SUFFICES ASSUME NEW c \in S, c \in b + 1..b + Header + h[b].size - 1 PROVE FALSE
    BY Zenon
  <2>2. b \in Nat /\ c \in Nat /\ h[b].size \in Nat
    BY <1>1, HeaderFacts
  <2>3. c > b => c >= b + Header + h[b].size
    BY <1>1 DEF IsList
  <2> QED
    BY <2>1, <2>2, <2>3 DEF Header
<1>4. S \subseteq DOMAIN m
  BY <1>1, <1>2, <1>3
<1>5. IsHeap(m)
  BY <1>1, <1>2, Zenon DEF IsHeap
<1>6. IsList(m, head, heap_committed_end, S)
  BY <1>1, <1>2, <1>4, ListFields, Zenon
<1>7. \A c \in S : h[c].next # NULL => h[c].next \in S
  BY <1>1 DEF IsList
<1>8. Coalescing(m, S)
  BY <1>1, <1>2, <1>4, <1>7, Zenon DEF Coalescing
<1>9. /\ \A c \in DOMAIN m : m[c].used <=> c = b \/ (c \in DOMAIN hdr /\ hdr[c].used)
      /\ m[b].size >= n /\ \A c \in Blocks \ {b} : m[c].size = hdr[c].size
  BY <1>1, <1>2, <1>4, Zenon
<1> QED
  BY <1>1, <1>5, <1>6, <1>8, <1>9, Zenon DEF Handed

\* A block is handed out.
LEMMA KmallocFitStep == ASSUME IInv, NEW n \in Requests, KmallocFit(n) PROVE IInv'
<1>1. n \in Nat /\ n >= 1
  BY HeapAssumption
<1>2. PICK b \in Blocks :
        /\ FirstFit(b, n)
        /\ \E w \in {{}, b + 1..b + Header + Allocated(b, n)[b].size - 1} :
             hdr' = Restrict(Allocated(b, n), DOMAIN Allocated(b, n) \ w)
        /\ live' = Put(live, b, n)
  BY Zenon DEF KmallocFit
<1>3. req' = 0 /\ UNCHANGED <<head, heap_committed_end>>
  BY DEF KmallocFit
<1>4. ~hdr[b].used /\ hdr[b].size >= n
  BY <1>2 DEF FirstFit
<1>5. hdr[b].size \in Nat /\ TypeOK /\ Accounted(Blocks) /\ Blocks \subseteq DOMAIN hdr
  BY ListFacts DEF IInv
<1> DEFINE a == Allocated(b, n)
<1>6. PICK S : Handed(a, b, n, S)
  <2>1. CASE hdr[b].size - n >= 4
    <3>1. a = Split(b, n)
      BY <2>1 DEF Allocated, WorthSplitting, Header
    <3> QED
      BY <1>1, <1>4, <2>1, <3>1, SplitList, Zenon
  <2>2. CASE ~(hdr[b].size - n >= 4)
    <3>1. a = [hdr EXCEPT ![b].used = TRUE]
      BY <2>2 DEF Allocated, WorthSplitting, Header
    <3> QED
      BY <1>1, <1>4, <3>1, WholeList, Zenon
  <2> QED
    BY <2>1, <2>2
<1> HIDE DEF a
<1>7. Handed(hdr', b, n, S)
  <2>1. PICK w \in {{}, b + 1..b + Header + a[b].size - 1} : hdr' = Restrict(a, DOMAIN a \ w)
    BY <1>2, Zenon DEF a
  <2> QED
    BY <1>1, <1>6, <2>1, PayloadWritten, Zenon
<1>8. /\ IsHeap(hdr') /\ IsList(hdr', head', heap_committed_end', S) /\ Coalescing(hdr', S)
      /\ Blocks \subseteq S /\ S \subseteq DOMAIN hdr'
      /\ \A c \in DOMAIN hdr' : hdr'[c].used <=> c = b \/ (c \in DOMAIN hdr /\ hdr[c].used)
      /\ hdr'[b].size >= n /\ \A c \in Blocks \ {b} : hdr'[c].size = hdr[c].size
  BY <1>3, <1>7 DEF Handed, IsList
<1>9. /\ DOMAIN live' = DOMAIN live \cup {b} /\ live'[b] = n
      /\ \A c \in DOMAIN live \ {b} : live'[c] = live[c]
  BY <1>2 DEF Put
<1>10. DOMAIN live \subseteq Blocks
  BY <1>5 DEF Accounted
<1>11. TypeOK'
  BY <1>3, <1>5, <1>8, <1>9, <1>10 DEF TypeOK
<1>12. Accounted(S)'
  <2>1. \A c \in DOMAIN hdr' : hdr'[c].used <=> c \in DOMAIN live'
    BY <1>5, <1>8, <1>9, <1>10 DEF Accounted
  <2>2. \A c \in DOMAIN live' : c \in S /\ live'[c] \in Nat /\ live'[c] <= hdr'[c].size
    <3>1. hdr'[b].size \in Nat
      BY <1>8, HeaderFacts
    <3> QED
      BY <1>1, <1>5, <1>8, <1>9, <1>10, <3>1 DEF Accounted
  <2> QED
    BY <2>1, <2>2 DEF Accounted
<1>13. Room(S)'
  BY <1>3 DEF Room
<1> QED
  BY <1>8, <1>11, <1>12, <1>13, ListAfter
\* The requested pages hold the block with its header.
LEMMA PagesForFacts ==
  ASSUME NEW n \in Requests
  PROVE  PagesFor(n) \in Nat \ {0} /\ PagesFor(n) * PageUnits >= n + 3
<1> DEFINE x == 3 + n + PageUnits - 1
           q == x \div PageUnits
<1>1. n \in Nat /\ n >= 1 /\ PageUnits \in Nat /\ PageUnits > 4
  BY HeapAssumption
<1>2. x \in Nat /\ x >= PageUnits
  BY <1>1
<1>3. PagesFor(n) = q
  BY DEF PagesFor, Header
<1>4. q \in Nat /\ x < PageUnits * q + PageUnits
  <2> HIDE DEF x
  <2> QED
    BY <1>1, <1>2
<1> HIDE DEF q
<1>5. q # 0
  BY <1>1, <1>2, <1>4
<1>6. q * PageUnits >= n + 3
  BY <1>1, <1>4
<1> QED
  BY <1>3, <1>4, <1>5, <1>6

\* m is the heap with K more units at its end, hd and S are its list, and a free
\* block of it holds them.
Extended(m, hd, K, S) ==
  /\ IsHeap(m) /\ IsList(m, hd, heap_committed_end + K, S) /\ Coalescing(m, S)
  /\ hd \in {0, NULL} /\ DOMAIN hdr \subseteq DOMAIN m
  /\ Blocks \subseteq S
  /\ \A c \in DOMAIN m : m[c].used <=> c \in DOMAIN hdr /\ hdr[c].used
  /\ \A c \in Blocks : m[c].size >= hdr[c].size
  /\ \E b \in S : ~m[b].used /\ m[b].size >= K - 3

\* Pages at the end of the heap go to a free tail.
LEMMA TailGrows ==
  ASSUME IInv, NEW tail \in Blocks, hdr[tail].next = NULL, ~hdr[tail].used,
         NEW K \in Nat, heap_committed_end + K \in Units,
         NEW m, m = [hdr EXCEPT ![tail].size = @ + K]
  PROVE  Extended(m, head, K, Blocks)
<1> DEFINE end == heap_committed_end
           r == [hdr[tail] EXCEPT !.size = hdr[tail].size + K]
<1>1. /\ IsHeap(hdr) /\ Blocks \subseteq DOMAIN hdr /\ tail \in DOMAIN hdr /\ head \in {0, NULL}
      /\ end \in Nat
      /\ \A c \in Blocks : hdr[c].size \in Nat /\ c \in Nat
  BY ListFacts
<1>2. \A c \in Blocks :
        /\ hdr[c].size >= 1 /\ c + 3 + hdr[c].size <= end
        /\ IF hdr[c].next = NULL THEN c + 3 + hdr[c].size = end
           ELSE /\ hdr[c].next \in Blocks /\ hdr[hdr[c].next].prev = c
                /\ hdr[c].next = c + 3 + hdr[c].size
        /\ IF hdr[c].prev = NULL THEN c = head
           ELSE hdr[c].prev \in Blocks /\ hdr[hdr[c].prev].next = c
        /\ \A d \in Blocks : d > c => d >= c + 3 + hdr[c].size
  BY DEF IInv, IsList, Header
<1>3. head # NULL /\ head \in Blocks
  BY DEF IInv, IsList
<1>4. hdr[tail] \in Headers
  BY <1>1 DEF IsHeap
<1>5. hdr[tail].size + K \in Units
  BY <1>1, <1>2, UnitsFacts
<1>6. /\ r \in Headers /\ r.size = hdr[tail].size + K /\ r.next = hdr[tail].next
      /\ r.prev = hdr[tail].prev /\ r.used = hdr[tail].used
  BY <1>4, <1>5 DEF Headers
<1>7. DOMAIN m = DOMAIN hdr /\ m[tail] = r /\ \A c \in DOMAIN hdr \ {tail} : m[c] = hdr[c]
  BY <1>1
<1> HIDE DEF r
<1>8. IsHeap(m)
  BY <1>1, <1>6, <1>7 DEF IsHeap
<1>9. \A c \in DOMAIN hdr : /\ m[c].size = IF c = tail THEN hdr[tail].size + K ELSE hdr[c].size
                            /\ m[c].next = hdr[c].next /\ m[c].prev = hdr[c].prev
                            /\ m[c].used = hdr[c].used
  BY <1>6, <1>7
<1>10. \A c \in Blocks : c <= tail /\ (c # tail => hdr[c].next # NULL)
  BY <1>1, <1>2
<1>11. IsList(m, head, end + K, Blocks)
  <2>1. SUFFICES ASSUME NEW c \in Blocks
                 PROVE  /\ m[c].size >= 1 /\ c + 3 + m[c].size <= end + K
                        /\ IF m[c].next = NULL
                           THEN c + 3 + m[c].size = end + K
                           ELSE /\ m[c].next \in Blocks /\ m[m[c].next].prev = c
                                /\ m[c].next = c + 3 + m[c].size
                        /\ IF m[c].prev = NULL THEN c = head
                           ELSE m[c].prev \in Blocks /\ m[m[c].prev].next = c
                        /\ \A d \in Blocks : d > c => d >= c + 3 + m[c].size
    BY <1>1, <1>3, <1>7 DEF IsList, Header
  <2>2. m[c].size >= 1 /\ c + 3 + m[c].size <= end + K
    BY <1>1, <1>2, <1>9
  <2>3. IF m[c].next = NULL THEN c + 3 + m[c].size = end + K
        ELSE /\ m[c].next \in Blocks /\ m[m[c].next].prev = c /\ m[c].next = c + 3 + m[c].size
    BY <1>1, <1>2, <1>9, <1>10
  <2>4. IF m[c].prev = NULL THEN c = head ELSE m[c].prev \in Blocks /\ m[m[c].prev].next = c
    BY <1>1, <1>2, <1>9
  <2>5. \A d \in Blocks : d > c => d >= c + 3 + m[c].size
    BY <1>1, <1>2, <1>9, <1>10
  <2> QED
    BY <2>2, <2>3, <2>4, <2>5
<1>12. Coalescing(m, Blocks)
  <2>1. \A c \in Blocks : hdr[c].next # NULL => hdr[c].next \in DOMAIN hdr
    BY <1>1, <1>2
  <2> QED
    BY <1>1, <1>9, <2>1 DEF IInv, Coalescing
<1>13. \A c \in Blocks : m[c].size >= hdr[c].size
  BY <1>1, <1>9
<1>14. ~m[tail].used /\ m[tail].size >= K - 3
  <2>1. m[tail].size = hdr[tail].size + K /\ hdr[tail].size \in Nat
    BY <1>1, <1>9, Zenon
  <2>2. ~m[tail].used
    BY <1>1, <1>9, Zenon
  <2> QED
    BY <2>1, <2>2
<1>15. \A c \in DOMAIN m : m[c].used <=> c \in DOMAIN hdr /\ hdr[c].used
  BY <1>7, <1>9
<1> QED
  BY <1>1, <1>7, <1>8, <1>11, <1>12, <1>13, <1>14, <1>15 DEF Extended
\* m is the heap with a free block of K units, header included, behind tail.
Appended(m, tail, K) ==
  /\ IsHeap(m) /\ DOMAIN m = DOMAIN hdr \cup {heap_committed_end}
  /\ m[heap_committed_end].size = K - 3 /\ ~m[heap_committed_end].used
  /\ m[heap_committed_end].next = NULL /\ m[heap_committed_end].prev = tail
  /\ \A c \in DOMAIN hdr \ {heap_committed_end} :
       /\ m[c].size = hdr[c].size /\ m[c].prev = hdr[c].prev /\ m[c].used = hdr[c].used
       /\ m[c].next = IF c = tail THEN heap_committed_end ELSE hdr[c].next

\* The heap that Extend writes in this case.
WithNewBlock(tail, K) ==
  LET new == [size |-> K - 3, used |-> FALSE, next |-> NULL, prev |-> tail]
      linked == IF tail = NULL THEN hdr
                ELSE [hdr EXCEPT ![tail].next = heap_committed_end]
  IN  Put(linked, heap_committed_end, new)

\* The headers written for a new block at the end of the heap.
LEMMA AppendFields ==
  ASSUME IInv, NEW tail \in Blocks \cup {NULL},
         NEW K \in Nat, K > 4, heap_committed_end + K \in Units,
         NEW m, m = WithNewBlock(tail, K)
  PROVE  Appended(m, tail, K)
<1> DEFINE end == heap_committed_end
           r == [hdr[tail] EXCEPT !.next = end]
           new == [size |-> K - 3, used |-> FALSE, next |-> NULL, prev |-> tail]
           linked == IF tail = NULL THEN hdr ELSE [hdr EXCEPT ![tail].next = end]
<1>1. /\ IsHeap(hdr) /\ Blocks \subseteq DOMAIN hdr /\ head \in {0, NULL} /\ end \in Nat
      /\ end \in Units
      /\ \A c \in Blocks : hdr[c].size \in Nat /\ c \in Nat /\ c # NULL /\ c \in Units
  BY ListFacts
<1>2. new \in Headers /\ new.size = K - 3 /\ ~new.used /\ new.next = NULL /\ new.prev = tail
  <2>1. K - 3 \in Units
    BY <1>1, UnitsFacts
  <2> QED
    BY <1>1, <2>1 DEF Headers
<1>3. /\ DOMAIN linked = DOMAIN hdr /\ IsHeap(linked)
      /\ \A c \in DOMAIN hdr : /\ linked[c].size = hdr[c].size /\ linked[c].prev = hdr[c].prev
                               /\ linked[c].used = hdr[c].used
                               /\ linked[c].next = IF c = tail THEN end ELSE hdr[c].next
  <2>1. CASE tail = NULL
    <3>1. \A c \in DOMAIN hdr : c # tail
      BY <1>1, <2>1, UnitsFacts DEF IsHeap
    <3> QED
      BY <1>1, <2>1, <3>1
  <2>2. CASE tail # NULL
    <3>1. tail \in DOMAIN hdr /\ hdr[tail] \in Headers
      BY <1>1, <2>2 DEF IsHeap
    <3>2. /\ r \in Headers /\ r.size = hdr[tail].size /\ r.next = end
          /\ r.prev = hdr[tail].prev /\ r.used = hdr[tail].used
      BY <1>1, <3>1 DEF Headers
    <3>3. DOMAIN linked = DOMAIN hdr /\ linked[tail] = r /\ \A c \in DOMAIN hdr \ {tail} : linked[c] = hdr[c]
      BY <2>2, <3>1
    <3> HIDE DEF r, linked
    <3> QED
      BY <1>1, <3>1, <3>2, <3>3 DEF IsHeap
  <2> QED
    BY <2>1, <2>2
<1> HIDE DEF linked, new
<1>4. /\ DOMAIN m = DOMAIN hdr \cup {end} /\ m[end] = new
      /\ \A c \in DOMAIN hdr \ {end} : m[c] = linked[c]
  <2>1. m = Put(linked, end, new)
    BY DEF WithNewBlock, linked, new
  <2> QED
    BY <1>3, <2>1 DEF Put
<1>5. IsHeap(m)
  BY <1>1, <1>2, <1>3, <1>4 DEF IsHeap
<1> QED
  BY <1>2, <1>3, <1>4, <1>5 DEF Appended

\* Pages at the end of the heap become a block behind a used tail, or the first one.
LEMMA BlockAppended ==
  ASSUME IInv, NEW tail \in Blocks \cup {NULL},
         IF tail = NULL THEN head = NULL ELSE hdr[tail].next = NULL /\ hdr[tail].used,
         NEW K \in Nat, K > 4, NEW m, Appended(m, tail, K),
         NEW hd, hd = IF tail = NULL THEN heap_committed_end ELSE head
  PROVE  Extended(m, hd, K, Blocks \cup {heap_committed_end})
<1> DEFINE end == heap_committed_end
           S == Blocks \cup {end}
<1>1. /\ IsHeap(hdr) /\ Blocks \subseteq DOMAIN hdr /\ head \in {0, NULL} /\ end \in Nat
      /\ end \in Units
      /\ \A c \in Blocks : hdr[c].size \in Nat /\ c \in Nat /\ c # NULL /\ c \in Units
  BY ListFacts
<1>2. \A c \in Blocks :
        /\ hdr[c].size >= 1 /\ c + 3 + hdr[c].size <= end
        /\ IF hdr[c].next = NULL THEN c + 3 + hdr[c].size = end
           ELSE /\ hdr[c].next \in Blocks /\ hdr[hdr[c].next].prev = c
                /\ hdr[c].next = c + 3 + hdr[c].size
        /\ IF hdr[c].prev = NULL THEN c = head
           ELSE hdr[c].prev \in Blocks /\ hdr[hdr[c].prev].next = c
        /\ \A d \in Blocks : d > c => d >= c + 3 + hdr[c].size
  BY DEF IInv, IsList, Header
<1>3. IF head = NULL THEN Blocks = {} /\ end = 0 ELSE head \in Blocks
  BY DEF IInv, IsList
<1>4. end \notin Blocks /\ end # NULL
  BY <1>1, <1>2 DEF NULL
<1>5. /\ IsHeap(m) /\ DOMAIN m = DOMAIN hdr \cup {end}
      /\ m[end].size = K - 3 /\ ~m[end].used /\ m[end].next = NULL /\ m[end].prev = tail
      /\ \A c \in DOMAIN hdr \ {end} :
           /\ m[c].size = hdr[c].size /\ m[c].prev = hdr[c].prev /\ m[c].used = hdr[c].used
           /\ m[c].next = IF c = tail THEN end ELSE hdr[c].next
  BY DEF Appended
<1>6. \A c \in Blocks : /\ m[c].size = hdr[c].size /\ m[c].prev = hdr[c].prev
                        /\ m[c].used = hdr[c].used
                        /\ m[c].next = IF c = tail THEN end ELSE hdr[c].next
  BY <1>1, <1>4, <1>5
<1>7. hd \in {0, NULL} /\ hd # NULL /\ hd \in S
  BY <1>1, <1>3, <1>4
<1>8. \A c \in Blocks : c # tail => hdr[c].next # NULL
  BY <1>1, <1>2, <1>3
<1>9. IsList(m, hd, end + K, S)
  <2>1. SUFFICES ASSUME NEW c \in S
                 PROVE  /\ m[c].size >= 1 /\ c + 3 + m[c].size <= end + K
                        /\ IF m[c].next = NULL
                           THEN c + 3 + m[c].size = end + K
                           ELSE /\ m[c].next \in S /\ m[m[c].next].prev = c
                                /\ m[c].next = c + 3 + m[c].size
                        /\ IF m[c].prev = NULL THEN c = hd
                           ELSE m[c].prev \in S /\ m[m[c].prev].next = c
                        /\ \A d \in S : d > c => d >= c + 3 + m[c].size
    BY <1>1, <1>5, <1>7 DEF IsList, Header
  <2>2. CASE c = end
    <3>1. m[c].size = K - 3 /\ m[c].next = NULL /\ m[c].prev = tail
      BY <1>5, <2>2
    <3>2. m[c].size >= 1 /\ c + 3 + m[c].size = end + K /\ c + 3 + m[c].size <= end + K
      BY <1>1, <2>2, <3>1
    <3>3. IF m[c].prev = NULL THEN c = hd ELSE m[c].prev \in S /\ m[m[c].prev].next = c
      BY <1>6, <2>2, <3>1
    <3>4. \A d \in S : d <= c
      BY <1>1, <1>2, <2>2
    <3> QED
      BY <1>1, <2>2, <3>1, <3>2, <3>3, <3>4
  <2>3. CASE c \in Blocks
    <3>1. m[c].size = hdr[c].size /\ m[c].prev = hdr[c].prev
      BY <1>6, <2>3
    <3>2. m[c].size >= 1 /\ c + 3 + m[c].size <= end + K
      BY <1>1, <1>2, <2>3, <3>1
    <3>3. m[c].next # NULL /\ m[c].next \in S /\ m[m[c].next].prev = c /\ m[c].next = c + 3 + m[c].size
      <4>1. CASE c = tail
        BY <1>2, <1>4, <1>5, <1>6, <2>3, <3>1, <4>1
      <4>2. CASE c # tail
        BY <1>2, <1>6, <1>8, <2>3, <3>1, <4>2
      <4> QED
        BY <4>1, <4>2
    <3>4. IF m[c].prev = NULL THEN c = hd ELSE m[c].prev \in S /\ m[m[c].prev].next = c
      <4>1. head # NULL /\ hd = head
        BY <1>3, <2>3
      <4>2. hdr[c].prev # NULL => hdr[c].prev # tail
        BY <1>1, <1>2, <2>3
      <4> QED
        BY <1>2, <1>6, <2>3, <3>1, <4>1, <4>2
    <3>5. \A d \in S : d > c => d >= c + 3 + m[c].size
      BY <1>2, <2>3, <3>1
    <3> QED
      BY <3>2, <3>3, <3>4, <3>5
  <2> QED
    BY <2>2, <2>3
<1>10. Coalescing(m, S)
  <2>1. SUFFICES ASSUME NEW c \in S, ~m[c].used, m[c].next # NULL PROVE m[m[c].next].used
    BY DEF Coalescing
  <2>2. c \in Blocks /\ ~hdr[c].used /\ c # tail
    <3>1. c \in Blocks
      BY <1>5, <2>1
    <3>2. ~hdr[c].used /\ c # NULL
      BY <1>1, <1>6, <2>1, <3>1
    <3> QED
      BY <3>1, <3>2
  <2>3. m[c].next = hdr[c].next /\ hdr[c].next \in Blocks
    BY <1>2, <1>6, <1>8, <2>2
  <2>4. hdr[hdr[c].next].used
    BY <1>8, <2>2 DEF IInv, Coalescing
  <2> QED
    BY <1>6, <2>3, <2>4
<1>11. \A c \in DOMAIN m : m[c].used <=> c \in DOMAIN hdr /\ hdr[c].used
  <2>1. end \in DOMAIN hdr => ~hdr[end].used
    BY <1>4 DEF IInv, Accounted
  <2> QED
    BY <1>5, <2>1
<1>12. \A c \in Blocks : m[c].size >= hdr[c].size
  BY <1>1, <1>6
<1>13. ~m[end].used /\ m[end].size >= K - 3
  BY <1>5
<1> QED
  BY <1>5, <1>7, <1>9, <1>10, <1>11, <1>12, <1>13 DEF Extended
\* The heap grows by k pages.
LEMMA ExtendFacts ==
  ASSUME IInv, NEW tail \in Blocks \cup {NULL}, IsTail(tail), NEW k \in Nat \ {0},
         heap_committed_end + k * PageUnits <= ReservedPages * PageUnits, Extend(tail, k)
  PROVE  /\ \E S : Extended(hdr', head', k * PageUnits, S)
         /\ heap_committed_end' = heap_committed_end + k * PageUnits
         /\ heap_committed_end' \in {p * PageUnits : p \in 0..ReservedPages}
<1> DEFINE K == k * PageUnits
<1>1. /\ K \in Nat /\ K > 4
  BY HeapAssumption
<1>2. heap_committed_end \in Nat
  BY ListFacts
<1>3. heap_committed_end + K \in Units
  <2>1. ReservedPages * PageUnits \in Nat
    BY HeapAssumption
  <2> HIDE DEF K
  <2> QED
    BY <1>1, <1>2, <2>1 DEF Units, K
<1>4. heap_committed_end' \in {p * PageUnits : p \in 0..ReservedPages}
  <2>1. PICK p \in 0..ReservedPages : heap_committed_end = p * PageUnits
    BY DEF IInv, TypeOK
  <2>2. heap_committed_end' = (p + k) * PageUnits
    BY <2>1, HeapAssumption DEF Extend
  <2>3. (p + k) * PageUnits <= ReservedPages * PageUnits
    BY <2>1, HeapAssumption
  <2>4. p + k <= ReservedPages
    <3>1. SUFFICES ASSUME p + k >= ReservedPages + 1 PROVE FALSE
      BY HeapAssumption
    <3>2. (p + k) * PageUnits >= (ReservedPages + 1) * PageUnits
      BY <3>1, HeapAssumption
    <3>3. (ReservedPages + 1) * PageUnits = ReservedPages * PageUnits + PageUnits
      BY HeapAssumption
    <3>4. (p + k) * PageUnits \in Int /\ ReservedPages * PageUnits \in Int
      BY HeapAssumption
    <3> QED
      BY <2>3, <3>2, <3>3, <3>4, HeapAssumption
  <2> QED
    <3>1. p + k \in 0..ReservedPages
      BY <2>4, HeapAssumption
    <3> QED
      BY <2>2, <3>1
<1> HIDE DEF K
<1>5. IF tail = NULL THEN head = NULL ELSE tail \in Blocks /\ hdr[tail].next = NULL
  <2>1. \A b \in Blocks : b # NULL
    BY ListFacts
  <2> QED
    BY <2>1 DEF IsTail
<1>6. CASE tail # NULL /\ ~hdr[tail].used
  <2>1. hdr' = [hdr EXCEPT ![tail].size = @ + K] /\ head' = head
    BY <1>6 DEF Extend, K
  <2>2. Extended(hdr', head, K, Blocks)
    BY <1>1, <1>3, <1>5, <1>6, <2>1, TailGrows, Zenon
  <2> QED
    BY <1>4, <2>1, <2>2 DEF Extend, K
<1>7. CASE ~(tail # NULL /\ ~hdr[tail].used)
  <2>1. /\ hdr' = WithNewBlock(tail, K)
        /\ head' = IF tail = NULL THEN heap_committed_end ELSE head
    BY <1>7 DEF Extend, WithNewBlock, Header, K
  <2>2. Appended(hdr', tail, K)
    BY <1>1, <1>3, <2>1, AppendFields
  <2>3. Extended(hdr', head', K, Blocks \cup {heap_committed_end})
    BY <1>1, <1>5, <1>7, <2>1, <2>2, BlockAppended
  <2> QED
    BY <1>4, <2>3 DEF Extend, K
<1> QED
  BY <1>6, <1>7

\* The larger heap, whether or not it grew by all that was asked for.
LEMMA GrowStep ==
  ASSUME IInv, NEW K \in Nat, NEW S, Extended(hdr', head', K, S),
         heap_committed_end' = heap_committed_end + K,
         heap_committed_end' \in {p * PageUnits : p \in 0..ReservedPages},
         UNCHANGED live, req' \in Requests \cup {0}, req' # 0 => K - 3 >= req'
  PROVE  IInv'
<1>1. /\ IsHeap(hdr') /\ IsList(hdr', head', heap_committed_end', S) /\ Coalescing(hdr', S)
      /\ head' \in {0, NULL} /\ DOMAIN hdr \subseteq DOMAIN hdr'
      /\ Blocks \subseteq S
      /\ \A c \in DOMAIN hdr' : hdr'[c].used <=> c \in DOMAIN hdr /\ hdr[c].used
      /\ \A c \in Blocks : hdr'[c].size >= hdr[c].size
      /\ \E b \in S : ~hdr'[b].used /\ hdr'[b].size >= K - 3
  BY DEF Extended
<1>2. TypeOK /\ Accounted(Blocks) /\ Blocks \subseteq DOMAIN hdr
  BY ListFacts DEF IInv
<1>3. TypeOK'
  BY <1>1, <1>2 DEF TypeOK
<1>4. Accounted(S)'
  <2>1. \A c \in DOMAIN hdr' : hdr'[c].used <=> c \in DOMAIN live'
    BY <1>1, <1>2 DEF Accounted, TypeOK
  <2>2. \A c \in DOMAIN live' : c \in S /\ live'[c] \in Nat /\ live'[c] <= hdr'[c].size
    <3>1. SUFFICES ASSUME NEW c \in DOMAIN live
                   PROVE  c \in S /\ live[c] \in Nat /\ live[c] <= hdr'[c].size
      OBVIOUS
    <3>2. c \in Blocks /\ live[c] \in Nat /\ live[c] <= hdr[c].size
      BY <1>2 DEF Accounted
    <3>3. hdr[c].size \in Nat /\ hdr'[c].size \in Nat /\ hdr'[c].size >= hdr[c].size
      BY <1>1, <1>2, <3>2, HeaderFacts DEF TypeOK
    <3> QED
      BY <1>1, <3>2, <3>3
  <2> QED
    BY <2>1, <2>2 DEF Accounted
<1>5. Room(S)'
  <2>1. SUFFICES ASSUME req' # 0 PROVE \E b \in S : ~hdr'[b].used /\ hdr'[b].size >= req'
    BY DEF Room
  <2>2. PICK b \in S : ~hdr'[b].used /\ hdr'[b].size >= K - 3
    BY <1>1
  <2>3. hdr'[b].size \in Nat /\ req' \in Nat
    BY <1>1, HeaderFacts, HeapAssumption DEF IsList
  <2> QED
    BY <2>1, <2>2, <2>3
<1> QED
  BY <1>1, <1>3, <1>4, <1>5, ListAfter

\* The heap grows by what the request needs.
LEMMA KmallocExpandStep == ASSUME IInv, NEW n \in Requests, KmallocExpand(n) PROVE IInv'
<1> DEFINE k == PagesFor(n)
<1>1. k \in Nat \ {0} /\ k * PageUnits >= n + 3 /\ n \in Nat
  BY PagesForFacts, HeapAssumption
<1>2. /\ heap_committed_end + k * PageUnits <= ReservedPages * PageUnits
      /\ req' = n /\ UNCHANGED live
  BY DEF KmallocExpand
<1>3. PICK tail \in Blocks \cup {NULL} : IsTail(tail) /\ Extend(tail, k)
  BY DEF KmallocExpand
<1> HIDE DEF k
<1>4. PICK S : Extended(hdr', head', k * PageUnits, S)
  BY <1>1, <1>2, <1>3, ExtendFacts
<1>5. /\ heap_committed_end' = heap_committed_end + k * PageUnits
      /\ heap_committed_end' \in {p * PageUnits : p \in 0..ReservedPages}
  BY <1>1, <1>2, <1>3, ExtendFacts
<1>6. k * PageUnits \in Nat
  BY <1>1, HeapAssumption
<1> DEFINE K == k * PageUnits
<1>7. K - 3 >= n
  BY <1>1, <1>6
<1>8. K \in Nat /\ Extended(hdr', head', K, S) /\ heap_committed_end' = heap_committed_end + K
  BY <1>4, <1>5, <1>6
<1> HIDE DEF K
<1> QED
  BY <1>2, <1>5, <1>7, <1>8, GrowStep

\* kmalloc() gives up, having grown the heap by some pages or by none.
LEMMA KmallocNullStep == ASSUME IInv, NEW n \in Requests, KmallocNull(n) PROVE IInv'
<1>1. req' = 0 /\ UNCHANGED live
  BY DEF KmallocNull
<1>2. CASE UNCHANGED <<hdr, head, heap_committed_end>>
  <2>1. PICK S : S = Blocks
    OBVIOUS
  <2>2. TypeOK' /\ Accounted(S)' /\ Room(S)'
    BY <1>1, <1>2, <2>1 DEF IInv, TypeOK, Accounted, Room
  <2>3. IsList(hdr', head', heap_committed_end', S) /\ Coalescing(hdr', S)
    BY <1>2, <2>1 DEF IInv
  <2> QED
    BY <2>2, <2>3, ListAfter
<1>3. CASE /\ heap_committed_end + PagesFor(n) * PageUnits <= ReservedPages * PageUnits
           /\ \E tail \in Blocks \cup {NULL}, k \in 1..PagesFor(n) - 1 :
                IsTail(tail) /\ Extend(tail, k)
  <2>1. PagesFor(n) \in Nat
    BY PagesForFacts
  <2>2. PICK tail \in Blocks \cup {NULL}, k \in 1..PagesFor(n) - 1 :
          IsTail(tail) /\ Extend(tail, k)
    BY <1>3
  <2>3. k \in Nat \ {0} /\ k <= PagesFor(n) /\ heap_committed_end \in Nat
    BY <2>1, ListFacts
  <2>4. k * PageUnits <= PagesFor(n) * PageUnits
    BY <2>1, <2>3, HeapAssumption
  <2>5. /\ k * PageUnits \in Nat /\ PagesFor(n) * PageUnits \in Nat
        /\ ReservedPages * PageUnits \in Nat
    BY <2>1, <2>3, HeapAssumption
  <2> DEFINE K == k * PageUnits
  <2>6. heap_committed_end + K <= ReservedPages * PageUnits
    BY <1>3, <2>3, <2>4, <2>5
  <2>7. PICK S : Extended(hdr', head', K, S)
    BY <2>2, <2>3, <2>6, ExtendFacts
  <2>8. /\ heap_committed_end' = heap_committed_end + K
        /\ heap_committed_end' \in {p * PageUnits : p \in 0..ReservedPages}
    BY <2>2, <2>3, <2>6, ExtendFacts
  <2>9. K \in Nat
    BY <2>5
  <2> HIDE DEF K
  <2> QED
    BY <1>1, <2>7, <2>8, <2>9, GrowStep
<1> QED
  BY <1>2, <1>3 DEF KmallocNull

-----------------------------------------------------------------------------
\* kheap_init()
LEMMA InitIInv == Init => IInv
<1> SUFFICES ASSUME Init PROVE IInv
  OBVIOUS
<1>1. DOMAIN hdr = {} /\ DOMAIN live = {} /\ head = NULL /\ heap_committed_end = 0 /\ req = 0
  BY DEF Init
<1>2. IsHeap(hdr)
  BY <1>1 DEF IsHeap
<1>3. IsList(hdr, head, heap_committed_end, {})
  BY <1>1 DEF IsList
<1>4. Blocks = {}
  BY <1>1, <1>2, <1>3, ListIsBlocks
<1>5. heap_committed_end \in {p * PageUnits : p \in 0..ReservedPages}
  <2>1. 0 \in 0..ReservedPages /\ 0 * PageUnits = 0
    BY HeapAssumption
  <2> QED
    BY <1>1, <2>1
<1>6. TypeOK
  BY <1>1, <1>2, <1>5 DEF TypeOK
<1> QED
  BY <1>1, <1>3, <1>4, <1>6 DEF IInv, Coalescing, Accounted, Room

\* Every step of the heap keeps the invariant.
LEMMA NextIInv == IInv /\ [Next]_vars => IInv'
<1> SUFFICES ASSUME IInv, [Next]_vars PROVE IInv'
  OBVIOUS
<1>1. CASE UNCHANGED vars
  <2>1. PICK S : S = Blocks
    OBVIOUS
  <2>2. TypeOK' /\ Accounted(S)' /\ Room(S)'
    BY <1>1, <2>1 DEF IInv, TypeOK, Accounted, Room, vars
  <2>3. IsList(hdr', head', heap_committed_end', S) /\ Coalescing(hdr', S)
    BY <1>1, <2>1 DEF IInv, vars
  <2> QED
    BY <2>2, <2>3, ListAfter
<1>2. CASE Next
  BY <1>2, KmallocFitStep, KmallocExpandStep, KmallocNullStep, KfreeStep DEF Next
<1> QED
  BY <1>1, <1>2

\* The inductive invariant holds in every reachable state.
LEMMA SpecIInv == Spec => []IInv
  BY InitIInv, NextIInv, PTL DEF Spec

\* kheap_verify() finds the list of blocks intact after any sequence of kmalloc() and
\* kfree(), those included that run out of room or of frames half way.
THEOREM HeapStaysIntact == Spec => []KheapVerify
<1>1. IInv => KheapVerify
  <2> SUFFICES ASSUME IInv PROVE KheapVerify
    OBVIOUS
  <2>1. TypeOK /\ Coalescing(hdr, Blocks)
    BY DEF IInv
  <2>2. \A b \in Blocks :
          /\ b + Header + hdr[b].size <= heap_committed_end
          /\ IF hdr[b].next # NULL
             THEN hdr[hdr[b].next].prev = b /\ b + Header + hdr[b].size = hdr[b].next
             ELSE b + Header + hdr[b].size = heap_committed_end
          /\ IF hdr[b].prev # NULL THEN hdr[hdr[b].prev].next = b ELSE b = head
    BY DEF IInv, IsList
  <2> QED
    BY <2>1, <2>2 DEF KheapVerify, Coalescing
<1> QED
  BY <1>1, SpecIInv, PTL

\* Every block handed out by kmalloc() keeps its size and its place until kfree(), and
\* shares no byte with another block or with a header.
THEOREM AllocationsAreApart == Spec => []LiveBlocks
<1>1. IInv => LiveBlocks
  <2> SUFFICES ASSUME IInv PROVE LiveBlocks
    OBVIOUS
  <2>1. /\ Accounted(Blocks) /\ IsList(hdr, head, heap_committed_end, Blocks)
        /\ IsHeap(hdr) /\ Blocks \subseteq DOMAIN hdr /\ DOMAIN live \subseteq DOMAIN hdr
    BY DEF IInv, TypeOK, IsList
  <2>2. ASSUME NEW b \in DOMAIN live
        PROVE  /\ b \in Blocks /\ hdr[b].used /\ live[b] <= hdr[b].size
               /\ b + Header + hdr[b].size <= heap_committed_end
               /\ \A c \in Blocks \ {b} : c + Header <= b \/ c >= b + Header + hdr[b].size
    <3>1. b \in Blocks /\ hdr[b].used /\ live[b] <= hdr[b].size
      BY <2>1 DEF Accounted
    <3>2. b + Header + hdr[b].size <= heap_committed_end
      BY <2>1, <3>1 DEF IsList
    <3>3. ASSUME NEW c \in Blocks, c # b
          PROVE  c + Header <= b \/ c >= b + Header + hdr[b].size
      <4>1. /\ b \in Nat /\ c \in Nat /\ hdr[b].size \in Nat /\ hdr[c].size \in Nat
        BY <2>1, HeaderFacts
      <4>2. /\ c > b => c >= b + Header + hdr[b].size
            /\ b > c => b >= c + Header + hdr[c].size
        BY <2>1, <3>1 DEF IsList
      <4> QED
        BY <3>3, <4>1, <4>2 DEF Header
    <3> QED
      BY <3>1, <3>2, <3>3
  <2>3. \A b \in Blocks : hdr[b].used => b \in DOMAIN live
    BY <2>1 DEF Accounted
  <2> QED
    BY <2>2, <2>3 DEF LiveBlocks
<1> QED
  BY <1>1, SpecIInv, PTL

\* The assertions of kfree() accept a block from the kmalloc() that hands it out to the
\* kfree() that gives it back, and at no other time.
THEOREM KfreeAcceptsLiveBlocks == Spec => []FreeOnce
<1>1. IInv => FreeOnce
  <2> SUFFICES ASSUME IInv, NEW b \in Units PROVE KfreeAccepts(b) <=> b \in DOMAIN live
    BY DEF FreeOnce
  <2>1. Accounted(Blocks) /\ DOMAIN live \subseteq DOMAIN hdr /\ IsHeap(hdr)
    BY DEF IInv, TypeOK
  <2>2. KfreeAccepts(b) => b \in DOMAIN live
    BY <2>1 DEF KfreeAccepts, Accounted
  <2>3. ASSUME b \in DOMAIN live PROVE KfreeAccepts(b)
    <3>1. b \in Blocks /\ b \in DOMAIN hdr /\ hdr[b].used
      BY <2>1, <2>3 DEF Accounted
    <3>2. b \in Nat /\ hdr[b].size \in Nat
      BY <2>1, <3>1, HeaderFacts
    <3>3. hdr[b].size >= 1 /\ b + 3 + hdr[b].size <= heap_committed_end
      BY <3>1 DEF IInv, IsList, Header
    <3>4. heap_committed_end \in Nat
      BY ListFacts
    <3> QED
      BY <3>1, <3>2, <3>3, <3>4 DEF KfreeAccepts, Header
  <2> QED
    BY <2>2, <2>3
<1> QED
  BY <1>1, SpecIInv, PTL

\* Once expand_heap() has mapped all the pages kmalloc() asked for, the search of the
\* next turn finds a block: the loop turns at most twice.
THEOREM KmallocLoopEnds == Spec => []OneExpansionIsEnough
<1>1. IInv => OneExpansionIsEnough
  <2> SUFFICES ASSUME IInv, req # 0 PROVE Fits(req)
    BY DEF OneExpansionIsEnough
  <2>1. req \in Nat /\ IsHeap(hdr) /\ head \in {0, NULL}
    BY HeapAssumption DEF IInv, TypeOK
  <2>2. IsList(hdr, head, heap_committed_end, Blocks) /\ Room(Blocks)
    BY DEF IInv
  <2> QED
    BY <2>1, <2>2, FitsIffRoom DEF Room
<1> QED
  BY <1>1, SpecIInv, PTL
=============================================================================
