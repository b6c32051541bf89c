--------------------------- MODULE AllocatorProofs ---------------------------
(***************************************************************************)
(* Both allocators are heaps: the bump allocator for every heap and every  *)
(* set of layouts, the block allocator, which keeps its lists and its      *)
(* memory apart, for every list of block sizes too.                        *)
(***************************************************************************)
EXTENDS BumpAllocator, BlockAllocator, FiniteSetTheorems, FunctionTheorems, WellFoundedInduction, TLAPS

-----------------------------------------------------------------------------
(* The bump allocator. *)

(* The inductive invariant: everything that is out lies between the start of the
   heap and `next`, so that only an empty heap may start over. *)
BumpInv == /\ TypeOK /\ IsFiniteSet(live) /\ CountsLiveBlocks
           /\ \A b \in live : b.ptr + b.layout.size <= next

(* A multiple leaves no remainder. *)
LEMMA Multiple ==
  ASSUME NEW s \in Nat \ {0}, NEW q \in Nat
  PROVE  (s * q) % s = 0
<1>1. (s * q + 0) \div s = q
  OBVIOUS
<1>2. s * q \in Int
  OBVIOUS
<1>3. ASSUME NEW a \in Int PROVE a = s * (a \div s) + (a % s) /\ a % s \in Int
  OBVIOUS
<1>4. s * q = s * ((s * q) \div s) + ((s * q) % s) /\ (s * q) % s \in Int
  BY <1>2, <1>3
<1> QED BY <1>1, <1>2, <1>4

(* align_up goes up, to a multiple of the alignment. *)
LEMMA AlignUp ==
  ASSUME NEW addr \in Nat, NEW align \in Nat \ {0}
  PROVE  /\ align_up(addr, align) \in Nat
         /\ align_up(addr, align) >= addr
         /\ align_up(addr, align) % align = 0
<1> DEFINE q == (addr + align - 1) \div align
<1>1. q \in Nat /\ addr + align - 1 = align * q + ((addr + align - 1) % align)
      /\ (addr + align - 1) % align \in 0..(align - 1)
  OBVIOUS
<1>2. align_up(addr, align) = q * align
  BY DEF align_up
<1> HIDE DEF q
<1>3. q * align \in Nat /\ q * align = align * q
  BY <1>1
<1>4. q * align >= addr
  BY <1>1, <1>3
<1>5. (q * align) % align = 0
  BY <1>1, <1>3, Multiple
<1> QED BY <1>2, <1>3, <1>4, <1>5

(* Where an allocation that fits is put: after everything that is out. *)
LEMMA Placement ==
  ASSUME BumpInv, NEW l \in Layouts, alloc_end(l) <= heap_end
  PROVE  /\ alloc_start(l) \in heap_start..(heap_end - l.size)
         /\ alloc_start(l) >= next
         /\ alloc_start(l) % l.align = 0
         /\ alloc_end(l) \in next..heap_end
         /\ \A b \in live : b.ptr + b.layout.size <= alloc_start(l)
<1>1. /\ l.size \in Nat \ {0} /\ l.align \in Nat \ {0}
      /\ next \in Nat /\ heap_start \in Nat /\ heap_end \in Nat /\ next >= heap_start
  BY LayoutAssumption, HeapAssumption DEF BumpInv, TypeOK, heap_end
<1>2. /\ alloc_start(l) \in Nat /\ alloc_start(l) >= next
      /\ alloc_start(l) % l.align = 0
  BY <1>1, AlignUp DEF alloc_start
<1>3. \A b \in live : b.ptr \in Nat /\ b.layout.size \in Nat /\ b.ptr + b.layout.size <= next
  BY LayoutAssumption, HeapAssumption DEF BumpInv, TypeOK, heap_end
<1> QED BY <1>1, <1>2, <1>3 DEF alloc_end

(* One step of either kind keeps the invariant. *)
LEMMA BumpNextInv == BumpInv /\ [Next]_vars => BumpInv'
<1> SUFFICES ASSUME BumpInv, [Next]_vars PROVE BumpInv'
  OBVIOUS
<1>0. heap_start \in Nat /\ heap_end \in Nat /\ heap_start <= heap_end
  BY HeapAssumption DEF heap_end
<1>1. ASSUME NEW l \in Layouts, Alloc(l) PROVE BumpInv'
  <2> DEFINE new == [ptr |-> alloc_start(l), layout |-> l]
  <2>1. /\ next' = alloc_end(l) /\ allocations' = allocations + 1
        /\ live' = live \cup {new} /\ stopped' = stopped
    BY <1>1 DEF Alloc
  <2>2. /\ alloc_start(l) \in heap_start..(heap_end - l.size)
        /\ alloc_start(l) >= next
        /\ alloc_end(l) \in next..heap_end
        /\ l.size \in Nat \ {0}
        /\ \A b \in live : b.ptr + b.layout.size <= alloc_start(l)
    BY <1>1, Placement, LayoutAssumption DEF Alloc
  <2>3. next \in heap_start..heap_end
    BY DEF BumpInv, TypeOK
  <2>4. alloc_start(l) \in heap_start..heap_end /\ alloc_end(l) \in heap_start..heap_end
    BY <1>0, <2>2, <2>3
  <2>5. TypeOK'
    BY <2>1, <2>4 DEF BumpInv, TypeOK
  <2>6. new \notin live
    <3>1. ASSUME new \in live PROVE FALSE
      <4>1. alloc_start(l) + l.size <= alloc_start(l)
        BY <2>2, <3>1
      <4> QED BY <4>1, <2>2, <1>0
    <3> QED BY <3>1
  <2>7. IsFiniteSet(live') /\ CountsLiveBlocks'
    BY <2>1, <2>6, FS_AddElement DEF BumpInv, CountsLiveBlocks
  <2>8. \A b \in live' : b.ptr + b.layout.size <= next'
    <3>1. new.ptr + new.layout.size <= alloc_end(l)
      BY <2>2, <1>0 DEF alloc_end
    <3>2. ASSUME NEW b \in live PROVE b.ptr + b.layout.size <= alloc_end(l)
      <4>1. b.ptr + b.layout.size <= next /\ b.ptr \in Nat /\ b.layout.size \in Nat
        BY <1>0, LayoutAssumption DEF BumpInv, TypeOK
      <4> QED BY <4>1, <2>2, <2>3, <1>0
    <3> QED BY <2>1, <3>1, <3>2
  <2> QED BY <2>5, <2>7, <2>8 DEF BumpInv
<1>2. ASSUME NEW l \in Layouts, OutOfMemory(l) PROVE BumpInv'
  BY <1>2 DEF OutOfMemory, BumpInv, TypeOK, CountsLiveBlocks
<1>3. ASSUME NEW b \in live, Dealloc(b) PROVE BumpInv'
  <2>1. /\ live' = live \ {b} /\ allocations' = allocations - 1
        /\ next' = IF allocations' = 0 THEN heap_start ELSE next
        /\ stopped' = stopped
    BY <1>3 DEF Dealloc
  <2>2. /\ IsFiniteSet(live') /\ Cardinality(live') = Cardinality(live) - 1
        /\ Cardinality(live') \in Nat
    BY <1>3, <2>1, FS_RemoveElement, FS_CardinalityType DEF BumpInv
  <2>3. CountsLiveBlocks' /\ allocations' \in Nat
    BY <2>1, <2>2 DEF BumpInv, CountsLiveBlocks
  <2>4. next' \in heap_start..heap_end
    BY <1>0, <2>1 DEF BumpInv, TypeOK
  <2>5. TypeOK'
    BY <2>1, <2>3, <2>4 DEF BumpInv, TypeOK
  <2>6. \A c \in live' : c.ptr + c.layout.size <= next'
    <3>1. CASE allocations' = 0
      <4>1. live' = {}
        BY <2>2, <2>3, <3>1, FS_EmptySet DEF CountsLiveBlocks
      <4> QED BY <4>1
    <3>2. CASE allocations' # 0
      BY <2>1, <3>2 DEF BumpInv
    <3> QED BY <3>1, <3>2
  <2> QED BY <2>2, <2>3, <2>5, <2>6 DEF BumpInv
<1>4. CASE HltLoop \/ UNCHANGED vars
  BY <1>4 DEF HltLoop, vars, BumpInv, TypeOK, CountsLiveBlocks
<1> QED BY <1>1, <1>2, <1>3, <1>4 DEF Next

(* The invariant holds at the start. *)
LEMMA BumpInitInv == Init => BumpInv
<1>1. IsFiniteSet({}) /\ Cardinality({}) = 0
  BY FS_EmptySet
<1>2. heap_start \in heap_start..heap_end
  BY HeapAssumption DEF heap_end
<1>3. ASSUME Init PROVE TypeOK
  BY <1>2, <1>3 DEF Init, TypeOK
<1>4. ASSUME Init PROVE IsFiniteSet(live) /\ CountsLiveBlocks
  BY <1>1, <1>4 DEF Init, CountsLiveBlocks
<1>5. ASSUME Init PROVE \A b \in live : b.ptr + b.layout.size <= next
  BY <1>5 DEF Init
<1> QED BY <1>3, <1>4, <1>5 DEF BumpInv

(* BumpAllocator::allocations is the number of blocks that are out, for every
   heap and every set of layouts. *)
THEOREM BumpCounts == Spec => [](TypeOK /\ CountsLiveBlocks)
<1>1. BumpInv => TypeOK /\ CountsLiveBlocks
  BY DEF BumpInv
<1> QED BY <1>1, BumpInitInv, BumpNextInv, PTL DEF Spec

(* Every step of the bump allocator is a step of the abstract heap: alloc gives
   out aligned memory inside the heap that nobody uses, also after the heap
   started over. *)
THEOREM BumpImplementsHeap == Spec => ImplementsHeap
<1>1. Init => Abstract!Init
  BY DEF Init, Abstract!Init
<1>2. BumpInv /\ [Next]_vars => [Abstract!Next]_live
  <2> SUFFICES ASSUME BumpInv, [Next]_vars PROVE [Abstract!Next]_live
    OBVIOUS
  <2>1. ASSUME NEW l \in Layouts, Alloc(l) PROVE Abstract!Alloc(l)
    <3> DEFINE p == alloc_start(l)
               new == [ptr |-> p, layout |-> l]
    <3>1. /\ p \in heap_start..(heap_end - l.size) /\ p % l.align = 0
          /\ \A b \in live : b.ptr + b.layout.size <= p
      BY <2>1, Placement DEF Alloc
    <3>2. live' = live \cup {new}
      BY <2>1 DEF Alloc
    <3>3. ASSUME NEW b \in live
          PROVE  Abstract!Extent(b) \cap Abstract!Extent(new) = {}
      <4>1. /\ b.ptr \in Int /\ b.layout.size \in Int /\ p \in Int /\ l.size \in Int
            /\ b.ptr + b.layout.size <= p
        BY <3>1, LayoutAssumption, HeapAssumption DEF BumpInv, TypeOK, heap_end
      <4>2. new.ptr = p /\ new.layout.size = l.size
        OBVIOUS
      <4> HIDE DEF p, new
      <4> QED BY <4>1, <4>2 DEF Abstract!Extent
    <3> HIDE DEF p
    <3> QED BY <3>1, <3>2, <3>3 DEF Abstract!Alloc
  <2>2. ASSUME NEW b \in live, Dealloc(b) PROVE Abstract!Dealloc(b)
    BY <2>2 DEF Dealloc, Abstract!Dealloc
  <2>3. ASSUME NEW l \in Layouts, OutOfMemory(l) PROVE live' = live
    BY <2>3 DEF OutOfMemory
  <2>4. CASE HltLoop \/ UNCHANGED vars
    BY <2>4 DEF HltLoop, vars
  <2> QED BY <2>1, <2>2, <2>3, <2>4 DEF Next, Abstract!Next
<1> QED BY <1>1, <1>2, BumpInitInv, BumpNextInv, PTL DEF Spec, ImplementsHeap, Abstract!Spec

-----------------------------------------------------------------------------
(* The block allocator. *)

(* Sets of naturals have a minimum, pairs a maximum. *)
LEMMA MinOf ==
  ASSUME NEW S, S \subseteq Nat, S # {}
  PROVE  Min(S) \in S
<1>1. PICK n \in S : \A k \in S : ~(<<k, n>> \in OpToRel(<, Nat))
  BY NatLessThanWellFounded, WFMin
<1>2. \A k \in Nat : k < n => k \notin S
  BY <1>1 DEF OpToRel
<1>3. \A k \in S : n <= k
  BY <1>2
<1> QED BY <1>3 DEF Min

(* The larger of two numbers. *)
LEMMA MaxOf ==
  ASSUME NEW a \in Nat, NEW b \in Nat
  PROVE  Max({a, b}) \in Nat /\ Max({a, b}) >= a /\ Max({a, b}) >= b
<1>1. \E x \in {a, b} : \A y \in {a, b} : x >= y
  OBVIOUS
<1> QED BY <1>1 DEF Max

(* What divides a divisor divides. *)
LEMMA Divides ==
  ASSUME NEW p \in Nat, NEW b \in Nat \ {0}, NEW a \in Nat \ {0}, p % b = 0, b % a = 0
  PROVE  p % a = 0
<1>1. PICK q \in Nat : p = b * q
  <2>1. p \div b \in Nat /\ p = b * (p \div b)
    OBVIOUS
  <2> QED BY <2>1
<1>2. PICK m \in Nat : b = a * m
  <2>1. b \div a \in Nat /\ b = a * (b \div a)
    OBVIOUS
  <2> QED BY <2>1
<1>3. p = a * (m * q) /\ m * q \in Nat
  BY <1>1, <1>2
<1>4. PICK n \in Nat : p = a * n
  BY <1>3
<1>5. p \div a = n
  BY <1>4
<1>6. p = a * (p \div a) + (p % a) /\ p % a \in Int
  OBVIOUS
<1> QED BY <1>4, <1>5, <1>6

-----------------------------------------------------------------------------
(* The inductive invariant. *)

Out(b) == [start |-> b.ptr, size |-> Rounded(Wanted(b.layout).size)]

(* What the fallback heap has given out does not overlap; a block that is out is the
   start of its own region and holds its owner's data. *)
Apart ==
  /\ list_heads \in [Classes -> Cells \cup {Null}]
  /\ mem \in [Cells -> Cells \cup {Null, Data}]
  /\ blocks \subseteq [ptr : Cells, layout : BlockLayouts] /\ IsFiniteSet(blocks)
  /\ regions \subseteq [start : Cells, size : Nat \ {0}]
  /\ \A r \in regions : Span(r.start, r.size) \subseteq Cells
  /\ \A r, s \in regions :
       r # s => Span(r.start, r.size) \cap Span(s.start, s.size) = {}
  /\ \A b, c \in blocks : b.ptr = c.ptr => b = c
  /\ \A b \in blocks : b.ptr % Wanted(b.layout).align = 0
  /\ \A b \in blocks : \A c \in Span(b.ptr, b.layout.size) : mem[c] = Data

(* L is the content of the lists: linked through the memory, every block on one list
   once, aligned as the list's blocks are, and not out; the regions are the blocks that
   are out and those on the lists. *)
Lists == [Classes -> Seq(Cells)]
OnLists(L) == {e \in Classes \X Cells : \E k \in 1..Len(L[e[1]]) : L[e[1]][k] = e[2]}
OnList(e) == [start |-> e[2], size |-> Rounded(BLOCK_SIZES[e[1]])]
Linked(L) ==
  /\ \A i \in Classes : list_heads[i] = IF Len(L[i]) = 0 THEN Null ELSE L[i][1]
  /\ \A i \in Classes : \A k \in 1..Len(L[i]) :
       mem[L[i][k]] = IF k = Len(L[i]) THEN Null ELSE L[i][k + 1]
  /\ \A i, j \in Classes : \A k \in 1..Len(L[i]), m \in 1..Len(L[j]) :
       L[i][k] = L[j][m] => i = j /\ k = m
  /\ \A i \in Classes : \A k \in 1..Len(L[i]) :
       L[i][k] % BLOCK_SIZES[i] = 0 /\ \A b \in blocks : b.ptr # L[i][k]
  /\ regions = {Out(b) : b \in blocks} \cup {OnList(e) : e \in OnLists(L)}

BlockInv == Apart /\ \E L \in Lists : Linked(L)

-----------------------------------------------------------------------------
(* The constants. *)

(* A class has blocks of some size. *)
LEMMA BlockSizesAre ==
  ASSUME SoundConstants, NEW i \in Classes
  PROVE  BLOCK_SIZES[i] \in Nat \ {0}
BY DEF SoundConstants, Classes

(* The cells of the heap: neither Null nor Data is one. *)
LEMMA CellsAre ==
  ASSUME SoundConstants
  PROVE  /\ Cells \subseteq Nat /\ Null \notin Cells /\ Data \notin Cells /\ Null # Data
         /\ \A c : c \in Cells <=> c \in Nat /\ HEAP_START <= c /\ c < HEAP_START + HEAP_SIZE
BY DEF SoundConstants, Cells

(* The fallback heap gives out no less than it is asked for. *)
LEMMA Rounds ==
  ASSUME SoundConstants, NEW n \in Nat \ {0}
  PROVE  Rounded(n) \in Nat \ {0} /\ Rounded(n) >= n
<1>1. n \in Nat /\ MinHole \in Nat
  BY DEF SoundConstants
<1>2. Rounded(n) \in Nat /\ Rounded(n) >= n
  BY <1>1, MaxOf DEF Rounded
<1> QED BY <1>2

(* list_index finds a block size with room for the layout, if there is one; whatever is
   asked of the fallback heap is large enough and aligned. *)
LEMMA Wants ==
  ASSUME SoundConstants, NEW l \in BlockLayouts
  PROVE  /\ l.size \in Nat \ {0} /\ l.align \in Nat \ {0}
         /\ list_index(l) \in Classes \cup {0}
         /\ list_index(l) # 0 => Wanted(l) = [size |-> BLOCK_SIZES[list_index(l)],
                                              align |-> BLOCK_SIZES[list_index(l)]]
         /\ list_index(l) = 0 => Wanted(l) = l
         /\ Wanted(l).size \in Nat \ {0} /\ Wanted(l).size >= l.size
         /\ Wanted(l).align \in Nat \ {0}
         /\ \A p \in Nat : p % Wanted(l).align = 0 => p % l.align = 0
         /\ Rounded(Wanted(l).size) \in Nat \ {0} /\ Rounded(Wanted(l).size) >= l.size
<1> DEFINE i == list_index(l)
           fitting == {j \in Classes : BLOCK_SIZES[j] >= Max({l.size, l.align})}
<1>1. l.size \in Nat \ {0} /\ l.align \in Nat \ {0}
  BY DEF SoundConstants
<1>2. Max({l.size, l.align}) \in Nat /\ Max({l.size, l.align}) >= l.size
      /\ Max({l.size, l.align}) >= l.align
  BY <1>1, MaxOf
<1>3. i = IF fitting = {} THEN 0 ELSE Min(fitting)
  BY DEF list_index
<1>4. fitting # {} => Min(fitting) \in fitting
  <2>1. fitting \subseteq Nat
    BY DEF Classes, SoundConstants
  <2> QED BY <2>1, MinOf
<1>5. i \in Classes \cup {0} /\ (i # 0 => BLOCK_SIZES[i] >= Max({l.size, l.align}))
  BY <1>3, <1>4
<1> HIDE DEF i, fitting
<1>6. CASE i = 0
  <2>1. Wanted(l) = l
    BY <1>6 DEF Wanted, i
  <2>2. Rounded(l.size) \in Nat \ {0} /\ Rounded(l.size) >= l.size
    BY <1>1, Rounds
  <2> QED BY <1>1, <1>5, <1>6, <2>1, <2>2 DEF i
<1>7. CASE i # 0
  <2>1. i \in Classes /\ BLOCK_SIZES[i] \in Nat \ {0}
    BY <1>5, <1>7, BlockSizesAre
  <2>2. Wanted(l) = [size |-> BLOCK_SIZES[i], align |-> BLOCK_SIZES[i]]
    BY <1>7 DEF Wanted, i
  <2>3. BLOCK_SIZES[i] >= l.size /\ BLOCK_SIZES[i] >= l.align
    BY <1>1, <1>2, <1>5, <1>7, <2>1
  <2>4. BLOCK_SIZES[i] % l.align = 0
    BY <1>1, <2>1, <2>3 DEF SoundConstants
  <2>5. \A p \in Nat : p % BLOCK_SIZES[i] = 0 => p % l.align = 0
    BY <1>1, <2>1, <2>4, Divides
  <2>6. Rounded(BLOCK_SIZES[i]) \in Nat \ {0} /\ Rounded(BLOCK_SIZES[i]) >= BLOCK_SIZES[i]
    BY <2>1, Rounds
  <2> QED BY <1>1, <1>7, <2>1, <2>2, <2>3, <2>5, <2>6 DEF i
<1> QED BY <1>6, <1>7

-----------------------------------------------------------------------------
(* The blocks and their regions. *)

(* Each block, out or on a list, lies in a region of its own. *)
LEMMA RegionOf ==
  ASSUME SoundConstants, Apart, NEW L \in Lists, Linked(L)
  PROVE  /\ \A b \in blocks : /\ Out(b) \in regions
                              /\ b.ptr \in Span(b.ptr, b.layout.size)
                              /\ Span(b.ptr, b.layout.size) \subseteq Span(Out(b).start, Out(b).size)
         /\ \A i \in Classes : \A k \in 1..Len(L[i]) :
              /\ L[i][k] \in Cells /\ OnList(<<i, L[i][k]>>) \in regions
              /\ L[i][k] \in Span(L[i][k], Rounded(BLOCK_SIZES[i]))
              /\ Rounded(BLOCK_SIZES[i]) >= BLOCK_SIZES[i]
         /\ \A r, s \in regions : r.start # s.start =>
              Span(r.start, r.size) \cap Span(s.start, s.size) = {}
<1>1. ASSUME NEW b \in blocks
      PROVE  /\ Out(b) \in regions
             /\ b.ptr \in Span(b.ptr, b.layout.size)
             /\ Span(b.ptr, b.layout.size) \subseteq Span(Out(b).start, Out(b).size)
  <2>1. b.ptr \in Nat /\ b.layout \in BlockLayouts
    BY CellsAre DEF Apart
  <2>2. /\ b.layout.size \in Nat \ {0} /\ Rounded(Wanted(b.layout).size) \in Nat
        /\ Rounded(Wanted(b.layout).size) >= b.layout.size
    BY <2>1, Wants
  <2>3. Out(b).start = b.ptr /\ Out(b).size = Rounded(Wanted(b.layout).size)
    BY DEF Out
  <2>4. Out(b) \in regions
    BY DEF Linked
  <2> QED BY <2>1, <2>2, <2>3, <2>4 DEF Span
<1>2. ASSUME NEW i \in Classes, NEW k \in 1..Len(L[i])
      PROVE  /\ L[i][k] \in Cells /\ OnList(<<i, L[i][k]>>) \in regions
             /\ L[i][k] \in Span(L[i][k], Rounded(BLOCK_SIZES[i]))
             /\ Rounded(BLOCK_SIZES[i]) >= BLOCK_SIZES[i]
  <2>1. L[i][k] \in Cells
    BY DEF Lists
  <2>2. <<i, L[i][k]>> \in OnLists(L)
    BY <2>1 DEF OnLists
  <2>3. OnList(<<i, L[i][k]>>) \in regions
    BY <2>2 DEF Linked
  <2>4. Rounded(BLOCK_SIZES[i]) \in Nat \ {0} /\ Rounded(BLOCK_SIZES[i]) >= BLOCK_SIZES[i]
    BY BlockSizesAre, Rounds, SMTT(30)
  <2>5. L[i][k] \in Nat
    BY <2>1, CellsAre
  <2> QED BY <2>1, <2>3, <2>4, <2>5 DEF Span
<1>3. \A r, s \in regions : r.start # s.start =>
        Span(r.start, r.size) \cap Span(s.start, s.size) = {}
  BY DEF Apart
<1> QED BY <1>1, <1>2, <1>3

(* alloc takes the head of a list: the list loses its first block, which was a region of
   its own, so that what the owner writes reaches no other block. *)
LEMMA AllocFromListKeeps ==
  ASSUME SoundConstants, BlockInv, NEW l \in BlockLayouts, AllocFromList(l)
  PROVE  BlockInv'
<1> DEFINE i == list_index(l)
           node == list_heads[i]
           new == [ptr |-> node, layout |-> l]
<1>1. PICK L \in Lists : Linked(L)
  BY DEF BlockInv
<1>2. Apart
  BY DEF BlockInv
<1>3. /\ i \in Classes /\ Wanted(l) = [size |-> BLOCK_SIZES[i], align |-> BLOCK_SIZES[i]]
      /\ l.size \in Nat \ {0} /\ BLOCK_SIZES[i] >= l.size
  BY Wants DEF AllocFromList, HasFreeBlock
<1>4. /\ node # Null /\ list_heads' = [list_heads EXCEPT ![i] = mem[node]]
      /\ blocks' = blocks \cup {new} /\ regions' = regions
      /\ mem' = [c \in Cells |-> IF c \in Span(node, l.size) THEN Data ELSE mem[c]]
  BY DEF AllocFromList, HasFreeBlock, Give
<1>5. Len(L[i]) \in Nat /\ Len(L[i]) > 0 /\ node = L[i][1] /\ L[i] \in Seq(Cells)
  <2>1. L[i] \in Seq(Cells) /\ Len(L[i]) \in Nat
    BY <1>3 DEF Lists
  <2> QED BY <1>1, <1>3, <1>4, <2>1 DEF Linked
<1> DEFINE M == [L EXCEPT ![i] = Tail(L[i])]
<1>6. /\ M \in Lists /\ \A j \in Classes : j # i => M[j] = L[j]
      /\ Len(M[i]) = Len(L[i]) - 1 /\ \A k \in 1..Len(M[i]) : M[i][k] = L[i][k + 1]
  BY <1>3, <1>5 DEF Lists
<1>7. /\ node \in Cells /\ OnList(<<i, node>>) \in regions /\ Out(new) = OnList(<<i, node>>)
      /\ Span(node, l.size) \subseteq Span(node, Rounded(BLOCK_SIZES[i]))
      /\ node % BLOCK_SIZES[i] = 0 /\ \A b \in blocks : b.ptr # node
  <2>1. 1 \in 1..Len(L[i])
    BY <1>5
  <2>2. /\ node \in Cells /\ OnList(<<i, node>>) \in regions
        /\ Rounded(BLOCK_SIZES[i]) >= BLOCK_SIZES[i]
        /\ node % BLOCK_SIZES[i] = 0 /\ \A b \in blocks : b.ptr # node
    <3>1. \A j \in Classes : \A k \in 1..Len(L[j]) :
            L[j][k] % BLOCK_SIZES[j] = 0 /\ \A b \in blocks : b.ptr # L[j][k]
      BY <1>1 DEF Linked
    <3>2. \A j \in Classes : \A k \in 1..Len(L[j]) :
            L[j][k] \in Cells /\ OnList(<<j, L[j][k]>>) \in regions /\ Rounded(BLOCK_SIZES[j]) >= BLOCK_SIZES[j]
      BY <1>1, <1>2, RegionOf
    <3>3. L[i][1] % BLOCK_SIZES[i] = 0 /\ \A b \in blocks : b.ptr # L[i][1]
      BY <1>3, <2>1, <3>1
    <3>4. L[i][1] \in Cells /\ OnList(<<i, L[i][1]>>) \in regions /\ Rounded(BLOCK_SIZES[i]) >= BLOCK_SIZES[i]
      BY <1>3, <2>1, <3>2
    <3>5. node = L[i][1]
      BY <1>5
    <3> HIDE DEF node, i
    <3> QED BY <3>3, <3>4, <3>5
  <2>3. Out(new) = OnList(<<i, node>>)
    BY <1>3 DEF Out, OnList
  <2>4. BLOCK_SIZES[i] \in Nat /\ Rounded(BLOCK_SIZES[i]) \in Nat /\ node \in Nat
    BY <1>3, <2>2, BlockSizesAre, Rounds, CellsAre
  <2>5. Span(node, l.size) \subseteq Span(node, Rounded(BLOCK_SIZES[i]))
    BY <1>3, <2>2, <2>4 DEF Span
  <2> QED BY <2>2, <2>3, <2>5
<1> HIDE DEF i, node, new, M
(* No other block is touched. *)
<1>8. ASSUME NEW r \in regions, r.start # node
      PROVE  \A c \in Span(r.start, r.size) : c \in Cells /\ mem'[c] = mem[c]
  <2>1. Span(r.start, r.size) \cap Span(node, Rounded(BLOCK_SIZES[i])) = {}
    <3>1. OnList(<<i, node>>).start = node /\ OnList(<<i, node>>).size = Rounded(BLOCK_SIZES[i])
      BY DEF OnList
    <3> QED BY <1>1, <1>2, <1>7, <1>8, <3>1, RegionOf
  <2>2. Span(r.start, r.size) \subseteq Cells
    BY <1>2 DEF Apart
  <2> QED BY <1>4, <1>7, <2>1, <2>2
<1>9. Apart'
  <2>1. list_heads' \in [Classes -> Cells \cup {Null}]
    <3>1. mem[node] \in Cells \cup {Null}
      <4>1. 1 \in 1..Len(L[i])
        BY <1>5
      <4>2. mem[node] = IF 1 = Len(L[i]) THEN Null ELSE L[i][1 + 1]
        BY <1>1, <1>3, <1>5, <4>1, ZenonT(40) DEF Linked
      <4>3. ASSUME 1 # Len(L[i]) PROVE L[i][1 + 1] \in Cells
        <5>1. \A n \in Nat : n > 0 /\ n # 1 => 1 + 1 \in 1..n
          OBVIOUS
        <5>2. 1 + 1 \in 1..Len(L[i])
          BY <1>5, <4>3, <5>1
        <5> QED BY <1>5, <5>2
      <4> QED BY <4>2, <4>3
    <3> QED BY <1>2, <1>4, <3>1 DEF Apart
  <2>2. mem' \in [Cells -> Cells \cup {Null, Data}]
    BY <1>2, <1>4 DEF Apart
  <2>3. blocks' \subseteq [ptr : Cells, layout : BlockLayouts] /\ IsFiniteSet(blocks')
    <3>1. new \in [ptr : Cells, layout : BlockLayouts]
      BY <1>7 DEF new
    <3> QED BY <1>2, <1>4, <3>1, FS_AddElement DEF Apart
  <2>4. \A b, c \in blocks' : b.ptr = c.ptr => b = c
    BY <1>2, <1>4, <1>7 DEF Apart, new
  <2>5. \A b \in blocks' : b.ptr % Wanted(b.layout).align = 0
    BY <1>2, <1>3, <1>4, <1>7 DEF Apart, new
  <2>6. ASSUME NEW b \in blocks', NEW c \in Span(b.ptr, b.layout.size) PROVE mem'[c] = Data
    <3>1. CASE b = new
      <4>1. c \in Span(node, l.size)
        BY <3>1 DEF new
      <4>2. c \in Cells
        <5>1. OnList(<<i, node>>).start = node /\ OnList(<<i, node>>).size = Rounded(BLOCK_SIZES[i])
          BY DEF OnList
        <5> QED BY <1>2, <1>7, <4>1, <5>1 DEF Apart
      <4> QED BY <1>4, <4>1, <4>2
    <3>2. CASE b \in blocks
      <4>1. Out(b) \in regions /\ Out(b).start # node /\ c \in Span(Out(b).start, Out(b).size)
        BY <1>1, <1>2, <1>7, <3>2, RegionOf DEF Out
      <4> QED BY <1>2, <1>8, <3>2, <4>1 DEF Apart
    <3> QED BY <1>4, <3>1, <3>2
  <2>7. /\ regions' \subseteq [start : Cells, size : Nat \ {0}]
        /\ \A r \in regions' : Span(r.start, r.size) \subseteq Cells
        /\ \A r, s \in regions' :
             r # s => Span(r.start, r.size) \cap Span(s.start, s.size) = {}
    BY <1>2, <1>4, SMTT(30) DEF Apart
  <2> QED BY <2>1, <2>2, <2>3, <2>4, <2>5, <2>6, <2>7 DEF Apart
(* Every block on the lists after the step was on them before, and is not the node. *)
<1>10. ASSUME NEW j \in Classes, NEW k \in 1..Len(M[j])
       PROVE  /\ Len(M[j]) \in Nat /\ Len(L[j]) \in Nat
              /\ \E m \in 1..Len(L[j]) :
                   /\ m = (IF j = i THEN k + 1 ELSE k) /\ M[j][k] = L[j][m] /\ L[j][m] # node
                   /\ mem'[L[j][m]] = mem[L[j][m]]
  <2> DEFINE m == IF j = i THEN k + 1 ELSE k
  <2>1. Len(M[j]) \in Nat /\ Len(L[j]) \in Nat
    BY <1>6 DEF Lists
  <2>2. m \in 1..Len(L[j]) /\ M[j][k] = L[j][m]
    BY <1>6, <2>1
  <2>3. L[j][m] # node
    <3>1. 1 \in 1..Len(L[i])
      BY <1>5
    <3>2. j = i => m # 1
      BY <1>6, <2>1
    <3> HIDE DEF m
    <3> QED BY <1>1, <1>3, <1>5, <2>2, <3>1, <3>2 DEF Linked
  <2> HIDE DEF m
  <2>4. mem'[L[j][m]] = mem[L[j][m]]
    <3>1. /\ OnList(<<j, L[j][m]>>) \in regions
          /\ L[j][m] \in Span(L[j][m], Rounded(BLOCK_SIZES[j]))
      BY <1>1, <1>2, <2>2, RegionOf
    <3>2. /\ OnList(<<j, L[j][m]>>).start = L[j][m]
          /\ OnList(<<j, L[j][m]>>).size = Rounded(BLOCK_SIZES[j])
      BY DEF OnList
    <3> QED BY <1>8, <2>3, <3>1, <3>2
  <2> QED BY <2>1, <2>2, <2>3, <2>4 DEF m
<1>11. Linked(M)'
  <2>1. \A j \in Classes : list_heads'[j] = IF Len(M[j]) = 0 THEN Null ELSE M[j][1]
    <3>1. list_heads'[i] = IF Len(M[i]) = 0 THEN Null ELSE M[i][1]
      <4>1. 1 \in 1..Len(L[i])
        BY <1>5
      <4>2. list_heads'[i] = IF 1 = Len(L[i]) THEN Null ELSE L[i][1 + 1]
        <5>1. \A j \in Classes : \A k \in 1..Len(L[j]) :
                mem[L[j][k]] = IF k = Len(L[j]) THEN Null ELSE L[j][k + 1]
          BY <1>1 DEF Linked
        <5>2. mem[L[i][1]] = IF 1 = Len(L[i]) THEN Null ELSE L[i][1 + 1]
          BY <1>3, <4>1, <5>1
        <5>3. i \in DOMAIN list_heads
          BY <1>2, <1>3 DEF Apart
        <5>4. list_heads'[i] = mem[node] /\ node = L[i][1]
          BY <1>4, <1>5, <5>3
        <5> HIDE DEF node, i
        <5> QED BY <5>2, <5>4
      <4>3. Len(M[i]) = 0 <=> 1 = Len(L[i])
        BY <1>5, <1>6
      <4>4. ASSUME Len(M[i]) # 0 PROVE M[i][1] = L[i][1 + 1]
        <5>1. \A n \in Nat : n > 0 /\ n - 1 # 0 => 1 \in 1..(n - 1)
          OBVIOUS
        <5>2. 1 \in 1..Len(M[i])
          BY <1>5, <1>6, <4>4, <5>1
        <5> QED BY <1>6, <5>2
      <4> QED BY <4>2, <4>3, <4>4
    <3>2. ASSUME NEW j \in Classes, j # i PROVE list_heads'[j] = IF Len(M[j]) = 0 THEN Null ELSE M[j][1]
      BY <1>1, <1>2, <1>4, <1>6, <3>2 DEF Linked, Apart
    <3> QED BY <3>1, <3>2
  <2>2. ASSUME NEW j \in Classes, NEW k \in 1..Len(M[j])
        PROVE  mem'[M[j][k]] = IF k = Len(M[j]) THEN Null ELSE M[j][k + 1]
    <3>1. PICK m \in 1..Len(L[j]) :
            /\ m = (IF j = i THEN k + 1 ELSE k) /\ M[j][k] = L[j][m]
            /\ mem'[L[j][m]] = mem[L[j][m]]
      BY <1>10
    <3>2. mem[L[j][m]] = IF m = Len(L[j]) THEN Null ELSE L[j][m + 1]
      BY <1>1, <3>1 DEF Linked
    <3>3. Len(M[j]) \in Nat /\ Len(L[j]) \in Nat
      BY <1>10
    <3>4. CASE j = i
      <4>1. k = Len(M[i]) <=> m = Len(L[i])
        BY <1>5, <1>6, <3>1, <3>3, <3>4
      <4>2. k # Len(M[i]) => M[i][k + 1] = L[i][m + 1]
        BY <1>6, <3>1, <3>3, <3>4
      <4> QED BY <3>1, <3>2, <3>4, <4>1, <4>2
    <3>5. CASE j # i
      BY <1>6, <3>1, <3>2, <3>5
    <3> QED BY <3>4, <3>5
  <2>3. ASSUME NEW j \in Classes, NEW h \in Classes, NEW k \in 1..Len(M[j]), NEW n \in 1..Len(M[h]),
               M[j][k] = M[h][n]
        PROVE  j = h /\ k = n
    <3>1. PICK m \in 1..Len(L[j]) : m = (IF j = i THEN k + 1 ELSE k) /\ M[j][k] = L[j][m]
      BY <1>10
    <3>2. PICK o \in 1..Len(L[h]) : o = (IF h = i THEN n + 1 ELSE n) /\ M[h][n] = L[h][o]
      BY <1>10
    <3>3. L[j][m] = L[h][o]
      BY <2>3, <3>1, <3>2
    <3>4. j = h /\ m = o
      <4>1. \A x, y \in Classes : \A u \in 1..Len(L[x]), v \in 1..Len(L[y]) :
              L[x][u] = L[y][v] => x = y /\ u = v
        BY <1>1 DEF Linked
      <4> QED BY <3>3, <4>1
    <3> QED BY <3>1, <3>2, <3>4
  <2>4. ASSUME NEW j \in Classes, NEW k \in 1..Len(M[j])
        PROVE  M[j][k] % BLOCK_SIZES[j] = 0 /\ \A b \in blocks' : b.ptr # M[j][k]
    <3>1. PICK m \in 1..Len(L[j]) : M[j][k] = L[j][m] /\ L[j][m] # node
      BY <1>10
    <3> QED BY <1>1, <1>4, <3>1 DEF Linked, new
  <2>5. regions' = {Out(b) : b \in blocks'} \cup {OnList(e) : e \in OnLists(M)}
    <3>1. OnLists(L) = OnLists(M) \cup {<<i, node>>}
      <4>1. ASSUME NEW e \in OnLists(M) PROVE e \in OnLists(L)
        <5>1. e \in Classes \X Cells /\ e[1] \in Classes
          BY DEF OnLists
        <5>2. PICK k \in 1..Len(M[e[1]]) : M[e[1]][k] = e[2]
          BY DEF OnLists
        <5>3. \E m \in 1..Len(L[e[1]]) : L[e[1]][m] = e[2]
          <6>1. PICK m \in 1..Len(L[e[1]]) : M[e[1]][k] = L[e[1]][m]
            <7> HIDE DEF M
            <7> QED BY <1>10, <5>1
          <6> QED BY <5>2, <6>1
        <5> QED BY <5>1, <5>3 DEF OnLists
      <4>2. <<i, node>> \in OnLists(L)
        <5>1. 1 \in 1..Len(L[i])
          BY <1>5
        <5> QED BY <1>3, <1>5, <1>7, <5>1 DEF OnLists
      <4>3. ASSUME NEW e \in OnLists(L), e # <<i, node>> PROVE e \in OnLists(M)
        <5>1. e \in Classes \X Cells /\ e[1] \in Classes /\ e = <<e[1], e[2]>>
          BY DEF OnLists
        <5>2. PICK m \in 1..Len(L[e[1]]) : L[e[1]][m] = e[2]
          BY DEF OnLists
        <5>3. CASE e[1] = i
          <6>1. m # 1
            BY <1>5, <4>3, <5>1, <5>2, <5>3
          <6>2. m - 1 \in 1..Len(M[i]) /\ M[i][m - 1] = L[i][m]
            BY <1>5, <1>6, <5>2, <5>3, <6>1
          <6> QED BY <5>1, <5>2, <5>3, <6>2 DEF OnLists
        <5>4. CASE e[1] # i
          BY <1>6, <5>1, <5>2, <5>4 DEF OnLists
        <5> QED BY <5>3, <5>4
      <4> QED BY <4>1, <4>2, <4>3
    <3>2. regions = {Out(b) : b \in blocks} \cup {OnList(e) : e \in OnLists(L)}
      BY <1>1 DEF Linked
    <3> QED BY <1>4, <1>7, <3>1, <3>2
  <2> QED BY <2>1, <2>2, <2>3, <2>4, <2>5 DEF Linked, Out, OnLists, OnList, Rounded, Wanted
<1> QED BY <1>6, <1>9, <1>11 DEF BlockInv

(* alloc makes a block: the fallback heap gives out cells that no region holds. *)
LEMMA AllocFromFallbackKeeps ==
  ASSUME SoundConstants, BlockInv, NEW l \in BlockLayouts, AllocFromFallback(l)
  PROVE  BlockInv'
<1> DEFINE fits == Fits(Wanted(l).size, Wanted(l).align)
           p == Min(fits)
           size == Rounded(Wanted(l).size)
           new == [ptr |-> p, layout |-> l]
<1>1. PICK L \in Lists : Linked(L)
  BY DEF BlockInv
<1>2. Apart
  BY DEF BlockInv
<1>3. /\ l.size \in Nat \ {0} /\ size \in Nat \ {0} /\ size >= l.size
  BY Wants
<1>4. p \in fits
  <2>1. fits # {} /\ fits \subseteq Nat
    BY CellsAre DEF AllocFromFallback, FirstFit, Fits
  <2> QED BY <2>1, MinOf
<1>5. /\ list_heads' = list_heads /\ blocks' = blocks \cup {new}
      /\ regions' = regions \cup {[start |-> p, size |-> size]}
      /\ mem' = [c \in Cells |-> IF c \in Span(p, l.size) THEN Data ELSE mem[c]]
  BY DEF AllocFromFallback, FirstFit, Give
<1>6. /\ p \in Cells /\ p \in Nat /\ p % Wanted(l).align = 0
      /\ Span(p, size) \subseteq Cells \ GivenOut
  BY <1>4, CellsAre DEF Fits
<1>7. Out(new) = [start |-> p, size |-> size] /\ new.ptr = p /\ new.layout = l
  BY DEF Out
<1> HIDE DEF fits, p, size, new
<1>8. p \in Span(p, l.size) /\ Span(p, l.size) \subseteq Span(p, size)
  BY <1>3, <1>6 DEF Span
<1>9. ASSUME NEW r \in regions
      PROVE  /\ Span(r.start, r.size) \cap Span(p, size) = {} /\ r.start # p
             /\ \A c \in Span(r.start, r.size) : c \in Cells /\ mem'[c] = mem[c]
  <2>1. Span(r.start, r.size) \subseteq GivenOut /\ Span(r.start, r.size) \subseteq Cells
    BY <1>2 DEF GivenOut, Apart
  <2>2. r.start \in Span(r.start, r.size)
    <3>1. r.start \in Nat /\ r.size \in Nat \ {0}
      BY <1>2, CellsAre DEF Apart
    <3> QED BY <3>1 DEF Span
  <2> QED BY <1>5, <1>6, <1>8, <2>1, <2>2
<1>10. \A b \in blocks : b.ptr # p
  <2>1. \A b \in blocks : Out(b) \in regions /\ Out(b).start = b.ptr
    BY <1>1, <1>2, RegionOf DEF Out
  <2> QED BY <1>9, <2>1
<1>11. Apart'
  <2>1. list_heads' \in [Classes -> Cells \cup {Null}] /\ mem' \in [Cells -> Cells \cup {Null, Data}]
    BY <1>2, <1>5 DEF Apart
  <2>2. blocks' \subseteq [ptr : Cells, layout : BlockLayouts] /\ IsFiniteSet(blocks')
    <3>1. new \in [ptr : Cells, layout : BlockLayouts]
      BY <1>6 DEF new
    <3> QED BY <1>2, <1>5, <3>1, FS_AddElement DEF Apart
  <2>3. \A b, c \in blocks' : b.ptr = c.ptr => b = c
    BY <1>2, <1>5, <1>7, <1>10 DEF Apart
  <2>4. \A b \in blocks' : b.ptr % Wanted(b.layout).align = 0
    BY <1>2, <1>5, <1>6, <1>7 DEF Apart
  <2>5. ASSUME NEW b \in blocks', NEW c \in Span(b.ptr, b.layout.size) PROVE mem'[c] = Data
    <3>1. CASE b = new
      BY <1>5, <1>6, <1>7, <1>8, <3>1
    <3>2. CASE b \in blocks
      <4>1. Out(b) \in regions /\ c \in Span(Out(b).start, Out(b).size)
        BY <1>1, <1>2, <3>2, RegionOf
      <4> QED BY <1>2, <1>9, <3>2, <4>1 DEF Apart
    <3> QED BY <1>5, <3>1, <3>2
  <2>6. /\ regions' \subseteq [start : Cells, size : Nat \ {0}]
        /\ \A r \in regions' : Span(r.start, r.size) \subseteq Cells
        /\ \A r, s \in regions' :
             r # s => Span(r.start, r.size) \cap Span(s.start, s.size) = {}
    BY <1>2, <1>3, <1>5, <1>6, <1>9 DEF Apart
  <2> QED BY <2>1, <2>2, <2>3, <2>4, <2>5, <2>6 DEF Apart
<1>12. Linked(L)'
  <2>1. \A i \in Classes : list_heads'[i] = IF Len(L[i]) = 0 THEN Null ELSE L[i][1]
    BY <1>1, <1>5 DEF Linked
  <2>2. ASSUME NEW i \in Classes, NEW k \in 1..Len(L[i])
        PROVE  mem'[L[i][k]] = mem[L[i][k]] /\ L[i][k] # p
    <3>1. OnList(<<i, L[i][k]>>) \in regions /\ L[i][k] \in Span(L[i][k], Rounded(BLOCK_SIZES[i]))
      BY <1>1, <1>2, RegionOf
    <3>2. /\ OnList(<<i, L[i][k]>>).start = L[i][k]
          /\ OnList(<<i, L[i][k]>>).size = Rounded(BLOCK_SIZES[i])
      BY DEF OnList
    <3> QED BY <1>9, <3>1, <3>2
  <2>3. \A i \in Classes : \A k \in 1..Len(L[i]) :
          mem'[L[i][k]] = IF k = Len(L[i]) THEN Null ELSE L[i][k + 1]
    BY <1>1, <2>2 DEF Linked
  <2>4. \A i \in Classes : \A k \in 1..Len(L[i]) :
          L[i][k] % BLOCK_SIZES[i] = 0 /\ \A b \in blocks' : b.ptr # L[i][k]
    <3>1. \A i \in Classes : \A k \in 1..Len(L[i]) :
            L[i][k] % BLOCK_SIZES[i] = 0 /\ \A b \in blocks : b.ptr # L[i][k]
      BY <1>1 DEF Linked
    <3> QED BY <1>5, <1>7, <2>2, <3>1
  <2>5. regions' = {Out(b) : b \in blocks'} \cup {OnList(e) : e \in OnLists(L)}
    <3>1. regions = {Out(b) : b \in blocks} \cup {OnList(e) : e \in OnLists(L)}
      BY <1>1 DEF Linked
    <3> QED BY <1>5, <1>7, <3>1
  <2>6. \A i, j \in Classes : \A k \in 1..Len(L[i]), m \in 1..Len(L[j]) :
          L[i][k] = L[j][m] => i = j /\ k = m
    BY <1>1 DEF Linked
  <2> QED BY <2>1, <2>3, <2>4, <2>5, <2>6 DEF Linked, Out, OnLists, OnList, Rounded, Wanted
<1> QED BY <1>11, <1>12 DEF BlockInv

(* dealloc gives a large block back: no other block was the same region. *)
LEMMA DeallocToFallbackKeeps ==
  ASSUME SoundConstants, BlockInv, NEW b \in blocks, DeallocToFallback(b)
  PROVE  BlockInv'
<1>1. PICK L \in Lists : Linked(L)
  BY DEF BlockInv
<1>2. Apart
  BY DEF BlockInv
<1>3. /\ list_heads' = list_heads /\ mem' = mem /\ blocks' = blocks \ {b}
      /\ regions' = regions \ {Out(b)} /\ Out(b).start = b.ptr
  BY DEF DeallocToFallback, Out, Wanted
<1>4. Apart'
  <2>1. IsFiniteSet(blocks')
    BY <1>2, <1>3, FS_RemoveElement DEF Apart
  <2> QED BY <1>2, <1>3, <2>1, SMTT(30) DEF Apart
<1>5. Linked(L)'
  <2>1. regions = {Out(c) : c \in blocks} \cup {OnList(e) : e \in OnLists(L)}
    BY <1>1 DEF Linked
  <2>2. \A c \in blocks' : Out(c) # Out(b)
    <3>1. \A c \in blocks' : Out(c).start = c.ptr /\ c.ptr # b.ptr
      BY <1>2, <1>3 DEF Apart, Out
    <3> QED BY <1>3, <3>1
  <2>3. ASSUME NEW e \in OnLists(L) PROVE OnList(e) # Out(b)
    <3>1. OnList(e).start = e[2] /\ e[1] \in Classes
      BY DEF OnList, OnLists
    <3>2. PICK k \in 1..Len(L[e[1]]) : L[e[1]][k] = e[2]
      BY DEF OnLists
    <3>3. e[2] # b.ptr
      BY <1>1, <3>1, <3>2 DEF Linked
    <3> QED BY <1>3, <3>1, <3>3
  <2>4. regions' = {Out(c) : c \in blocks'} \cup {OnList(e) : e \in OnLists(L)}
    BY <1>3, <2>1, <2>2, <2>3
  <2>5. /\ \A i \in Classes : list_heads'[i] = IF Len(L[i]) = 0 THEN Null ELSE L[i][1]
        /\ \A i \in Classes : \A k \in 1..Len(L[i]) :
             mem'[L[i][k]] = IF k = Len(L[i]) THEN Null ELSE L[i][k + 1]
        /\ \A i, j \in Classes : \A k \in 1..Len(L[i]), m \in 1..Len(L[j]) :
             L[i][k] = L[j][m] => i = j /\ k = m
        /\ \A i \in Classes : \A k \in 1..Len(L[i]) :
             L[i][k] % BLOCK_SIZES[i] = 0 /\ \A c \in blocks' : c.ptr # L[i][k]
    BY <1>1, <1>3 DEF Linked
  <2> QED BY <2>4, <2>5 DEF Linked, Out, OnLists, OnList, Rounded, Wanted
<1> QED BY <1>4, <1>5 DEF BlockInv

(* dealloc makes the block the head of its list: it is in no other list, and its first
   cell becomes the link to the old head. *)
LEMMA DeallocToListKeeps ==
  ASSUME SoundConstants, BlockInv, NEW b \in blocks, DeallocToList(b)
  PROVE  BlockInv'
<1> DEFINE i == list_index(b.layout)
           p == b.ptr
<1>1. PICK L \in Lists : Linked(L)
  BY DEF BlockInv
<1>2. Apart
  BY DEF BlockInv
<1>3. b.layout \in BlockLayouts /\ p \in Cells /\ b \in [ptr : Cells, layout : BlockLayouts]
  BY <1>2 DEF Apart
<1>4. /\ i \in Classes
      /\ Wanted(b.layout) = [size |-> BLOCK_SIZES[i], align |-> BLOCK_SIZES[i]]
  BY <1>3, Wants DEF DeallocToList
<1>5. /\ mem' = [mem EXCEPT ![p] = list_heads[i]] /\ list_heads' = [list_heads EXCEPT ![i] = p]
      /\ blocks' = blocks \ {b} /\ regions' = regions
  BY DEF DeallocToList
<1>6. Out(b) = OnList(<<i, p>>) /\ p % BLOCK_SIZES[i] = 0
  <2>1. Out(b) = OnList(<<i, p>>)
    BY <1>4 DEF Out, OnList
  <2>2. p % Wanted(b.layout).align = 0
    BY <1>2 DEF Apart
  <2> HIDE DEF i, p
  <2>3. Wanted(b.layout).align = BLOCK_SIZES[i]
    BY <1>4
  <2> QED BY <2>1, <2>2, <2>3
<1>7. L[i] \in Seq(Cells) /\ Len(L[i]) \in Nat
  BY <1>4 DEF Lists
<1> DEFINE M == [L EXCEPT ![i] = <<p>> \o L[i]]
<1>8. /\ M \in Lists /\ \A j \in Classes : j # i => M[j] = L[j]
      /\ Len(M[i]) = Len(L[i]) + 1 /\ M[i][1] = p
      /\ \A k \in 1..Len(L[i]) : M[i][k + 1] = L[i][k]
  <2>1. <<p>> \o L[i] \in Seq(Cells) /\ Len(<<p>> \o L[i]) = Len(L[i]) + 1
    BY <1>3, <1>7
  <2>2. M \in Lists /\ M[i] = <<p>> \o L[i] /\ \A j \in Classes : j # i => M[j] = L[j]
    BY <1>4, <2>1 DEF Lists
  <2>3. (<<p>> \o L[i])[1] = p /\ \A k \in 1..Len(L[i]) : (<<p>> \o L[i])[k + 1] = L[i][k]
    BY <1>3, <1>7
  <2> QED BY <2>1, <2>2, <2>3
<1> HIDE DEF i, p, M
<1>9. ASSUME NEW j \in Classes, NEW k \in 1..Len(L[j])
      PROVE  L[j][k] # p /\ L[j][k] \in Cells /\ mem'[L[j][k]] = mem[L[j][k]]
  <2>1. L[j][k] # p
    BY <1>1 DEF Linked, p
  <2>2. L[j][k] \in Cells
    BY <1>1, <1>2, RegionOf
  <2> QED BY <1>2, <1>5, <2>1, <2>2 DEF Apart
<1>10. ASSUME NEW j \in Classes, NEW k \in 1..Len(M[j])
       PROVE  /\ Len(M[j]) \in Nat /\ Len(L[j]) \in Nat
              /\ \/ j = i /\ k = 1 /\ M[j][k] = p
                 \/ \E m \in 1..Len(L[j]) :
                      k = (IF j = i THEN m + 1 ELSE m) /\ M[j][k] = L[j][m] /\ L[j][m] # p
  <2>1. Len(M[j]) \in Nat /\ Len(L[j]) \in Nat
    BY <1>8 DEF Lists
  <2>2. CASE j = i /\ k = 1
    BY <1>8, <2>1, <2>2
  <2>3. CASE j = i /\ k # 1
    <3>1. k - 1 \in 1..Len(L[i]) /\ k = (k - 1) + 1
      BY <1>8, <2>1, <2>3
    <3>2. M[i][k] = L[i][k - 1] /\ L[i][k - 1] # p
      BY <1>4, <1>8, <1>9, <3>1
    <3> QED BY <2>1, <2>3, <3>1, <3>2
  <2>4. CASE j # i
    BY <1>8, <1>9, <2>1, <2>4
  <2> QED BY <2>2, <2>3, <2>4
<1>11. Apart'
  <2>1. list_heads' \in [Classes -> Cells \cup {Null}] /\ mem' \in [Cells -> Cells \cup {Null, Data}]
    <3>1. list_heads[i] \in Cells \cup {Null}
      BY <1>2, <1>4 DEF Apart
    <3> QED BY <1>2, <1>3, <1>5, <3>1 DEF Apart
  <2>2. blocks' \subseteq [ptr : Cells, layout : BlockLayouts] /\ IsFiniteSet(blocks')
    BY <1>2, <1>5, FS_RemoveElement DEF Apart
  <2>3. ASSUME NEW c \in blocks', NEW a \in Span(c.ptr, c.layout.size) PROVE mem'[a] = Data
    <3>1. /\ Out(c) \in regions /\ a \in Span(Out(c).start, Out(c).size)
          /\ Out(b) \in regions /\ p \in Span(Out(b).start, Out(b).size)
      BY <1>1, <1>2, <1>5, RegionOf DEF p
    <3>2. Out(c).start # Out(b).start
      BY <1>2, <1>5 DEF Apart, Out
    <3>3. a # p /\ a \in Cells
      <4>1. a \in Cells
        BY <1>2, <3>1 DEF Apart
      <4> QED BY <1>1, <1>2, <3>1, <3>2, <4>1, RegionOf
    <3> QED BY <1>2, <1>5, <3>3 DEF Apart
  <2> QED BY <1>2, <1>5, <2>1, <2>2, <2>3 DEF Apart
<1>12. Linked(M)'
  <2>1. \A j \in Classes : list_heads'[j] = IF Len(M[j]) = 0 THEN Null ELSE M[j][1]
    <3>1. list_heads'[i] = p /\ \A j \in Classes : j # i => list_heads'[j] = list_heads[j]
      BY <1>2, <1>4, <1>5 DEF Apart
    <3>2. Len(M[i]) # 0
      BY <1>7, <1>8
    <3>3. \A j \in Classes : list_heads[j] = IF Len(L[j]) = 0 THEN Null ELSE L[j][1]
      BY <1>1 DEF Linked
    <3> QED BY <1>8, <3>1, <3>2, <3>3
  <2>2. ASSUME NEW j \in Classes, NEW k \in 1..Len(M[j])
        PROVE  mem'[M[j][k]] = IF k = Len(M[j]) THEN Null ELSE M[j][k + 1]
    <3>1. CASE j = i /\ k = 1 /\ M[j][k] = p
      <4>1. mem'[p] = list_heads[i]
        BY <1>2, <1>3, <1>5 DEF Apart, p
      <4>2. list_heads[i] = IF Len(L[i]) = 0 THEN Null ELSE L[i][1]
        BY <1>1, <1>4 DEF Linked
      <4>3. k = Len(M[i]) <=> Len(L[i]) = 0
        BY <1>7, <1>8, <3>1
      <4>4. ASSUME Len(L[i]) # 0 PROVE M[i][k + 1] = L[i][1]
        <5>1. 1 \in 1..Len(L[i])
          BY <1>7, <4>4
        <5> QED BY <1>8, <3>1, <5>1
      <4> QED BY <3>1, <4>1, <4>2, <4>3, <4>4
    <3>2. ASSUME NEW m \in 1..Len(L[j]), k = (IF j = i THEN m + 1 ELSE m), M[j][k] = L[j][m]
          PROVE  mem'[M[j][k]] = IF k = Len(M[j]) THEN Null ELSE M[j][k + 1]
      <4>1. mem'[L[j][m]] = IF m = Len(L[j]) THEN Null ELSE L[j][m + 1]
        BY <1>1, <1>9 DEF Linked
      <4>2. Len(M[j]) \in Nat /\ Len(L[j]) \in Nat
        BY <1>10
      <4>3. k = Len(M[j]) <=> m = Len(L[j])
        BY <1>8, <3>2, <4>2
      <4>4. ASSUME m # Len(L[j]) PROVE M[j][k + 1] = L[j][m + 1]
        <5>1. m + 1 \in 1..Len(L[j])
          BY <4>2, <4>4
        <5> QED BY <1>8, <3>2, <5>1
      <4> QED BY <3>2, <4>1, <4>3, <4>4
    <3> QED BY <1>10, <3>1, <3>2, SMTT(30)
  <2>3. ASSUME NEW j \in Classes, NEW h \in Classes, NEW k \in 1..Len(M[j]), NEW n \in 1..Len(M[h]),
               M[j][k] = M[h][n]
        PROVE  j = h /\ k = n
    <3>1. CASE M[j][k] = p
      <4>1. j = i /\ k = 1
        BY <1>10, <3>1, SMTT(30)
      <4>2. M[h][n] = p
        BY <2>3, <3>1
      <4>3. h = i /\ n = 1
        BY <1>10, <4>2
      <4> QED BY <4>1, <4>3
    <3>2. CASE M[j][k] # p
      <4>1. PICK m \in 1..Len(L[j]) : k = (IF j = i THEN m + 1 ELSE m) /\ M[j][k] = L[j][m]
        BY <1>10, <3>2, SMTT(30)
      <4>2. PICK o \in 1..Len(L[h]) : n = (IF h = i THEN o + 1 ELSE o) /\ M[h][n] = L[h][o]
        BY <1>10, <2>3, <3>2
      <4>3. \A x, y \in Classes : \A u \in 1..Len(L[x]), v \in 1..Len(L[y]) :
              L[x][u] = L[y][v] => x = y /\ u = v
        BY <1>1 DEF Linked
      <4>4. L[j][m] = L[h][o]
        BY <2>3, <4>1, <4>2
      <4>5. j = h /\ m = o
        BY <4>3, <4>4
      <4> QED BY <4>1, <4>2, <4>5
    <3> QED BY <3>1, <3>2
  <2>4. ASSUME NEW j \in Classes, NEW k \in 1..Len(M[j])
        PROVE  M[j][k] % BLOCK_SIZES[j] = 0 /\ \A c \in blocks' : c.ptr # M[j][k]
    <3>1. CASE j = i /\ M[j][k] = p
      BY <1>2, <1>5, <1>6, <3>1 DEF Apart, p
    <3>2. ASSUME NEW m \in 1..Len(L[j]), M[j][k] = L[j][m]
          PROVE  M[j][k] % BLOCK_SIZES[j] = 0 /\ \A c \in blocks' : c.ptr # M[j][k]
      <4>1. \A x \in Classes : \A u \in 1..Len(L[x]) :
              L[x][u] % BLOCK_SIZES[x] = 0 /\ \A c \in blocks : c.ptr # L[x][u]
        BY <1>1 DEF Linked
      <4>2. L[j][m] % BLOCK_SIZES[j] = 0 /\ \A c \in blocks : c.ptr # L[j][m]
        BY <4>1
      <4>3. blocks' \subseteq blocks
        BY <1>5
      <4> QED BY <3>2, <4>2, <4>3
    <3> QED BY <1>10, <3>1, <3>2
  <2>5. regions' = {Out(c) : c \in blocks'} \cup {OnList(e) : e \in OnLists(M)}
    <3>1. OnLists(M) = OnLists(L) \cup {<<i, p>>}
      <4>1. ASSUME NEW e \in OnLists(M), e # <<i, p>> PROVE e \in OnLists(L)
        <5>1. e \in Classes \X Cells /\ e[1] \in Classes /\ e = <<e[1], e[2]>>
          BY DEF OnLists
        <5>2. PICK k \in 1..Len(M[e[1]]) : M[e[1]][k] = e[2]
          BY DEF OnLists
        <5>3. ~(e[1] = i /\ M[e[1]][k] = p)
          BY <4>1, <5>1, <5>2
        <5>4. \E m \in 1..Len(L[e[1]]) : L[e[1]][m] = e[2]
          BY <1>10, <5>1, <5>2, <5>3
        <5> QED BY <5>1, <5>4 DEF OnLists
      <4>2. <<i, p>> \in OnLists(M)
        <5>1. 1 \in 1..Len(M[i])
          BY <1>7, <1>8
        <5> QED BY <1>3, <1>4, <1>8, <5>1 DEF OnLists, p
      <4>3. ASSUME NEW e \in OnLists(L) PROVE e \in OnLists(M)
        <5>1. e \in Classes \X Cells /\ e[1] \in Classes
          BY DEF OnLists
        <5>2. PICK m \in 1..Len(L[e[1]]) : L[e[1]][m] = e[2]
          BY DEF OnLists
        <5>3. CASE e[1] = i
          <6>1. m + 1 \in 1..Len(M[i]) /\ M[i][m + 1] = L[i][m]
            BY <1>7, <1>8, <5>2, <5>3
          <6> QED BY <5>1, <5>2, <5>3, <6>1 DEF OnLists
        <5>4. CASE e[1] # i
          BY <1>8, <5>1, <5>2, <5>4 DEF OnLists
        <5> QED BY <5>3, <5>4
      <4> QED BY <4>1, <4>2, <4>3
    <3>2. regions = {Out(c) : c \in blocks} \cup {OnList(e) : e \in OnLists(L)}
      BY <1>1 DEF Linked
    <3>3. blocks = blocks' \cup {b}
      BY <1>5
    <3> QED BY <1>5, <1>6, <3>1, <3>2, <3>3
  <2> QED BY <2>1, <2>2, <2>3, <2>4, <2>5 DEF Linked, Out, OnLists, OnList, Rounded, Wanted
<1> QED BY <1>8, <1>11, <1>12 DEF BlockInv

(* The lists are empty at first. *)
LEMMA BlockInitInv ==
  ASSUME SoundConstants, BlockInit PROVE BlockInv
<1> DEFINE L == [i \in Classes |-> <<>>]
<1>1. L \in Lists /\ \A i \in Classes : L[i] = <<>> /\ Len(L[i]) = 0
  BY DEF Lists
<1>2. OnLists(L) = {}
  BY <1>1 DEF OnLists
<1>3. IsFiniteSet({})
  BY FS_EmptySet
<1>4. Apart
  BY <1>3 DEF BlockInit, Apart
<1> HIDE DEF L
<1>5. Linked(L)
  BY <1>1, <1>2 DEF BlockInit, Linked
<1> QED BY <1>1, <1>4, <1>5 DEF BlockInv

(* alloc and dealloc keep the invariant. *)
LEMMA BlockStepKeeps ==
  ASSUME SoundConstants, BlockInv, [BlockNext]_blockVars PROVE BlockInv'
<1>1. CASE UNCHANGED <<list_heads, mem, regions, blocks>>
  <2>1. PICK L \in Lists : Linked(L)
    BY DEF BlockInv
  <2>2. Linked(L)'
    BY <1>1, <2>1 DEF Linked, Out, OnLists, OnList, Rounded, Wanted
  <2>3. Apart'
    BY <1>1 DEF BlockInv, Apart, Wanted
  <2> QED BY <2>2, <2>3 DEF BlockInv
<1>2. ASSUME NEW l \in BlockLayouts, AllocFromList(l) \/ AllocFromFallback(l) \/ BlockOutOfMemory(l)
      PROVE  BlockInv'
  BY <1>1, <1>2, AllocFromListKeeps, AllocFromFallbackKeeps DEF BlockOutOfMemory
<1>3. ASSUME NEW b \in blocks, DeallocToList(b) \/ DeallocToFallback(b) PROVE BlockInv'
  BY <1>3, DeallocToListKeeps, DeallocToFallbackKeeps
<1>4. CASE BlockHltLoop \/ UNCHANGED blockVars
  BY <1>1, <1>4 DEF BlockHltLoop, blockVars
<1> QED BY <1>2, <1>3, <1>4 DEF BlockNext

-----------------------------------------------------------------------------
(* What the links lead to. *)

(* A list is no longer than the heap has cells. *)
LEMMA ListsFit ==
  ASSUME SoundConstants, NEW L \in Lists, Linked(L), NEW i \in Classes
  PROVE  Len(L[i]) \in 0..HEAP_SIZE
<1>1. L[i] \in Seq(Cells) /\ Len(L[i]) \in Nat /\ L[i] \in [1..Len(L[i]) -> Cells]
  BY DEF Lists
<1>2. L[i] \in Injection(1..Len(L[i]), Cells)
  <2>1. \A k, m \in 1..Len(L[i]) : L[i][k] = L[i][m] => k = m
    BY DEF Linked
  <2> QED BY <1>1, <2>1 DEF Injection, IsInjective
<1>3. HEAP_START \in Int /\ HEAP_START + HEAP_SIZE - 1 \in Int /\ HEAP_SIZE \in Nat
  BY DEF SoundConstants
<1>4. IsFiniteSet(Cells) /\ Cardinality(Cells) = HEAP_SIZE
  BY <1>3, FS_Interval DEF Cells
<1>5. Cardinality(1..Len(L[i])) = Len(L[i])
  BY <1>1, FS_Interval
<1>6. Cardinality(1..Len(L[i])) <= Cardinality(Cells)
  BY <1>2, <1>4, FS_Injection
<1> QED BY <1>1, <1>3, <1>4, <1>5, <1>6

(* Following the links from the head of a list gives its blocks in order, then Null. *)
LEMMA Walk ==
  ASSUME SoundConstants, Apart, NEW L \in Lists, Linked(L), NEW i \in Classes
  PROVE  \A n \in 0..HEAP_SIZE : Node(i)[n] = IF n < Len(L[i]) THEN L[i][n + 1] ELSE Null
<1> DEFINE Follow(p) == IF p \in Cells THEN mem[p] ELSE p
           D == 0..HEAP_SIZE
           W == [n \in D |-> IF n < Len(L[i]) THEN L[i][n + 1] ELSE Null]
           Eq(f) == f = [n \in D |-> IF n = 0 THEN list_heads[i] ELSE Follow(f[n - 1])]
<1>1. L[i] \in Seq(Cells) /\ Len(L[i]) \in Nat /\ HEAP_SIZE \in Nat
  BY DEF Lists, SoundConstants
<1>2. Eq(W)
  <2>1. W[0] = list_heads[i]
    BY <1>1 DEF Linked
  <2>2. ASSUME NEW n \in D, n # 0 PROVE W[n] = Follow(W[n - 1])
    <3>1. n - 1 \in D /\ n \in Nat /\ (n - 1) + 1 = n
      BY <1>1, <2>2
    <3>2. CASE n - 1 < Len(L[i])
      <4>1. n \in 1..Len(L[i])
        BY <1>1, <3>1, <3>2, <2>2
      <4>2. W[n - 1] = L[i][n]
        BY <3>1, <3>2
      <4>3. L[i][n] \in Cells
        BY <1>1, <4>1
      <4>4. mem[L[i][n]] = IF n = Len(L[i]) THEN Null ELSE L[i][n + 1]
        BY <4>1 DEF Linked
      <4>5. n < Len(L[i]) <=> n # Len(L[i])
        BY <1>1, <4>1
      <4> QED BY <4>2, <4>3, <4>4, <4>5
    <3>3. CASE ~(n - 1 < Len(L[i]))
      <4>1. ~(n < Len(L[i]))
        BY <1>1, <3>1, <3>3
      <4> QED BY <3>1, <3>3, <4>1, CellsAre
    <3> QED BY <3>2, <3>3
  <2>3. DOMAIN W = D
    OBVIOUS
  <2> QED BY <2>1, <2>2, <2>3
<1> HIDE DEF W
<1>3. Node(i) = CHOOSE f : Eq(f)
  BY DEF Node
<1>4. Eq(Node(i))
  BY <1>2, <1>3
<1> DEFINE T == {n \in D : Node(i)[n] # W[n]}
<1>5. T = {}
  <2> SUFFICES ASSUME T # {} PROVE FALSE
    OBVIOUS
  <2>1. T \subseteq Nat
    BY <1>1
  <2>2. PICK n \in T : \A k \in T : ~(<<k, n>> \in OpToRel(<, Nat))
    BY <2>1, NatLessThanWellFounded, WFMin
  <2>3. \A k \in Nat : k < n => k \notin T
    BY <2>1, <2>2 DEF OpToRel
  <2>4. n # 0
    BY <1>1, <1>2, <1>4
  <2>5. n - 1 \in D /\ n - 1 \in Nat /\ n - 1 < n
    BY <1>1, <2>4
  <2>6. Node(i)[n - 1] = W[n - 1]
    BY <2>3, <2>5
  <2>7. n \in D /\ Node(i)[n] = Follow(Node(i)[n - 1]) /\ W[n] = Follow(W[n - 1])
    <3>1. n \in D
      OBVIOUS
    <3> HIDE DEF Follow, D, T
    <3> QED BY <1>2, <1>4, <2>4, <3>1
  <2> QED BY <2>6, <2>7
<1> QED BY <1>5 DEF W

(* What is found by following the pointers is what L says is on the lists. *)
LEMMA ListedAre ==
  ASSUME SoundConstants, Apart, NEW L \in Lists, Linked(L)
  PROVE  /\ Listed = OnLists(L)
         /\ \A i \in Classes : Node(i)[HEAP_SIZE] = Null /\ Nodes(i) \subseteq Cells
<1>1. ASSUME NEW i \in Classes
      PROVE  /\ Node(i)[HEAP_SIZE] = Null
             /\ Nodes(i) = {L[i][k] : k \in 1..Len(L[i])} /\ Nodes(i) \subseteq Cells
  <2>1. Len(L[i]) \in 0..HEAP_SIZE /\ HEAP_SIZE \in Nat
    BY ListsFit DEF SoundConstants
  <2>2. \A n \in 0..HEAP_SIZE : Node(i)[n] = IF n < Len(L[i]) THEN L[i][n + 1] ELSE Null
    BY Walk
  <2>3. \A k \in 1..Len(L[i]) : L[i][k] \in Cells /\ L[i][k] # Null
    BY CellsAre DEF Lists
  <2>4. Node(i)[HEAP_SIZE] = Null
    BY <2>1, <2>2
  <2>5. ASSUME NEW p \in Nodes(i) PROVE \E k \in 1..Len(L[i]) : p = L[i][k]
    <3>1. PICK n \in 0..HEAP_SIZE : p = Node(i)[n] /\ p # Null
      BY DEF Nodes
    <3>2. n < Len(L[i]) /\ p = L[i][n + 1]
      BY <2>2, <3>1
    <3>3. n + 1 \in 1..Len(L[i])
      BY <2>1, <3>1, <3>2
    <3> QED BY <3>2, <3>3
  <2>6. ASSUME NEW k \in 1..Len(L[i]) PROVE L[i][k] \in Nodes(i)
    <3>1. k - 1 \in 0..HEAP_SIZE /\ k - 1 < Len(L[i]) /\ (k - 1) + 1 = k
      BY <2>1
    <3>2. Node(i)[k - 1] = L[i][k]
      BY <2>2, <3>1
    <3> QED BY <2>3, <3>1, <3>2 DEF Nodes
  <2> QED BY <2>3, <2>4, <2>5, <2>6
<1>2. Listed = OnLists(L)
  BY <1>1 DEF Listed, OnLists
<1> QED BY <1>1, <1>2

(* Every list of free blocks ends, after blocks that are all intact, whatever was
   allocated and freed and in whatever order: no owner's data is taken for a pointer, and
   no pointer is written into a block that is out. *)
THEOREM BlockListsAreSound ==
  ASSUME SoundConstants PROVE BlockSpec => []ListsSound
<1>1. BlockInv => ListsSound
  BY ListedAre DEF BlockInv, ListsSound, Apart
<1>2. BlockInit => BlockInv
  BY BlockInitInv
<1>3. BlockInv /\ [BlockNext]_blockVars => BlockInv'
  BY BlockStepKeeps
<1> QED BY <1>1, <1>2, <1>3, PTL DEF BlockSpec

(* One region for each block that is out and for each block on a list. *)
LEMMA RegionsCount ==
  ASSUME SoundConstants, Apart, NEW L \in Lists, Linked(L)
  PROVE  Cardinality(regions) = Cardinality(blocks) + Cardinality(OnLists(L))
<1> DEFINE A == {Out(b) : b \in blocks}
           B == {OnList(e) : e \in OnLists(L)}
<1>1. \A b \in blocks : Out(b).start = b.ptr
  BY DEF Out
<1>2. \A e \in OnLists(L) : OnList(e).start = e[2]
  BY DEF OnList
<1>3. IsFiniteSet(A) /\ Cardinality(A) = Cardinality(blocks)
  <2> DEFINE f == [b \in blocks |-> Out(b)]
  <2>1. f \in Bijection(blocks, A)
    <3>1. \A b, c \in blocks : f[b] = f[c] => b = c
      BY <1>1 DEF Apart
    <3> QED BY <3>1 DEF Bijection, Injection, Surjection, IsInjective
  <2>2. ExistsBijection(blocks, A)
    BY <2>1 DEF ExistsBijection
  <2>3. IsFiniteSet(blocks)
    BY DEF Apart
  <2> HIDE DEF A
  <2> QED BY <2>2, <2>3, FS_Bijection
<1>4. IsFiniteSet(OnLists(L))
  <2>1. IsFiniteSet(Classes) /\ IsFiniteSet(Cells)
    <3>1. Len(BLOCK_SIZES) \in Nat /\ HEAP_START \in Int /\ HEAP_START + HEAP_SIZE - 1 \in Int
      BY DEF SoundConstants
    <3> QED BY <3>1, FS_Interval DEF Classes, Cells
  <2>2. IsFiniteSet(Classes \X Cells)
    BY <2>1, FS_Product
  <2>3. OnLists(L) \in SUBSET (Classes \X Cells)
    BY DEF OnLists
  <2> QED BY <2>2, <2>3, FS_Subset
<1>5. IsFiniteSet(B) /\ Cardinality(B) = Cardinality(OnLists(L))
  <2> DEFINE g == [e \in OnLists(L) |-> OnList(e)]
  <2>1. g \in Bijection(OnLists(L), B)
    <3>1. ASSUME NEW e \in OnLists(L), NEW d \in OnLists(L), g[e] = g[d] PROVE e = d
      <4>1. e[2] = d[2]
        BY <1>2, <3>1
      <4>2. /\ e[1] \in Classes /\ d[1] \in Classes
            /\ e = <<e[1], e[2]>> /\ d = <<d[1], d[2]>>
        BY DEF OnLists
      <4>3. PICK k \in 1..Len(L[e[1]]) : L[e[1]][k] = e[2]
        BY DEF OnLists
      <4>4. PICK m \in 1..Len(L[d[1]]) : L[d[1]][m] = d[2]
        BY DEF OnLists
      <4>5. \A x, y \in Classes : \A u \in 1..Len(L[x]), v \in 1..Len(L[y]) :
              L[x][u] = L[y][v] => x = y /\ u = v
        BY DEF Linked
      <4>6. e[1] = d[1]
        BY <4>1, <4>2, <4>3, <4>4, <4>5
      <4> QED BY <4>1, <4>2, <4>6
    <3> QED BY <3>1 DEF Bijection, Injection, Surjection, IsInjective
  <2>2. ExistsBijection(OnLists(L), B)
    BY <2>1 DEF ExistsBijection
  <2> HIDE DEF B
  <2> QED BY <1>4, <2>2, FS_Bijection
<1>6. A \cap B = {}
  <2>1. ASSUME NEW b \in blocks, NEW e \in OnLists(L) PROVE Out(b) # OnList(e)
    <3>1. e[1] \in Classes
      BY DEF OnLists
    <3>2. PICK k \in 1..Len(L[e[1]]) : L[e[1]][k] = e[2]
      BY DEF OnLists
    <3>3. e[2] # b.ptr
      BY <3>1, <3>2 DEF Linked
    <3> QED BY <1>1, <1>2, <3>3
  <2> QED BY <2>1
<1>7. regions = A \cup B
  BY DEF Linked
<1> HIDE DEF A, B
<1>8. /\ Cardinality(A \cup B) = Cardinality(A) + Cardinality(B) - Cardinality(A \cap B)
      /\ Cardinality({}) = 0
  BY <1>3, <1>5, FS_Union, FS_EmptySet
<1>9. Cardinality(A) \in Nat /\ Cardinality(B) \in Nat
  BY <1>3, <1>5, FS_CardinalityType
<1>10. Cardinality(A \cap B) = 0
  BY <1>6, <1>8
<1>11. Cardinality(A \cup B) = Cardinality(A) + Cardinality(B)
  BY <1>8, <1>9, <1>10
<1> QED BY <1>3, <1>5, <1>7, <1>11

(* What the fallback heap has given out is, block by block, either out or on exactly one
   list, the list of its size: alloc and dealloc never leak a block and never hold one
   twice, for every heap and all block sizes and layouts. *)
THEOREM BlocksAreConserved ==
  ASSUME SoundConstants PROVE BlockSpec => []Conserved
<1>1. BlockInv => Conserved
  <2> SUFFICES ASSUME BlockInv PROVE Conserved
    OBVIOUS
  <2>1. PICK L \in Lists : Linked(L)
    BY DEF BlockInv
  <2>2. Apart
    BY DEF BlockInv
  <2>3. Listed = OnLists(L)
    BY <2>1, <2>2, ListedAre
  <2>4. Cardinality(regions) = Cardinality(blocks) + Cardinality(Listed)
    BY <2>1, <2>2, <2>3, RegionsCount
  <2>5. regions = {Out(b) : b \in blocks} \cup {OnList(e) : e \in Listed}
    BY <2>1, <2>3 DEF Linked
  <2> QED BY <2>4, <2>5 DEF Conserved, Out, OnList
<1>2. BlockInit => BlockInv
  BY BlockInitInv
<1>3. BlockInv /\ [BlockNext]_blockVars => BlockInv'
  BY BlockStepKeeps
<1> QED BY <1>1, <1>2, <1>3, PTL DEF BlockSpec

-----------------------------------------------------------------------------
(* The allocator is a heap. *)

(* The blocks that are out are as GlobalAlloc promises. *)
Separate ==
  /\ \A b \in blocks : /\ b.ptr \in HEAP_START..((HEAP_START + HEAP_SIZE) - b.layout.size)
                    /\ b.ptr % b.layout.align = 0
  /\ \A b, c \in blocks : b # c => BlockHeap!Extent(b) \cap BlockHeap!Extent(c) = {}

(* The invariant keeps the blocks that are out apart. *)
LEMMA InvSeparates ==
  ASSUME SoundConstants, BlockInv PROVE Separate
<1>1. PICK L \in Lists : Linked(L)
  BY DEF BlockInv
<1>2. Apart
  BY DEF BlockInv
<1>3. ASSUME NEW b \in blocks
      PROVE  /\ b.ptr \in HEAP_START..((HEAP_START + HEAP_SIZE) - b.layout.size)
             /\ b.ptr % b.layout.align = 0
  <2>1. b.layout \in BlockLayouts /\ b.ptr \in Nat /\ b.ptr \in Cells
    BY <1>2, CellsAre DEF Apart
  <2>2. b.layout.size \in Nat \ {0} /\ b.ptr % Wanted(b.layout).align = 0
    BY <1>2, <2>1, Wants DEF Apart
  <2>3. b.ptr % b.layout.align = 0
    BY <2>1, <2>2, Wants
  <2>4. (b.ptr + b.layout.size) - 1 \in Cells
    <3>1. Span(b.ptr, b.layout.size) \subseteq Cells
      BY <1>1, <1>2, RegionOf DEF Apart
    <3>2. (b.ptr + b.layout.size) - 1 \in Span(b.ptr, b.layout.size)
      BY <2>1, <2>2 DEF Span
    <3> QED BY <3>1, <3>2
  <2>5. HEAP_START \in Nat /\ HEAP_SIZE \in Nat
    BY DEF SoundConstants
  <2>6. HEAP_START <= b.ptr /\ (b.ptr + b.layout.size) - 1 < HEAP_START + HEAP_SIZE
    BY <2>1, <2>4, CellsAre
  <2> QED BY <2>1, <2>2, <2>3, <2>5, <2>6
<1>4. ASSUME NEW b \in blocks, NEW c \in blocks, b # c
      PROVE  BlockHeap!Extent(b) \cap BlockHeap!Extent(c) = {}
  <2>1. /\ Span(b.ptr, b.layout.size) \subseteq Span(Out(b).start, Out(b).size)
        /\ Span(c.ptr, c.layout.size) \subseteq Span(Out(c).start, Out(c).size)
        /\ Out(b) \in regions /\ Out(c) \in regions
    BY <1>1, <1>2, RegionOf
  <2>2. Out(b).start # Out(c).start
    BY <1>2, <1>4 DEF Out, Apart
  <2>3. Span(Out(b).start, Out(b).size) \cap Span(Out(c).start, Out(c).size) = {}
    BY <1>1, <1>2, <2>1, <2>2, RegionOf
  <2>4. /\ BlockHeap!Extent(b) = Span(b.ptr, b.layout.size)
        /\ BlockHeap!Extent(c) = Span(c.ptr, c.layout.size)
    BY DEF BlockHeap!Extent, Span
  <2> QED BY <2>1, <2>3, <2>4
<1> QED BY <1>3, <1>4 DEF Separate

(* Every step of the allocator is a step of the abstract heap: what alloc gives out,
   fresh or from a list, is aligned as the layout asks, lies inside the heap and over
   no other block that is out. *)
THEOREM BlockAllocatorIsHeap ==
  ASSUME SoundConstants PROVE BlockSpec => BlockImplementsHeap
<1>1. BlockInit => BlockHeap!Init
  BY DEF BlockInit, BlockHeap!Init
<1>2. BlockInv => Separate
  BY InvSeparates
<1>3. BlockInv /\ Separate' /\ [BlockNext]_blockVars => [BlockHeap!Next]_blocks
  <2> SUFFICES ASSUME BlockInv, Separate', [BlockNext]_blockVars PROVE [BlockHeap!Next]_blocks
    OBVIOUS
  <2>1. ASSUME NEW l \in BlockLayouts, NEW p, [ptr |-> p, layout |-> l] \notin blocks,
               blocks' = blocks \cup {[ptr |-> p, layout |-> l]}
        PROVE  BlockHeap!Alloc(l)
    <3> DEFINE new == [ptr |-> p, layout |-> l]
    <3>1. new \in blocks' /\ new.ptr = p /\ new.layout = l
      BY <2>1
    <3>2. p \in HEAP_START..((HEAP_START + HEAP_SIZE) - l.size) /\ p % l.align = 0
      BY <3>1 DEF Separate
    <3>3. \A b \in blocks : BlockHeap!Extent(b) \cap BlockHeap!Extent(new) = {}
      BY <2>1, <3>1 DEF Separate
    <3> QED BY <2>1, <3>2, <3>3 DEF BlockHeap!Alloc
  <2>2. PICK L \in Lists : Linked(L)
    BY DEF BlockInv
  <2>3. ASSUME NEW l \in BlockLayouts, AllocFromList(l) PROVE BlockHeap!Alloc(l)
    <3> DEFINE i == list_index(l)
    <3>1. i \in Classes /\ list_heads[i] # Null
      BY <2>3, Wants DEF AllocFromList, HasFreeBlock
    <3>2. list_heads[i] = L[i][1] /\ 1 \in 1..Len(L[i])
      <4>1. Len(L[i]) \in Nat
        BY <3>1 DEF Lists
      <4>2. \A j \in Classes : list_heads[j] = IF Len(L[j]) = 0 THEN Null ELSE L[j][1]
        BY <2>2 DEF Linked
      <4>3. Len(L[i]) # 0 /\ list_heads[i] = L[i][1]
        BY <3>1, <4>2
      <4>4. \A n \in Nat : n # 0 => 1 \in 1..n
        OBVIOUS
      <4> HIDE DEF i
      <4> QED BY <4>1, <4>3, <4>4
    <3>3. \A b \in blocks : b.ptr # list_heads[i]
      BY <2>2, <3>1, <3>2 DEF Linked
    <3>4. blocks' = blocks \cup {[ptr |-> list_heads[i], layout |-> l]}
      BY <2>3 DEF AllocFromList, Give
    <3>5. [ptr |-> list_heads[i], layout |-> l].ptr = list_heads[i]
      OBVIOUS
    <3>6. [ptr |-> list_heads[i], layout |-> l] \notin blocks
      BY <3>3, <3>5
    <3> QED BY <2>1, <3>4, <3>6
  <2>4. ASSUME NEW l \in BlockLayouts, AllocFromFallback(l) PROVE BlockHeap!Alloc(l)
    <3> DEFINE fits == Fits(Wanted(l).size, Wanted(l).align)
               p == Min(fits)
    <3>1. fits # {} /\ fits \subseteq Nat
      BY <2>4, CellsAre DEF AllocFromFallback, FirstFit, Fits
    <3>2. p \in fits
      BY <3>1, MinOf
    <3>3. blocks' = blocks \cup {[ptr |-> p, layout |-> l]}
      BY <2>4 DEF AllocFromFallback, Give
    <3>4. p \notin GivenOut
      <4>1. p \in Nat /\ Rounded(Wanted(l).size) \in Nat \ {0}
        BY <3>1, <3>2, Wants
      <4>2. p \in Span(p, Rounded(Wanted(l).size))
        BY <4>1 DEF Span
      <4> QED BY <3>2, <4>2 DEF Fits
    <3>5. \A b \in blocks : b.ptr \in GivenOut
      BY <2>2, RegionOf DEF BlockInv, GivenOut
    <3> HIDE DEF p
    <3>6. [ptr |-> p, layout |-> l].ptr = p
      OBVIOUS
    <3>7. [ptr |-> p, layout |-> l] \notin blocks
      BY <3>4, <3>5, <3>6
    <3> QED BY <2>1, <3>3, <3>7
  <2>5. ASSUME NEW b \in blocks, DeallocToList(b) \/ DeallocToFallback(b) PROVE BlockHeap!Dealloc(b)
    BY <2>5 DEF DeallocToList, DeallocToFallback, BlockHeap!Dealloc
  <2>6. ASSUME NEW l \in BlockLayouts, BlockOutOfMemory(l) PROVE blocks' = blocks
    BY <2>6 DEF BlockOutOfMemory
  <2>7. CASE BlockHltLoop \/ UNCHANGED blockVars
    BY <2>7 DEF BlockHltLoop, blockVars
  <2> QED BY <2>3, <2>4, <2>5, <2>6, <2>7 DEF BlockNext, BlockHeap!Next
<1>4. BlockInit => BlockInv
  BY BlockInitInv
<1>5. BlockInv /\ [BlockNext]_blockVars => BlockInv'
  BY BlockStepKeeps
<1> QED BY <1>1, <1>2, <1>3, <1>4, <1>5, PTL DEF BlockSpec, BlockImplementsHeap, BlockHeap!Spec
=============================================================================
