--------------------------- MODULE BlockAllocator ---------------------------
(***************************************************************************)
(* The kernel's global allocator                                           *)
(* (kernel/src/allocator/fixed_size_block.rs): lists of free blocks, one   *)
(* per block size, over linked_list_allocator::Heap.                       *)
(*                                                                         *)
(* Memory is counted in cells of the size of a pointer.  A free block      *)
(* holds the pointer to the next one in its first cell; the owner of a     *)
(* block writes what it likes to all of its cells.                         *)
(***************************************************************************)
EXTENDS Integers, Sequences, FiniteSets, FiniteSetsExt

CONSTANTS HEAP_START, HEAP_SIZE,
          BLOCK_SIZES,  \* in cells: 8 bytes are 1
          MinHole,      \* the least the fallback heap gives out: 16 bytes
          BlockLayouts, \* the layouts asked for: [size, align]
          Null, Data    \* the end of a list; anything else in a cell

Classes == 1..Len(BLOCK_SIZES)

(* "The sizes must each be power of 2", and they increase: `position` takes the
   first that is large enough. *)
SoundBlockSizes ==
  /\ \A i \in Classes : \E k \in 0..BLOCK_SIZES[i] : BLOCK_SIZES[i] = 2^k
  /\ \A i, j \in Classes : i < j => BLOCK_SIZES[i] < BLOCK_SIZES[j]

VARIABLES list_heads,  \* the first free block of each class, or Null
          mem,         \* the content of the cells
          regions,     \* what the fallback heap has given out: [start, size]
          blocks,      \* the blocks that are out: [ptr, layout]
          failed       \* an allocation failed

blockVars == <<list_heads, mem, regions, blocks, failed>>

Cells == HEAP_START..(HEAP_START + HEAP_SIZE - 1)
Span(start, size) == start..(start + size - 1)

(* The rest of what the constants are.  Alignments are powers of two as the block
   sizes are, so that the smaller of the two divides the larger; a pointer is a cell,
   and neither Null nor Data is one. *)
SoundConstants ==
  /\ HEAP_START \in Nat /\ HEAP_SIZE \in Nat /\ MinHole \in Nat \ {0}
  /\ BLOCK_SIZES \in Seq(Nat \ {0})
  /\ \A l \in BlockLayouts : l.size \in Nat \ {0} /\ l.align \in Nat \ {0}
  /\ \A l \in BlockLayouts, i \in Classes :
       l.align <= BLOCK_SIZES[i] => BLOCK_SIZES[i] % l.align = 0
  /\ Null \notin Cells /\ Data \notin Cells /\ Null # Data

-----------------------------------------------------------------------------
(* linked_list_allocator::Heap (external). *)

GivenOut == UNION {Span(r.start, r.size) : r \in regions}
Rounded(size) == Max({size, MinHole})

(* It keeps no hole smaller than a hole's header. *)
NoSliver(free) ==
  \A c \in free : \E s \in (c - MinHole + 1)..c : Span(s, MinHole) \subseteq free

Fits(size, align) ==
  {p \in Cells : /\ p % align = 0
                 /\ Span(p, Rounded(size)) \subseteq Cells \ GivenOut
                 /\ NoSliver((Cells \ GivenOut) \ Span(p, Rounded(size)))}

FirstFit(size, align) ==
  /\ Fits(size, align) # {}
  /\ regions' = regions \cup {[start |-> Min(Fits(size, align)), size |-> Rounded(size)]}

-----------------------------------------------------------------------------
(* list_index: the smallest block that has room for the layout; 0 is None. *)
list_index(l) ==
  LET fitting == {i \in Classes : BLOCK_SIZES[i] >= Max({l.size, l.align})}
  IN  IF fitting = {} THEN 0 ELSE Min(fitting)

(* What alloc asks the fallback heap for. *)
Wanted(l) == IF list_index(l) = 0 THEN l
             ELSE [size |-> BLOCK_SIZES[list_index(l)], align |-> BLOCK_SIZES[list_index(l)]]

HasFreeBlock(l) == list_index(l) # 0 /\ list_heads[list_index(l)] # Null

BlockInit == /\ list_heads = [i \in Classes |-> Null]
             /\ mem = [c \in Cells |-> Data]
             /\ regions = {} /\ blocks = {} /\ failed = FALSE

(* The block goes to its owner, who fills it. *)
Give(p, l) == /\ blocks' = blocks \cup {[ptr |-> p, layout |-> l]}
              /\ mem' = [c \in Cells |-> IF c \in Span(p, l.size) THEN Data ELSE mem[c]]

(* Mutant: the block stays on the list. *)
AllocKeepsHead(l) == /\ ~failed /\ HasFreeBlock(l)
                     /\ Give(list_heads[list_index(l)], l)
                     /\ UNCHANGED <<list_heads, regions, failed>>

(* alloc takes the head of the list. *)
AllocFromList(l) ==
  LET i == list_index(l)  node == list_heads[i] IN
  /\ ~failed /\ HasFreeBlock(l)
  /\ list_heads' = [list_heads EXCEPT ![i] = mem[node]]
  /\ Give(node, l)
  /\ UNCHANGED <<regions, failed>>

(* Mutant: the block is as large as the layout, not as its class. *)
AllocExactFit(l) ==
  /\ ~failed /\ ~HasFreeBlock(l)
  /\ FirstFit(l.size, l.align)
  /\ Give(Min(Fits(l.size, l.align)), l)
  /\ UNCHANGED <<list_heads, failed>>

(* alloc makes a new block, or passes a large layout on. *)
AllocFromFallback(l) ==
  LET want == Wanted(l) IN
  /\ ~failed /\ ~HasFreeBlock(l)
  /\ FirstFit(want.size, want.align)
  /\ Give(Min(Fits(want.size, want.align)), l)
  /\ UNCHANGED <<list_heads, failed>>

(* alloc returns null: alloc_error_handler. *)
BlockOutOfMemory(l) == /\ ~failed /\ ~HasFreeBlock(l)
                       /\ Fits(Wanted(l).size, Wanted(l).align) = {}
                       /\ failed' = TRUE
                       /\ UNCHANGED <<list_heads, mem, regions, blocks>>

(* Mutant: the new head does not point to the old one. *)
DeallocDropsList(b) ==
  LET i == list_index(b.layout) IN
  /\ ~failed /\ b \in blocks /\ i # 0
  /\ mem' = [mem EXCEPT ![b.ptr] = Null]
  /\ list_heads' = [list_heads EXCEPT ![i] = b.ptr]
  /\ blocks' = blocks \ {b}
  /\ UNCHANGED <<regions, failed>>

(* dealloc makes the block the head of its list. *)
DeallocToList(b) ==
  LET i == list_index(b.layout) IN
  /\ ~failed /\ b \in blocks /\ i # 0
  /\ mem' = [mem EXCEPT ![b.ptr] = list_heads[i]]
  /\ list_heads' = [list_heads EXCEPT ![i] = b.ptr]
  /\ blocks' = blocks \ {b}
  /\ UNCHANGED <<regions, failed>>

(* dealloc gives a large block back. *)
DeallocToFallback(b) ==
  /\ ~failed /\ b \in blocks /\ list_index(b.layout) = 0
  /\ regions' = regions \ {[start |-> b.ptr, size |-> Rounded(b.layout.size)]}
  /\ blocks' = blocks \ {b}
  /\ UNCHANGED <<list_heads, mem, failed>>

BlockHltLoop == failed /\ UNCHANGED blockVars

BlockNext == \/ \E l \in BlockLayouts : AllocFromList(l) \/ AllocFromFallback(l) \/ BlockOutOfMemory(l)
             \/ \E b \in blocks : DeallocToList(b) \/ DeallocToFallback(b)
             \/ BlockHltLoop

BlockSpec == BlockInit /\ [][BlockNext]_blockVars

-----------------------------------------------------------------------------
(* Properties. *)

(* The n-th block of list i, reached through the memory. *)
Node(i) ==
  LET Follow(p) == IF p \in Cells THEN mem[p] ELSE p
      node[n \in 0..HEAP_SIZE] ==
        IF n = 0 THEN list_heads[i] ELSE Follow(node[n - 1])
  IN  node
Nodes(i) == {Node(i)[n] : n \in 0..HEAP_SIZE} \ {Null}

(* What the allocator has to give out again: the blocks on its lists. *)
Listed == {e \in Classes \X Cells : e[2] \in Nodes(e[1])}

(* Every list ends, after blocks that are all intact: no owner's data is ever
   taken for a pointer, and no list runs in a circle; nor is a pointer ever written
   into a block that is out. *)
ListsSound == /\ \A i \in Classes : Node(i)[HEAP_SIZE] = Null /\ Nodes(i) \subseteq Cells
              /\ \A b \in blocks : \A c \in Span(b.ptr, b.layout.size) : mem[c] = Data

(* No memory leaks and none is held twice: what the fallback heap has given out
   is, block by block, either out or on exactly one list, the list of its
   size. *)
Conserved ==
  LET Out(b) == [start |-> b.ptr, size |-> Rounded(Wanted(b.layout).size)]
      OnList(e) == [start |-> e[2], size |-> Rounded(BLOCK_SIZES[e[1]])]
  IN  /\ regions = {Out(b) : b \in blocks} \cup {OnList(e) : e \in Listed}
      /\ Cardinality(regions) = Cardinality(blocks) + Cardinality(Listed)

(* The allocator is a heap: blocks come back from the lists aligned and large
   enough for whatever layout of the class is asked for next. *)
BlockHeap == INSTANCE Heap WITH HeapStart <- HEAP_START, HeapEnd <- HEAP_START + HEAP_SIZE,
                                Layouts <- BlockLayouts, live <- blocks
BlockImplementsHeap == BlockHeap!Spec
=============================================================================
