---------------------------- MODULE BumpAllocator ----------------------------
(***************************************************************************)
(* The bump allocator (kernel/src/allocator/bump.rs).  Its callers free    *)
(* what they were given, once, as GlobalAlloc demands; an allocation that  *)
(* fails ends in the kernel's alloc_error_handler, which panics.           *)
(***************************************************************************)
EXTENDS Integers, FiniteSets

CONSTANTS heap_start, heap_size,
          Layouts  \* the layouts asked for: [size, align]; GlobalAlloc has no size 0

ASSUME HeapAssumption == heap_start \in Nat /\ heap_size \in Nat
ASSUME LayoutAssumption == \A l \in Layouts : l.size \in Nat \ {0} /\ l.align \in Nat \ {0}

VARIABLES next, allocations,  \* the fields of BumpAllocator
          live,               \* the blocks that are out: [ptr, layout]
          stopped             \* an allocation failed

vars == <<next, allocations, live, stopped>>

heap_end == heap_start + heap_size

(* The code clears the low bits of addr + align - 1; an alignment is a power
   of two, so that this rounds down to a multiple of it. *)
align_up(addr, align) == ((addr + align - 1) \div align) * align

Init == next = heap_start /\ allocations = 0 /\ live = {} /\ stopped = FALSE

alloc_start(l) == align_up(next, l.align)
alloc_end(l) == alloc_start(l) + l.size

Alloc(l) == /\ ~stopped /\ alloc_end(l) <= heap_end
            /\ next' = alloc_end(l)
            /\ allocations' = allocations + 1
            /\ live' = live \cup {[ptr |-> alloc_start(l), layout |-> l]}
            /\ UNCHANGED stopped

(* Mutant: the failure is counted as well. *)
OutOfMemoryCounted(l) == /\ ~stopped /\ alloc_end(l) > heap_end
                         /\ stopped' = TRUE /\ allocations' = allocations + 1
                         /\ UNCHANGED <<next, live>>

(* alloc returns null: alloc_error_handler.  A sum beyond usize, for which
   checked_add returns None, is beyond the heap as well. *)
OutOfMemory(l) == /\ ~stopped /\ alloc_end(l) > heap_end
                  /\ stopped' = TRUE
                  /\ UNCHANGED <<next, allocations, live>>

(* Mutant: the heap starts over when one block is left. *)
DeallocEarly(b) == /\ ~stopped /\ b \in live
                   /\ live' = live \ {b}
                   /\ allocations' = allocations - 1
                   /\ next' = IF allocations = 2 THEN heap_start ELSE next
                   /\ UNCHANGED stopped

Dealloc(b) == /\ ~stopped /\ b \in live
              /\ live' = live \ {b}
              /\ allocations' = allocations - 1
              /\ next' = IF allocations' = 0 THEN heap_start ELSE next
              /\ UNCHANGED stopped

HltLoop == stopped /\ UNCHANGED vars

Next == \/ \E l \in Layouts : Alloc(l) \/ OutOfMemory(l)
        \/ \E b \in live : Dealloc(b)
        \/ HltLoop

Spec == Init /\ [][Next]_vars

-----------------------------------------------------------------------------
(* Properties. *)

TypeOK == /\ next \in heap_start..heap_end /\ allocations \in Nat
          /\ live \in SUBSET [ptr : heap_start..heap_end, layout : Layouts]
          /\ stopped \in BOOLEAN

(* The count that decides when the heap starts over is the number of blocks that
   are out: failed allocations are not counted, and it never falls below zero. *)
CountsLiveBlocks == allocations = Cardinality(live)

(* The bump allocator is a heap: in particular, starting over never gives out
   memory that is in use. *)
Abstract == INSTANCE Heap WITH HeapStart <- heap_start, HeapEnd <- heap_end
ImplementsHeap == Abstract!Spec
=============================================================================
