-------------------------------- MODULE Heap --------------------------------
(***************************************************************************)
(* What GlobalAlloc promises: a block that is given out is aligned, lies   *)
(* inside the heap and over no other block that is out.                    *)
(***************************************************************************)
EXTENDS Integers

CONSTANTS HeapStart, HeapEnd,  \* the heap is HeapStart..(HeapEnd - 1)
          Layouts              \* the layouts asked for: [size, align]

VARIABLE live  \* the blocks that are out: [ptr, layout]

Extent(b) == b.ptr..(b.ptr + b.layout.size - 1)

Init == live = {}

Alloc(l) == \E p \in HeapStart..(HeapEnd - l.size) :
              LET new == [ptr |-> p, layout |-> l] IN
              /\ p % l.align = 0
              /\ \A b \in live : Extent(b) \cap Extent(new) = {}
              /\ live' = live \cup {new}

Dealloc(b) == live' = live \ {b}

Next == (\E l \in Layouts : Alloc(l)) \/ (\E b \in live : Dealloc(b))

Spec == Init /\ [][Next]_live
=============================================================================
