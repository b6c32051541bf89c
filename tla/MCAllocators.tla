---------------------------- MODULE MCAllocators ----------------------------
(***************************************************************************)
(* TLC instance of the two allocators, each against the contract of a      *)
(* heap.  In every behaviour one of them is in use.                        *)
(***************************************************************************)
EXTENDS BumpAllocator, BlockAllocator

VARIABLE global   \* the allocator in use

(* The bump allocator has a heap that starts off alignment. *)
MCLayouts == {[size |-> 1, align |-> 1], [size |-> 2, align |-> 2], [size |-> 3, align |-> 1],
              [size |-> 2, align |-> 4]}

(* The block allocator has three block sizes, layouts that share a class by size and by
   alignment, one that is too large for every class and one whose alignment is. *)
MCBlockSizes == <<1, 2, 4>>
MCBlockLayouts == {[size |-> 1, align |-> 1], [size |-> 2, align |-> 1], [size |-> 1, align |-> 2],
                   [size |-> 3, align |-> 1], [size |-> 5, align |-> 1], [size |-> 1, align |-> 8]}

ASSUME BlockSizesAssumption == SoundBlockSizes
ASSUME BlockConstantsAssumption == SoundConstants

MCInit == global \in {"bump", "block"} /\ Init /\ BlockInit

MCNext == /\ UNCHANGED global
          /\ \/ global = "bump" /\ Next /\ UNCHANGED blockVars
             \/ global = "block" /\ BlockNext /\ UNCHANGED vars

MCSpec == MCInit /\ [][MCNext]_<<global, vars, blockVars>>
=============================================================================
