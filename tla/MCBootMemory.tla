---------------------------- MODULE MCBootMemory ----------------------------
(* TLC instance of BootMemory: pages of four bytes, two heaps of three pages, and
   frames for some of the ways to build the page tables. *)
EXTENDS BootMemory

MCMap == <<[start |-> 0, end |-> 8, usable |-> TRUE], [start |-> 8, end |-> 12, usable |-> FALSE],
           [start |-> 12, end |-> 32, usable |-> TRUE], [start |-> 32, end |-> 40, usable |-> FALSE],
           [start |-> 40, end |-> 64, usable |-> TRUE]>>
MCAreas == <<[start |-> 100, size |-> 12], [start |-> 200, size |-> 12]>>

ASSUME AlignedAssumption == PageAligned
=============================================================================
