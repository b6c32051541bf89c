----------------------------- MODULE BootMemory -----------------------------
(***************************************************************************)
(* Memory at boot (init_memory in kernel/src/main.rs): the frame allocator *)
(* over the bootloader's memory map (kernel/src/allocator/memory.rs) and   *)
(* prepare_pages, which maps the heap and then the code heap page by page. *)
(***************************************************************************)
EXTENDS Integers, Sequences, SequencesExt

CONSTANTS PageSize,    \* bytes in a page and in a frame (4096)
          memory_map,  \* the regions: [start, end, usable], in bytes
          Areas,       \* the arguments of prepare_pages, in order: [start, size]
          MaxTables    \* the most page tables one map_to may have to create (3)

ASSUME PageSizeAssumption == PageSize \in Nat \ {0}
ASSUME MaxTablesAssumption == MaxTables \in Nat
ASSUME AreasAssumption ==
  /\ Areas \in Seq([start : Nat, size : Nat \ {0}])
  /\ Len(Areas) > 0

VARIABLES next,     \* BootInfoFrameAllocator::next
          area,     \* the call of prepare_pages under way
          page,     \* the next page of its range
          mapping,  \* the pages mapped so far: [page, frame]
          tables,   \* the frames that became page tables
          stopped   \* a frame was missing: init_memory panics

vars == <<next, area, page, mapping, tables, stopped>>

(* containing_address, of a page and of a frame. *)
Containing(addr) == addr \div PageSize

(* The frames of a region: from its start in steps of a page. *)
FramesOf(r) == [k \in 1..((r.end - r.start + PageSize - 1) \div PageSize) |->
                  Containing(r.start + (k - 1) * PageSize)]

(* Mutant: reserved regions are handed out as well. *)
all_frames == FlattenSeq([i \in DOMAIN memory_map |-> FramesOf(memory_map[i])])

(* The frames of the usable regions, in order; the others have none to give. *)
usable_frames ==
  FlattenSeq([i \in DOMAIN memory_map |->
                IF memory_map[i].usable THEN FramesOf(memory_map[i]) ELSE <<>>])

(* "All frames that are marked as USABLE in it are really unused": in particular,
   none is marked by two regions. *)
ASSUME MapAssumption ==
  /\ memory_map \in Seq([start : Nat, end : Nat, usable : BOOLEAN])
  /\ \A i, j \in DOMAIN memory_map :
       i # j /\ memory_map[i].usable /\ memory_map[j].usable =>
         \A a \in memory_map[i].start..(memory_map[i].end - 1),
            b \in memory_map[j].start..(memory_map[j].end - 1) : Containing(a) # Containing(b)

first_page(a) == Containing(a.start)
last_page(a) == Containing(a.start + a.size - 1)

(* How often allocate_frame will still return a frame: the k-th next call returns
   Nth(k). *)
Left == Len(usable_frames) - next
Nth(k) == usable_frames[next + k]

Init == /\ next = 0 /\ area = 1 /\ page = first_page(Areas[1])
        /\ mapping = {} /\ tables = {} /\ stopped = FALSE

Preparing == ~stopped /\ area <= Len(Areas) /\ page <= last_page(Areas[area])

(* Mutant: the frame is not counted when a page table takes the next one. *)
MapPageReusing(n) ==
  /\ Preparing /\ Left >= n + 1
  /\ mapping' = mapping \cup {[page |-> page, frame |-> Nth(1)]}
  /\ tables' = tables \cup {Nth(k) : k \in 1..n}
  /\ next' = next + 1
  /\ page' = page + 1
  /\ UNCHANGED <<area, stopped>>

(* The body of the loop: a frame for the page, then map_to (external), which
   takes frames for the n page tables that are missing on the way. *)
MapPage(n) ==
  /\ Preparing /\ Left >= n + 1
  /\ mapping' = mapping \cup {[page |-> page, frame |-> Nth(1)]}
  /\ tables' = tables \cup {Nth(1 + k) : k \in 1..n}
  /\ next' = next + 1 + n
  /\ page' = page + 1
  /\ UNCHANGED <<area, stopped>>

(* The frames run out, for the page or for one of its tables.  allocate_frame
   counts the failed call too; the tables it had frames for stay. *)
FrameAllocationFailed(n) ==
  /\ Preparing /\ Left < n + 1
  /\ tables' = tables \cup {Nth(1 + k) : k \in 1..(Left - 1)}
  /\ next' = Len(usable_frames) + 1
  /\ stopped' = TRUE
  /\ UNCHANGED <<area, page, mapping>>

(* Mutant: the range ends before its last page. *)
AreaReadyEarly ==
  /\ ~stopped /\ area <= Len(Areas) /\ page >= last_page(Areas[area])
  /\ area' = area + 1
  /\ page' = IF area < Len(Areas) THEN first_page(Areas[area + 1]) ELSE page
  /\ UNCHANGED <<next, mapping, tables, stopped>>

(* prepare_pages returns; the heap on the area is initialised. *)
AreaReady ==
  /\ ~stopped /\ area <= Len(Areas) /\ page > last_page(Areas[area])
  /\ area' = area + 1
  /\ page' = IF area < Len(Areas) THEN first_page(Areas[area + 1]) ELSE page
  /\ UNCHANGED <<next, mapping, tables, stopped>>

(* The kernel goes on, or has panicked. *)
Done == (stopped \/ area > Len(Areas)) /\ UNCHANGED vars

Next == \/ \E n \in 0..MaxTables : MapPage(n) \/ FrameAllocationFailed(n)
        \/ AreaReady
        \/ Done

Spec == Init /\ [][Next]_vars

-----------------------------------------------------------------------------
(* Properties. *)

(* The usable regions consist of whole frames. *)
PageAligned ==
  \A i \in DOMAIN memory_map : memory_map[i].usable =>
    memory_map[i].start % PageSize = 0 /\ memory_map[i].end % PageSize = 0

(* allocate_frame gives out no frame twice: no two pages share one, over both
   heaps, and no page lies over a page table. *)
FramesOnce == /\ \A m, o \in mapping : m.frame = o.frame => m = o
              /\ \A m \in mapping : m.frame \notin tables

(* Only memory that the bootloader left unused is overwritten: each frame lies
   within a usable region. *)
FramesUnused ==
  \A f \in {m.frame : m \in mapping} \cup tables :
    \E i \in DOMAIN memory_map :
      /\ memory_map[i].usable
      /\ memory_map[i].start <= f * PageSize /\ (f + 1) * PageSize <= memory_map[i].end

(* A heap is used only when every byte of it is mapped, whatever failed before. *)
AreasMapped ==
  \A i \in 1..(area - 1) :
    \A addr \in Areas[i].start..(Areas[i].start + Areas[i].size - 1) :
      \E m \in mapping : m.page = Containing(addr)
=============================================================================
