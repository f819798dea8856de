--------------------------- MODULE FrameAllocator ---------------------------
(***************************************************************************)
(* The physical frame allocator, RegionAllocator of                        *)
(* kernel/src/memory/frame_allocator.rs: a bitmap with one bit per frame,  *)
(* kept in one of the usable regions of the memory map it describes.       *)
(*                                                                         *)
(* Addresses and lengths count frames: limine aligns USABLE entries to     *)
(* 4096 bytes, so the align_up and align_down of the code do nothing to    *)
(* them, and a bit of the bitmap is named by its index row * 8 + col.      *)
(***************************************************************************)
EXTENDS Integers, Sequences, FiniteSets

CONSTANTS MemoryMap, \* mmap_request().entries(): base, length, usable
          PageSize   \* PAGE_SIZE, in bytes

Entries == DOMAIN MemoryMap
Usable == {i \in Entries : MemoryMap[i].usable}
FramesOf(i) == MemoryMap[i].base .. MemoryMap[i].base + MemoryMap[i].length - 1

\* The boot loader's promises: at least one usable entry, no empty one, usable
\* entries sorted and disjoint.
ASSUME MemoryMapType ==
  MemoryMap \in Seq([base : Nat, length : Nat \ {0}, usable : BOOLEAN])
ASSUME SomeUsable == Usable # {}
ASSUME UsableDisjoint ==
  \A i, j \in Usable : i < j =>
    MemoryMap[i].base + MemoryMap[i].length <= MemoryMap[j].base
ASSUME PageSizeAssumption == PageSize \in Nat \ {0}

VARIABLES bitmap, \* 0: free, 1: used
          owned   \* frames handed out by allocate_frame and not returned

vars == <<bitmap, owned>>
-----------------------------------------------------------------------------
(* RegionAllocator::new *)

first_usable_entry == CHOOSE i \in Usable : \A j \in Usable : i <= j
last_usable_entry == CHOOSE i \in Usable : \A j \in Usable : j <= i

frame_count ==
  MemoryMap[last_usable_entry].base + MemoryMap[last_usable_entry].length

\* align_up(frame_count, 8) / 8
bytes == (frame_count + 7) \div 8

\* The bits of the bitmap, including those past frame_count in the last byte.
Bits == 0 .. bytes * 8 - 1

\* The usable regions the bitmap fits in, and the one it is put in: the first
\* of the shortest.
Fitting == {i \in Usable : MemoryMap[i].length * PageSize >= bytes}
best_region ==
  CHOOSE i \in Fitting :
    \A j \in Fitting : \/ MemoryMap[i].length < MemoryMap[j].length
                       \/ MemoryMap[i].length = MemoryMap[j].length /\ i <= j

\* Mutant of search_from: the search starts in the last usable region.
search_from_last == MemoryMap[last_usable_entry].base

search_from == MemoryMap[first_usable_entry].base

\* Mutant of Toggled: an or.
ToggledNot(bit) == bit

\* set_unused is an exclusive or, set_used an or.
Toggled(bit) == 1 - bit

\* Mutant of InitialBit: the region of the bitmap is not set.
InitialBitUnset(f) == (1 + Cardinality({i \in Usable : f \in FramesOf(i)})) % 2

\* The bitmap that new returns: all ones, toggled once for each usable entry
\* a frame belongs to, then the whole region of the bitmap set.
InitialBit(f) ==
  IF f \in FramesOf(best_region) THEN 1
  ELSE (1 + Cardinality({i \in Usable : f \in FramesOf(i)})) % 2

\* new asserts that a region was found.
Init ==
  /\ Fitting # {}
  /\ bitmap = [f \in Bits |-> InitialBit(f)]
  /\ owned = {}
-----------------------------------------------------------------------------
(* search_for_free_frame, allocate_frame, deallocate_frame *)

FreeFrames == {f \in Bits : search_from <= f /\ bitmap[f] = 0}

\* search_for_free_frame: the lowest free frame from search_from on, which
\* never moves.
IsFirstFree(f) == f \in FreeFrames /\ \A g \in FreeFrames : f <= g

allocate_frame ==
  \E f \in Bits :
    /\ IsFirstFree(f)
    /\ bitmap' = [bitmap EXCEPT ![f] = 1]
    /\ owned' = owned \cup {f}

\* allocate_frame finds nothing and returns None.
allocate_none == FreeFrames = {} /\ UNCHANGED vars

\* deallocate_frame, called by the owner of the frame.
deallocate_frame(f) ==
  /\ f \in owned
  /\ bitmap' = [bitmap EXCEPT ![f] = Toggled(bitmap[f])]
  /\ owned' = owned \ {f}

Next ==
  \/ allocate_frame
  \/ allocate_none
  \/ \E f \in Bits : deallocate_frame(f)

Spec == Init /\ [][Next]_vars
-----------------------------------------------------------------------------
(* Properties *)

\* The frames that may be handed out: usable memory without the bitmap's own
\* region.
Pool == (UNION {FramesOf(i) : i \in Usable}) \ FramesOf(best_region)

\* The bitmap is a total function to bits and owners hold frames of memory.
TypeOK == bitmap \in [Bits -> {0, 1}] /\ owned \subseteq Bits

\* A bit is clear exactly for the frames of the pool that nobody owns: neither
\* reserved memory, nor the bitmap's region, nor the padding bits past the end
\* of memory are ever handed out, and no frame is lost.
BitmapExact ==
  owned \subseteq Pool /\ {f \in Bits : bitmap[f] = 0} = Pool \ owned

\* An allocation succeeds whenever a frame of the pool is free: the search
\* starts low enough to see all of them (search_from).
NothingOutOfReach == FreeFrames = {} => owned = Pool

\* The allocator implements the abstract frame pool.
FP == INSTANCE FramePool WITH free <- Pool \ owned, taken <- owned

\* Allocation and deallocation of the bitmap allocator are the Take and Return
\* of a pool of frames, each with at most one owner.
ImplementsFramePool == FP!Spec
=============================================================================
