-------------------------------- MODULE Heap --------------------------------
(***************************************************************************)
(* The kernel heap, LinkedListAllocator of kernel/src/memory/allocator.rs: *)
(* a first-fit free list kept in the free memory itself, extended by a     *)
(* fixed number of pages when no node fits.                                *)
(*                                                                         *)
(* A unit is 8 bytes, align_of::<Node>().  The caller holds the lock of    *)
(* the allocator during a whole operation, so operations do not interleave *)
(* with each other; one that extends the heap takes several steps.         *)
(***************************************************************************)
EXTENDS Integers, Sequences, FiniteSets

CONSTANTS PAGE_SIZE,        \* units per page
          PAGES_PER_EXTEND,
          INIT_HEAP_SIZE,   \* units
          Layouts,          \* the layouts callers ask for: size, align
          Frames,           \* bound: frames left for extending the heap
          MaxAllocated      \* bound: blocks allocated at a time

NodeSize == 2     \* size_of::<Node>()
HeapStart == 0    \* get_phy_offset_end() is page aligned
ExtendSize == PAGE_SIZE * PAGES_PER_EXTEND

ASSUME HeapAssumption ==
  /\ PAGE_SIZE \in Nat /\ PAGE_SIZE >= NodeSize
  /\ PAGES_PER_EXTEND \in Nat \ {0}
  /\ INIT_HEAP_SIZE \in Nat \ {0} /\ INIT_HEAP_SIZE % ExtendSize = 0
  /\ \A l \in Layouts : l.size \in Nat \ {0} /\ l.align \in Nat \ {0}
  /\ Frames \in Nat /\ MaxAllocated \in Nat

VARIABLES free,      \* the nodes from head.next on: start, size
          allocated, \* blocks handed out: start, size and the layout asked for
          heap_end,
          mapped,    \* numbers of the mapped pages of the heap
          frames,    \* frames left
          pc,        \* "idle", "find" in find_free_node, "merge" in extend_heap
          request,   \* the size and alignment being allocated
          merged,    \* extend_heap has combined nodes
          halted     \* why the kernel stopped: an assertion, a page fault

vars == <<free, allocated, heap_end, mapped, frames, pc, request, merged, halted>>
-----------------------------------------------------------------------------
align_up(a, n) == ((a + n - 1) \div n) * n
PageOf(addr) == addr \div PAGE_SIZE
End(block) == block.start + block.size
Units(block) == block.start .. End(block) - 1

\* LinkedListAllocator::size_align: padded to the alignment, at least a Node.
size_align(l) ==
  LET size == align_up(l.size, l.align)
  IN [size |-> IF size < NodeSize THEN NodeSize ELSE size, align |-> l.align]
NoRequest == [size |-> 0, align |-> 1]

\* Mutants of can_hold: the end of the node is not respected; a rest too small
\* for a node is accepted.
can_hold_past_end(node, r) ==
  LET end == align_up(node.start, r.align) + r.size
  IN End(node) - end <= 0 \/ End(node) - end >= NodeSize
can_hold_any_rest(node, r) ==
  align_up(node.start, r.align) + r.size <= End(node)

\* Node::can_hold: the aligned block fits and what is left after it is nothing
\* or enough for a node.
can_hold(node, r) ==
  LET end == align_up(node.start, r.align) + r.size
  IN end <= End(node) /\ (End(node) - end = 0 \/ End(node) - end >= NodeSize)

\* add_free_node: a node at the head of the list, written into the memory it
\* describes after an assertion on its size.
add_free_node(node, list) == <<node>> \o list
Outcome(node) ==
  IF node.size < NodeSize THEN "assertion"
  ELSE IF \E u \in node.start .. node.start + NodeSize - 1 : PageOf(u) \notin mapped
       THEN "page fault" ELSE "no"

\* init_heap maps the pages from the start to the end of the heap, both
\* included, and LinkedListAllocator::init makes one node of it.
Init ==
  /\ free = <<[start |-> HeapStart, size |-> INIT_HEAP_SIZE]>>
  /\ allocated = {}
  /\ heap_end = HeapStart + INIT_HEAP_SIZE
  /\ mapped = PageOf(HeapStart) .. PageOf(HeapStart + INIT_HEAP_SIZE)
  /\ frames = Frames
  /\ pc = "idle"
  /\ request = NoRequest
  /\ merged = FALSE
  /\ halted = "no"

\* alloc_mut is entered.
alloc_mut(l) ==
  /\ pc = "idle" /\ halted = "no"
  /\ Cardinality(allocated) < MaxAllocated
  /\ request' = size_align(l)
  /\ pc' = "find"
  /\ UNCHANGED <<free, allocated, heap_end, mapped, frames, merged, halted>>

Holding == {i \in DOMAIN free : can_hold(free[i], request)}
Without(i) == SubSeq(free, 1, i - 1) \o SubSeq(free, i + 1, Len(free))

\* The address can_hold returns; the mutant forgets the alignment.
AddressUnaligned(node) == node.start
Address(node) == align_up(node.start, request.align)

\* find_free_node takes the first node that can hold the request; alloc_mut
\* gives back what is left after the block, not the gap before it.
FindFreeNode ==
  /\ pc = "find" /\ halted = "no"
  /\ \E i \in Holding :
       LET addr == Address(free[i])
           rest == [start |-> addr + request.size,
                    size |-> End(free[i]) - (addr + request.size)]
       IN /\ \A j \in Holding : i <= j
          /\ allocated' = allocated \cup
               {[start |-> addr, size |-> request.size, align |-> request.align]}
          /\ free' = IF rest.size > 0 THEN add_free_node(rest, Without(i))
                     ELSE Without(i)
          /\ halted' = IF rest.size > 0 THEN Outcome(rest) ELSE "no"
  /\ pc' = "idle"
  /\ request' = NoRequest
  /\ UNCHANGED <<heap_end, mapped, frames, merged>>

\* The pages extend_heap maps, first to last.
start_page == PageOf(heap_end + PAGE_SIZE)
end_page == PageOf(heap_end + PAGE_SIZE * PAGES_PER_EXTEND)

Extending == (pc = "find" /\ Holding = {}) \/ pc = "idle"

\* Each page needs a frame.
EnoughFrames == end_page - start_page + 1 <= frames

\* extend_heap up to its merge loop: a frame for each page, a node over them.
ExtendHeap ==
  /\ Extending /\ halted = "no" /\ EnoughFrames
  /\ frames' = frames - (end_page - start_page + 1)
  /\ mapped' = mapped \cup (start_page .. end_page)
  /\ free' = add_free_node([start |-> start_page * PAGE_SIZE, size |-> ExtendSize], free)
  /\ pc' = "merge"
  /\ UNCHANGED <<allocated, heap_end, request, merged, halted>>

\* Mutant of ExtendFails: the error is ignored and the search tried again.
ExtendRetries ==
  /\ Extending /\ halted = "no" /\ ~EnoughFrames
  /\ frames' = 0
  /\ mapped' = mapped \cup (start_page .. start_page + frames - 1)
  /\ UNCHANGED <<free, allocated, heap_end, pc, request, merged, halted>>

\* Without enough frames the pages mapped so far stay mapped, extend_heap
\* returns an error and the allocation null.
ExtendFails ==
  /\ Extending /\ halted = "no" /\ ~EnoughFrames
  /\ frames' = 0
  /\ mapped' = mapped \cup (start_page .. start_page + frames - 1)
  /\ pc' = "idle"
  /\ request' = NoRequest
  /\ UNCHANGED <<free, allocated, heap_end, merged, halted>>

MoreToCombine == Len(free) >= 2 /\ free[2].size % ExtendSize = 0

\* One iteration of the merge loop: the size of the second node is added to
\* the first, the new one, and the second leaves the list.
CombineNodes ==
  /\ pc = "merge" /\ MoreToCombine
  /\ free' = <<[free[1] EXCEPT !.size = @ + free[2].size]>> \o SubSeq(free, 3, Len(free))
  /\ merged' = TRUE
  /\ UNCHANGED <<allocated, heap_end, mapped, frames, pc, request, halted>>

\* extend_heap returns; an allocation goes back to find_free_node.
FinishExtend ==
  /\ pc = "merge" /\ ~MoreToCombine
  /\ heap_end' = end_page * PAGE_SIZE + PAGE_SIZE
  /\ pc' = IF request = NoRequest THEN "idle" ELSE "find"
  /\ UNCHANGED <<free, allocated, mapped, frames, request, merged, halted>>

\* dealloc_mut of a block by its owner.
dealloc_mut(b) ==
  LET node == [start |-> b.start, size |-> b.size] IN
  /\ pc = "idle" /\ halted = "no"
  /\ b \in allocated
  /\ allocated' = allocated \ {b}
  /\ free' = add_free_node(node, free)
  /\ halted' = Outcome(node)
  /\ UNCHANGED <<heap_end, mapped, frames, pc, request, merged>>

Next ==
  \/ \E l \in Layouts : alloc_mut(l)
  \/ FindFreeNode
  \/ ExtendHeap
  \/ ExtendFails
  \/ CombineNodes
  \/ FinishExtend
  \/ \E b \in allocated : dealloc_mut(b)

Spec == Init /\ [][Next]_vars
\* An operation that has begun goes on: nothing in it waits.
Fairness ==
  /\ WF_vars(FindFreeNode) /\ WF_vars(pc = "find" /\ (ExtendHeap \/ ExtendFails))
  /\ WF_vars(CombineNodes) /\ WF_vars(FinishExtend)
FairSpec == Spec /\ Fairness
-----------------------------------------------------------------------------
(* Properties *)

Block == [start : Nat, size : Nat, align : Nat \ {0}]

\* The state has its type.
TypeOK ==
  /\ free \in Seq([start : Nat, size : Nat])
  /\ allocated \subseteq Block
  /\ heap_end \in Nat /\ mapped \subseteq Nat
  /\ frames \in 0 .. Frames
  /\ pc \in {"idle", "find", "merge"}
  /\ request \in [size : Nat, align : Nat \ {0}]
  /\ merged \in BOOLEAN /\ halted \in {"no", "assertion", "page fault"}

NodesDisjoint ==
  \A i, j \in DOMAIN free : i # j => Units(free[i]) \cap Units(free[j]) = {}
NodesMapped ==
  \A i \in DOMAIN free : \A u \in Units(free[i]) : PageOf(u) \in mapped

\* The state has its type, and as long as extend_heap has not combined nodes,
\* allocated blocks and free nodes are pairwise disjoint and all of them are in
\* mapped memory, through any order of allocations, frees and extensions.
Sound ==
  /\ TypeOK
  /\ ~merged =>
       /\ NodesDisjoint /\ NodesMapped
       /\ \A b \in allocated :
            /\ \A u \in Units(b) : PageOf(u) \in mapped
            /\ \A c \in allocated : b # c => Units(b) \cap Units(c) = {}
            /\ \A i \in DOMAIN free : Units(b) \cap Units(free[i]) = {}

\* The assertions of add_free_node never fire: can_hold never leaves a rest
\* too small for a node, combined nodes or not.
NeverPanics == halted # "assertion"

\* What a caller gets is aligned and is what it frees later: blocks keep the
\* alignment asked for however the node they were cut from began.
BlocksAligned == \A b \in allocated : b.start % b.align = 0 /\ b.size >= NodeSize

\* An allocation ends, with a block or with null, even if it extends the heap
\* again and again (find_free_node calls itself).
AllocReturns == pc = "find" ~> pc = "idle"

\* allocator.rs says that combining puts the extended nodes together: free
\* memory stays mapped memory, each unit in one node.
FreeListMapped == NodesDisjoint /\ NodesMapped
=============================================================================
