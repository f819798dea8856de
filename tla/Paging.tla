------------------------------- MODULE Paging -------------------------------
(***************************************************************************)
(* The page tables of kernel/src/memory/paging.rs over the frame bitmap:   *)
(* map_to, allocate_pml4 and PageTable::free as the kernel uses them for   *)
(* the heap (shared higher half), for the local APIC's registers, which    *)
(* send_eoi maps into whatever table cr3 holds at every interrupt, and for *)
(* the ACPI tables, which the shell's shutdown command maps read-only.     *)
(*                                                                         *)
(* A table is kept in the frame it occupies.  EntryCount and               *)
(* HIGHER_HALF_ENTRY are 512 and 256 in the code; a page is the sequence   *)
(* of its four table indices, level 4 first (translate, p4_index ..        *)
(* p1_index).                                                              *)
(***************************************************************************)
EXTENDS Integers, Sequences, FiniteSets

CONSTANTS FrameCount,        \* bound: frames 0 .. FrameCount - 1 have a bit
          EntryCount,        \* ENTRY_COUNT
          HIGHER_HALF_ENTRY,
          HeapPages,         \* the pages of the heap, in order of mapping
          LapicPage,         \* the page of the local APIC's registers
          AcpiPage,          \* the page of the ACPI tables
          MaxRoots           \* bound: processes alive at a time

Indices == 0 .. EntryCount - 1
Frames == 0 .. FrameCount - 1
BootRoot == 0                 \* the boot loader's pml4
\* Reserved memory, which the bitmap has as used from the start.
LapicFrame == FrameCount - 1
AcpiFrame == FrameCount - 2
Pages == Indices \X Indices \X Indices \X Indices

ASSUME PagingAssumption ==
  /\ EntryCount \in Nat /\ HIGHER_HALF_ENTRY \in 1 .. EntryCount - 1
  /\ FrameCount \in Nat /\ FrameCount > 3
  /\ MaxRoots \in Nat
  /\ HeapPages \in Seq(Pages) /\ HeapPages # <<>>
  /\ \A i \in DOMAIN HeapPages : /\ HeapPages[i][1] >= HIGHER_HALF_ENTRY
                                 /\ HeapPages[i][1] = HeapPages[1][1]
  /\ \A i, j \in DOMAIN HeapPages : HeapPages[i] = HeapPages[j] => i = j

\* The identity mapped pages have 32 bit addresses (read_msr & 0xFFFFF000,
\* rsdt_addr and the entries of the RSDT), so that their level 4 and level 3
\* indices are small; the APIC's registers are at 0xFEE00000, in the upper half
\* of its level 2 table.
ASSUME IdentityAssumption ==
  /\ LapicPage \in Pages /\ AcpiPage \in Pages
  /\ \A p \in {LapicPage, AcpiPage} : /\ p[1] < HIGHER_HALF_ENTRY
                                      /\ p[2] < HIGHER_HALF_ENTRY
  /\ LapicPage[3] >= HIGHER_HALF_ENTRY

VARIABLES bitmap,   \* the frame allocator's bitmap, 1: used
          mem,      \* the page table in each frame
          cr3,      \* frame of the current pml4
          roots,    \* frames of the pml4s of processes that were not freed
          heap,     \* number of heap pages mapped so far
          panicked  \* the kernel has panicked and halted

vars == <<bitmap, mem, cr3, roots, heap, panicked>>

\* Entry: not present, or an address and the WRITABLE flag.
None == -1
NoEntry == [frame |-> None, writable |-> FALSE]
EntryTo(f, w) == [frame |-> f, writable |-> w]
Zeroized == [i \in Indices |-> NoEntry]
is_mapped(e) == e.frame # None
-----------------------------------------------------------------------------
(* Operators on a memory state s: bitmap, mem, the table walked to (at) and  *)
(* whether an allocation has failed.                                         *)

Memory == [bitmap |-> bitmap, mem |-> mem, at |-> cr3, ok |-> TRUE]

FreeIn(s) == {f \in Frames : s.bitmap[f] = 0}
FirstFree(s) == CHOOSE f \in FreeIn(s) : \A g \in FreeIn(s) : f <= g

\* The flags of a present entry are added to, never dropped; the mutant sets
\* them.
SetFlags(e, writable) == EntryTo(e.frame, writable)
AddFlags(e, writable) == EntryTo(e.frame, e.writable \/ writable)

\* A new table is zeroized; the mutant keeps what the frame held.
NewTableDirty(s, f) == s.mem[f]
NewTable(s, f) == Zeroized

\* The outcomes of Entry::map on entry i of the table at s.at: no frame; a
\* present entry gets the flags added; another one a new zeroized table.  s.at
\* becomes the table the entry maps to.
Failed(s) == [s EXCEPT !.ok = FALSE]
EnterTable(s, i, writable) ==
  LET e == s.mem[s.at][i]
  IN [s EXCEPT !.mem[s.at][i] = AddFlags(e, writable), !.at = e.frame]
EnterNewTable(s, i, writable) ==
  LET f == FirstFree(s)
  IN [s EXCEPT !.bitmap[f] = 1,
               !.mem[f] = NewTable(s, f),
               !.mem[s.at][i] = EntryTo(f, writable),
               !.at = f]
Entry_map(s, i, writable) ==
  CASE ~s.ok -> s
    [] s.ok /\ is_mapped(s.mem[s.at][i]) -> EnterTable(s, i, writable)
    [] s.ok /\ ~is_mapped(s.mem[s.at][i]) /\ FreeIn(s) = {} -> Failed(s)
    [] s.ok /\ ~is_mapped(s.mem[s.at][i]) /\ FreeIn(s) # {} -> EnterNewTable(s, i, writable)

\* PageTable::map_to on the pml4 in frame root.
map_to(s, root, page, frame, writable) ==
  LET s3 == Entry_map([s EXCEPT !.at = root], page[1], writable)
      s2 == Entry_map(s3, page[2], writable)
      s1 == Entry_map(s2, page[3], writable)
  IN IF s1.ok THEN [s1 EXCEPT !.mem[s1.at][page[4]] = EntryTo(frame, writable)]
     ELSE s1

\* allocate_frame then map_to with PRESENT | WRITABLE, as init_heap and
\* extend_heap do for each of their pages.
MapHeapPage(s, root, page) ==
  LET f == FirstFree(s)
  IN IF FreeIn(s) = {} THEN Failed(s)
     ELSE map_to([s EXCEPT !.bitmap[f] = 1], root, page, f, TRUE)

\* copy_higher_half of the current table into a zeroized one; the mutant is off
\* by one.
copy_above_half(s) ==
  [i \in Indices |-> IF i > HIGHER_HALF_ENTRY THEN s.mem[cr3][i] ELSE NoEntry]
copy_higher_half(s) ==
  [i \in Indices |-> IF i >= HIGHER_HALF_ENTRY THEN s.mem[cr3][i] ELSE NoEntry]

\* allocate_pml4: a zeroized table with the current higher half.
allocate_pml4(s) ==
  LET f == FirstFree(s)
  IN IF FreeIn(s) = {} THEN Failed(s)
     ELSE [s EXCEPT !.bitmap[f] = 1,
                    !.mem[f] = copy_higher_half(s),
                    !.at = f]

\* Mutants of VisitedBy: all entries are freed; one too few.
VisitedByFewer(tables) ==
  {mem[t][i].frame : t \in tables, i \in 0 .. HIGHER_HALF_ENTRY - 2} \ {None}
VisitedByAll(tables) == {mem[t][i].frame : t \in tables, i \in Indices} \ {None}

\* The frames the entries that PageTable::free visits point to: the lower half
\* of the entries, at every level.
VisitedBy(tables) ==
  {mem[t][i].frame : t \in tables, i \in 0 .. HIGHER_HALF_ENTRY - 1} \ {None}

\* The tables PageTable::free(4) visits at each level, and the frames level 1
\* tables map, for which it calls Entry::free(0).
Visited(root) ==
  LET level3 == VisitedBy({root})
      level2 == VisitedBy(level3)
      level1 == VisitedBy(level2)
  IN [tables |-> {root} \cup level3 \cup level2 \cup level1,
      frames |-> VisitedBy(level1)]

\* Entry::free(0) deallocates the frame and goes on to PageTable::free(0),
\* which takes the frame for a table: its first nonzero word makes level - 1
\* overflow, a panic; without one, it deallocates the frame a second time.
Panics(root) == AcpiFrame \in Visited(root).frames
-----------------------------------------------------------------------------
(* init_heap maps the first heap page in the boot table, before any process  *)
(* exists.                                                                   *)
Init ==
  LET s0 == [bitmap |-> [f \in Frames |-> IF f \in {BootRoot, AcpiFrame, LapicFrame} THEN 1 ELSE 0],
             mem |-> [f \in Frames |-> Zeroized], at |-> BootRoot, ok |-> TRUE]
      s == MapHeapPage(s0, BootRoot, HeapPages[1])
  IN /\ s.ok
     /\ bitmap = s.bitmap /\ mem = s.mem
     /\ cr3 = BootRoot
     /\ roots = {}
     /\ heap = 1
     /\ panicked = FALSE

Commit(s) == bitmap' = s.bitmap /\ mem' = s.mem

\* Process::create: allocate_pml4().unwrap().
CreateRoot ==
  LET s == allocate_pml4(Memory) IN
  /\ ~panicked /\ Cardinality(roots) < MaxRoots
  /\ Commit(s)
  /\ roots' = IF s.ok THEN roots \cup {s.at} ELSE roots
  /\ panicked' = ~s.ok
  /\ UNCHANGED <<cr3, heap>>

\* send_eoi of a timer or keyboard interrupt: identity_map_writeable of the
\* APIC's page in the current table, with an unwrap.
SendEoi ==
  LET s == map_to(Memory, cr3, LapicPage, LapicFrame, TRUE) IN
  /\ ~panicked
  /\ Commit(s)
  /\ panicked' = ~s.ok
  /\ UNCHANGED <<cr3, roots, heap>>

\* power::shutdown reads the ACPI tables, mapped by identity_map_present, and
\* returns when the machine does not switch off.
MapAcpi ==
  LET s == map_to(Memory, cr3, AcpiPage, AcpiFrame, FALSE) IN
  /\ ~panicked
  /\ Commit(s)
  /\ panicked' = ~s.ok
  /\ UNCHANGED <<cr3, roots, heap>>

\* extend_heap maps its pages in the current table; it only reports failure.
ExtendHeap ==
  LET s == MapHeapPage(Memory, cr3, HeapPages[heap + 1]) IN
  /\ ~panicked /\ heap < Len(HeapPages)
  /\ Commit(s)
  /\ heap' = IF s.ok THEN heap + 1 ELSE heap
  /\ UNCHANGED <<cr3, roots, panicked>>

\* restore_cpu_status loads the cr3 of a process.
LoadCr3(root) ==
  /\ ~panicked
  /\ root \in roots
  /\ cr3' = root
  /\ UNCHANGED <<bitmap, mem, roots, heap, panicked>>

\* switch never frees the process on the CPU (Scheduler: RunnerNotFreed).
Freeable == roots \ {cr3}

\* Process::free of a process that is not on the CPU: PageTable::free(4).  Each
\* deallocation is an exclusive or, so that the two of a mapped frame cancel.
FreeRoot(root) ==
  /\ ~panicked
  /\ root \in Freeable
  /\ panicked' = Panics(root)
  /\ bitmap' = [f \in Frames |->
                  IF f \in IF Panics(root) THEN {AcpiFrame} ELSE Visited(root).tables
                  THEN 1 - bitmap[f] ELSE bitmap[f]]
  /\ roots' = roots \ {root}
  /\ UNCHANGED <<mem, cr3, heap>>

Next ==
  \/ CreateRoot
  \/ SendEoi
  \/ MapAcpi
  \/ ExtendHeap
  \/ \E root \in Frames : LoadCr3(root) \/ FreeRoot(root)

Spec == Init /\ [][Next]_vars
-----------------------------------------------------------------------------
(* Properties *)

LiveRoots == roots \cup {BootRoot}
PointedToBy(tables) == {mem[t][i].frame : t \in tables, i \in Indices} \ {None}

\* The table frames and the mapped frames of an address space.
TablesOf(root) ==
  LET l3 == PointedToBy({root})
      l2 == PointedToBy(l3)
  IN {root} \cup l3 \cup l2 \cup PointedToBy(l2)
MappedBy(root) == PointedToBy(PointedToBy(PointedToBy(PointedToBy({root}))))

\* The walk of the processor and of PageTable::is_mapped: the entries on the
\* way to a page, level 4 first, and the frame of the page.
Walk(root, page) ==
  LET e4 == mem[root][page[1]]
      e3 == IF is_mapped(e4) THEN mem[e4.frame][page[2]] ELSE NoEntry
      e2 == IF is_mapped(e3) THEN mem[e3.frame][page[3]] ELSE NoEntry
      e1 == IF is_mapped(e2) THEN mem[e2.frame][page[4]] ELSE NoEntry
  IN <<e4, e3, e2, e1>>
MappedPages == {HeapPages[i] : i \in 1 .. heap} \cup {LapicPage, AcpiPage}

\* The state has its type: tables hold entries to frames of memory.
TypeOK ==
  /\ bitmap \in [Frames -> {0, 1}]
  /\ mem \in [Frames -> [Indices -> [frame : Frames \cup {None}, writable : BOOLEAN]]]
  /\ cr3 \in LiveRoots /\ roots \subseteq Frames
  /\ heap \in 1 .. Len(HeapPages) /\ panicked \in BOOLEAN

\* The state has its type, and no address space uses a frame the allocator
\* believes free, whether as a table or as a page: freeing one process's tables
\* (PageTable::free with its exclusive or) never takes a frame from another one
\* or from the kernel.
NoDanglingTable ==
  TypeOK /\ (~panicked =>
    \A r \in LiveRoots : \A f \in TablesOf(r) \cup MappedBy(r) : bitmap[f] = 1)

\* Every address space maps the heap, also the part extend_heap mapped later in
\* the table of another process: the higher half is shared (copy_higher_half).
HeapShared ==
  \A r \in LiveRoots : \A i \in 1 .. heap :
    LET p == HeapPages[i] IN
    /\ is_mapped(Walk(r, p)[4])
    /\ Walk(r, p) = Walk(BootRoot, p)

\* No frame serves two purposes: a table is never also a page, two heap pages
\* never share a frame, and lower-half tables are private to a process.
FramesExclusive ==
  /\ \A r, q \in LiveRoots :
       /\ TablesOf(r) \cap MappedBy(q) = {}
       /\ r # q => VisitedBy({r}) \cap TablesOf(q) = {}
  /\ \A i, j \in 1 .. heap :
       i # j => Walk(BootRoot, HeapPages[i])[4].frame
                  # Walk(BootRoot, HeapPages[j])[4].frame

\* A page mapped writable is writable on the whole way to it: the processor
\* needs the flag at every level (Entry::map adds flags, never drops them).
WritablePaths ==
  \A r \in LiveRoots : \A p \in MappedPages :
    LET w == Walk(r, p) IN
    is_mapped(w[4]) /\ w[4].writable => \A l \in 1 .. 3 : w[l].writable

\* Process::free frees the tables that no other process uses, with one kind of
\* exception: PageTable::free visits the lower half of the entries at every
\* level, and so never the level 1 table of an identity mapped page whose level
\* 2 index is in the upper half, as the local APIC's is.  A process costs at
\* most this frame of the APIC's page, and one of the ACPI page's, for ever.
FreeLeaksUpperHalf ==
  [][\A r \in roots \ roots' : ~panicked' =>
       \A f \in TablesOf(r) :
         \/ bitmap'[f] = 0
         \/ \E q \in LiveRoots \ {r} : f \in TablesOf(q)
         \/ \E p \in {LapicPage, AcpiPage} :
              p[3] >= HIGHER_HALF_ENTRY /\ f = Walk(r, p)[3].frame]_vars
=============================================================================
