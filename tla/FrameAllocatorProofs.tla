------------------------ MODULE FrameAllocatorProofs ------------------------
(***************************************************************************)
(* Proofs about FrameAllocator for every memory map and page size.         *)
(***************************************************************************)
EXTENDS FrameAllocator, FiniteSetTheorems, SequenceTheorems, WellFoundedInduction, TLAPS

\* A nonempty set of naturals has a least element.
LEMMA Least ==
  ASSUME NEW S \in SUBSET Nat, S # {}
  PROVE  \E x \in S : \A y \in S : x <= y
  <1>1. \E x \in S : \A y \in S : ~(<<y, x>> \in OpToRel(<, Nat))
    BY NatLessThanWellFounded, WFMin
  <1>2. PICK x \in S : \A y \in S : ~(<<y, x>> \in OpToRel(<, Nat))
    BY <1>1
  <1>3. \A y \in S : ~(y < x)
    BY <1>2 DEF OpToRel
  <1> QED
    BY <1>3

\* A nonempty bounded set of naturals has a greatest element.
LEMMA Greatest ==
  ASSUME NEW n \in Nat, NEW S \in SUBSET (0 .. n), S # {}
  PROVE  \E x \in S : \A y \in S : y <= x
  <1> DEFINE T == {n - y : y \in S}
  <1>1. T \in SUBSET Nat /\ T # {}
    <2>1. \A y \in S : n - y \in Nat
      OBVIOUS
    <2> QED
      BY <2>1
  <1>2. PICK t \in T : \A y \in T : t <= y
    BY <1>1, Least
  <1>3. PICK x \in S : t = n - x
    OBVIOUS
  <1>4. ASSUME NEW y \in S PROVE y <= x
    <2>1. n - x <= n - y
      BY <1>2, <1>3
    <2> QED
      BY <2>1
  <1> QED
    BY <1>4

\* Each entry has a natural base and a positive length.
LEMMA EntryTypes ==
  \A i \in Usable : /\ i \in Nat /\ i \in 0 .. Len(MemoryMap)
                    /\ MemoryMap[i].base \in Nat
                    /\ MemoryMap[i].length \in Nat \ {0}
  <1>1. Len(MemoryMap) \in Nat /\ DOMAIN MemoryMap = 1 .. Len(MemoryMap)
    BY MemoryMapType
  <1>2. \A i \in Entries :
          MemoryMap[i] \in [base : Nat, length : Nat \ {0}, usable : BOOLEAN]
    BY <1>1, MemoryMapType, ElementOfSeq DEF Entries
  <1> QED
    BY <1>1, <1>2 DEF Usable, Entries

\* first_usable_entry and last_usable_entry are what their names say.
LEMMA Extremes ==
  /\ first_usable_entry \in Usable
  /\ last_usable_entry \in Usable
  /\ \A j \in Usable : first_usable_entry <= j /\ j <= last_usable_entry
  <1>1. Usable \in SUBSET Nat /\ Usable \in SUBSET (0 .. Len(MemoryMap))
        /\ Len(MemoryMap) \in Nat /\ Usable # {}
    BY EntryTypes, MemoryMapType, SomeUsable
  <1>2. \E i \in Usable : \A j \in Usable : i <= j
    BY <1>1, Least
  <1>3. \E i \in Usable : \A j \in Usable : j <= i
    BY <1>1, Greatest
  <1> QED
    BY <1>2, <1>3 DEF first_usable_entry, last_usable_entry

\* The frames of every usable entry lie between search_from and the end of the
\* bitmap.
LEMMA UsableInBits ==
  ASSUME NEW i \in Usable, NEW f \in FramesOf(i)
  PROVE  f \in Bits /\ search_from <= f
  <1> DEFINE a == first_usable_entry
             z == last_usable_entry
  <1>1. /\ a \in Usable /\ z \in Usable /\ a <= i /\ i <= z
        /\ a \in Nat /\ i \in Nat /\ z \in Nat
    BY Extremes, EntryTypes
  <1>2. /\ MemoryMap[a].base \in Nat /\ MemoryMap[a].length \in Nat
        /\ MemoryMap[i].base \in Nat /\ MemoryMap[i].length \in Nat
        /\ MemoryMap[z].base \in Nat /\ MemoryMap[z].length \in Nat
    BY <1>1, EntryTypes
  <1>3. /\ f \in Nat /\ MemoryMap[i].base <= f
        /\ f < MemoryMap[i].base + MemoryMap[i].length
    BY <1>2 DEF FramesOf
  <1>4. MemoryMap[a].base <= MemoryMap[i].base
    <2>1. a < i => MemoryMap[a].base + MemoryMap[a].length <= MemoryMap[i].base
      BY <1>1, UsableDisjoint
    <2> QED
      BY <1>1, <1>2, <2>1
  <1>5. MemoryMap[i].base + MemoryMap[i].length
          <= MemoryMap[z].base + MemoryMap[z].length
    <2>1. i < z => MemoryMap[i].base + MemoryMap[i].length <= MemoryMap[z].base
      BY <1>1, UsableDisjoint
    <2> QED
      BY <1>1, <1>2, <2>1
  <1>6. f < frame_count /\ frame_count \in Nat
    BY <1>2, <1>3, <1>5 DEF frame_count
  <1>7. f <= bytes * 8 - 1
    BY <1>6, <1>3 DEF bytes
  <1> QED
    BY <1>2, <1>3, <1>4, <1>7 DEF Bits, search_from

\* When a region fits, the one chosen is a usable region.
LEMMA BestIsUsable ==
  ASSUME Fitting # {}
  PROVE  best_region \in Usable
  <1> DEFINE L == {MemoryMap[i].length : i \in Fitting}
  <1>0. Fitting \subseteq Usable
    BY DEF Fitting
  <1>1. L \in SUBSET Nat /\ L # {}
    BY <1>0, EntryTypes
  <1>2. PICK l \in L : \A m \in L : l <= m
    BY <1>1, Least
  <1> DEFINE S == {i \in Fitting : MemoryMap[i].length = l}
  <1>3. S \in SUBSET Nat /\ S # {}
    BY <1>0, EntryTypes
  <1>4. PICK s \in S : \A j \in S : s <= j
    BY <1>3, Least
  <1>5. s \in Fitting /\ MemoryMap[s].length = l
    OBVIOUS
  <1>6. ASSUME NEW j \in Fitting
        PROVE  \/ MemoryMap[s].length < MemoryMap[j].length
               \/ MemoryMap[s].length = MemoryMap[j].length /\ s <= j
    <2>1. l <= MemoryMap[j].length /\ l \in Nat /\ MemoryMap[j].length \in Nat
      BY <1>0, <1>1, <1>2, EntryTypes
    <2>2. MemoryMap[j].length = l => s <= j
      BY <1>4
    <2> QED
      BY <2>1, <2>2, <1>5
  <1>7. \E i \in Fitting :
          \A j \in Fitting : \/ MemoryMap[i].length < MemoryMap[j].length
                             \/ MemoryMap[i].length = MemoryMap[j].length /\ i <= j
    BY <1>5, <1>6
  <1>8. best_region \in Fitting
    BY <1>7 DEF best_region
  <1> QED
    BY <1>0, <1>8

\* A frame belongs to at most one usable entry, so the exclusive or of
\* set_unused toggles its bit at most once.
LEMMA InitialBits ==
  ASSUME Fitting # {}, NEW f \in Bits
  PROVE  InitialBit(f) = IF f \in Pool THEN 0 ELSE 1
  <1> DEFINE C == {i \in Usable : f \in FramesOf(i)}
  <1>1. CASE C = {}
    <2>1. Cardinality(C) = 0
      BY <1>1, FS_EmptySet
    <2>2. f \notin Pool
      BY <1>1 DEF Pool
    <2> QED
      BY <2>1, <2>2 DEF InitialBit
  <1>2. CASE C # {}
    <2>1. PICK c \in C : TRUE
      BY <1>2
    <2>2. ASSUME NEW d \in C PROVE d = c
      <3>1. /\ c \in Nat /\ d \in Nat
            /\ MemoryMap[c].base \in Nat /\ MemoryMap[c].length \in Nat
            /\ MemoryMap[d].base \in Nat /\ MemoryMap[d].length \in Nat
        BY EntryTypes
      <3>2. /\ f \in MemoryMap[c].base .. MemoryMap[c].base + MemoryMap[c].length - 1
            /\ f \in MemoryMap[d].base .. MemoryMap[d].base + MemoryMap[d].length - 1
        BY DEF FramesOf
      <3>3. ~(c < d)
        <4>1. c < d => MemoryMap[c].base + MemoryMap[c].length <= MemoryMap[d].base
          BY UsableDisjoint
        <4> QED
          BY <3>1, <3>2, <4>1
      <3>4. ~(d < c)
        <4>1. d < c => MemoryMap[d].base + MemoryMap[d].length <= MemoryMap[c].base
          BY UsableDisjoint
        <4> QED
          BY <3>1, <3>2, <4>1
      <3> QED
        BY <3>1, <3>3, <3>4
    <2>3. C = {c}
      BY <2>1, <2>2
    <2>4. Cardinality(C) = 1
      BY <2>3, FS_Singleton
    <2>5. f \in Pool <=> f \notin FramesOf(best_region)
      BY <2>1 DEF Pool
    <2>6. (1 + Cardinality(C)) % 2 = 0
      BY <2>4
    <2> QED
      BY <2>5, <2>6 DEF InitialBit
  <1> QED
    BY <1>1, <1>2

\* The inductive invariant: besides the type and the exact bitmap, that boot
\* found a region for the bitmap.
Inv == TypeOK /\ BitmapExact /\ Fitting # {}

\* Every frame of the pool has a bit, and search_from is not past it.
LEMMA PoolInBits == Pool \subseteq Bits /\ \A f \in Pool : search_from <= f
  BY UsableInBits DEF Pool

\* The bitmap RegionAllocator::new returns satisfies the invariant.
LEMMA InitInv == Init => Inv
  <1> SUFFICES ASSUME Init PROVE Inv
    OBVIOUS
  <1>1. \A f \in Bits : bitmap[f] = IF f \in Pool THEN 0 ELSE 1
    BY InitialBits DEF Init
  <1>2. TypeOK
    <2>1. \A f \in Bits : InitialBit(f) \in {0, 1}
      BY InitialBits DEF Init
    <2> QED
      BY <2>1 DEF Init, TypeOK
  <1>3. BitmapExact
    BY <1>1, PoolInBits DEF Init, BitmapExact
  <1> QED
    BY <1>2, <1>3 DEF Inv, Init

\* allocate_frame and deallocate_frame preserve the invariant.
LEMMA NextInv == Inv /\ [Next]_vars => Inv'
  <1> SUFFICES ASSUME Inv, [Next]_vars PROVE Inv'
    OBVIOUS
  <1>1. TypeOK /\ BitmapExact /\ Fitting # {}
    BY DEF Inv
  <1>2. CASE allocate_frame
    <2>1. PICK f \in Bits : /\ bitmap[f] = 0
                            /\ bitmap' = [bitmap EXCEPT ![f] = 1]
                            /\ owned' = owned \cup {f}
      BY <1>2 DEF allocate_frame, IsFirstFree, FreeFrames
    <2>2. f \in Pool \ owned
      BY <1>1, <2>1 DEF BitmapExact
    <2>3. TypeOK'
      BY <1>1, <2>1 DEF TypeOK
    <2>4. \A g \in Bits : bitmap'[g] = IF g = f THEN 1 ELSE bitmap[g]
      BY <1>1, <2>1 DEF TypeOK
    <2>5. BitmapExact'
      BY <1>1, <2>1, <2>2, <2>4 DEF BitmapExact
    <2> QED
      BY <1>1, <2>3, <2>5 DEF Inv
  <1>3. CASE \E f \in Bits : deallocate_frame(f)
    <2>1. PICK f \in Bits : /\ f \in owned
                            /\ bitmap' = [bitmap EXCEPT ![f] = 1 - bitmap[f]]
                            /\ owned' = owned \ {f}
      BY <1>3 DEF deallocate_frame, Toggled
    <2>2. f \in Pool /\ bitmap[f] = 1
      BY <1>1, <2>1 DEF BitmapExact, TypeOK
    <2>3. TypeOK'
      BY <1>1, <2>1, <2>2 DEF TypeOK
    <2>4. \A g \in Bits : bitmap'[g] = IF g = f THEN 0 ELSE bitmap[g]
      BY <1>1, <2>1, <2>2 DEF TypeOK
    <2>5. BitmapExact'
      BY <1>1, <2>1, <2>2, <2>4 DEF BitmapExact
    <2> QED
      BY <1>1, <2>3, <2>5 DEF Inv
  <1>4. CASE UNCHANGED vars
    BY <1>1, <1>4 DEF Inv, vars, TypeOK, BitmapExact
  <1> QED
    BY <1>2, <1>3, <1>4 DEF Next, allocate_none

\* The invariant holds in every reachable state.
THEOREM Invariance == Spec => []Inv
  BY InitInv, NextInv, PTL DEF Spec

\* For every memory map, the bitmap RegionAllocator::new builds and
\* allocate_frame and deallocate_frame update has a clear bit exactly for the
\* unowned frames of usable memory outside the bitmap's own region.
THEOREM BitmapCorrect == Spec => [](TypeOK /\ BitmapExact)
  BY Invariance, PTL DEF Inv

\* allocate_frame fails only when every frame of the pool is owned, although
\* it searches from the fixed index search_from.
THEOREM AllocationComplete == Spec => []NothingOutOfReach
  <1>1. Inv => NothingOutOfReach
    BY PoolInBits DEF Inv, NothingOutOfReach, BitmapExact, FreeFrames
  <1> QED
    BY <1>1, Invariance, PTL

\* The bitmap allocator implements a pool whose frames have one owner at most.
THEOREM Refinement == Spec => ImplementsFramePool
  <1>1. Init => FP!Init
    BY DEF Init, FP!Init
  <1>2. Inv /\ [Next]_vars => [FP!Next]_(FP!vars)
    <2> SUFFICES ASSUME Inv, [Next]_vars PROVE [FP!Next]_(FP!vars)
      OBVIOUS
    <2>1. CASE allocate_frame
      <3>1. PICK f \in Bits : bitmap[f] = 0 /\ owned' = owned \cup {f}
        BY <2>1 DEF allocate_frame, IsFirstFree, FreeFrames
      <3>2. f \in Pool \ owned
        BY <3>1 DEF Inv, BitmapExact
      <3>3. FP!Take
        BY <3>1, <3>2 DEF FP!Take
      <3> QED
        BY <3>3 DEF FP!Next
    <2>2. CASE \E f \in Bits : deallocate_frame(f)
      <3>1. PICK f \in Bits : f \in owned /\ owned' = owned \ {f}
        BY <2>2 DEF deallocate_frame
      <3>2. f \in Pool
        BY <3>1 DEF Inv, BitmapExact
      <3>3. FP!Return
        BY <3>1, <3>2 DEF FP!Return
      <3> QED
        BY <3>3 DEF FP!Next
    <2>3. CASE UNCHANGED vars
      BY <2>3 DEF vars, FP!vars
    <2> QED
      BY <2>1, <2>2, <2>3 DEF Next, allocate_none
  <1> QED
    BY <1>1, <1>2, Invariance, PTL DEF Spec, ImplementsFramePool, FP!Spec
=============================================================================
