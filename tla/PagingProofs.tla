---------------------------- MODULE PagingProofs ----------------------------
(***************************************************************************)
(* Theorems about Paging for every memory size, table size and set of      *)
(* pages: each action keeps the invariant Inv of MappingProofs, from which *)
(* the safety properties follow.                                           *)
(***************************************************************************)
EXTENDS MappingProofs
-----------------------------------------------------------------------------
(* The actions *)

\* What Inv says about the memory state the actions start from.
LEMMA MemoryFacts ==
  ASSUME Inv, ~panicked
  PROVE  /\ Memory \in States /\ Memory.ok /\ Memory.mem = mem /\ Memory.bitmap = bitmap
         /\ cr3 \in LiveRoots /\ BootRoot \in LiveRoots
         /\ \E lev : Tree(mem, lev, LiveRoots) /\ Used(bitmap, lev)
  <1>1. cr3 \in Frames /\ cr3 \in LiveRoots
    BY Basics, Zenon DEF Inv, TypeOK, LiveRoots
  <1>2. Memory \in States
    BY <1>1, Zenon DEF Inv, TypeOK, Memory, States, Tables, Entries
  <1>3. \E lev : Tree(mem, lev, LiveRoots) /\ Used(bitmap, lev)
    BY Zenon DEF Inv, Fits
  <1> QED
    BY <1>1, <1>2, <1>3, Zenon DEF Memory, LiveRoots

\* What a mapping in the current table keeps of Inv.
LEMMA MapInv ==
  ASSUME Inv, ~panicked, NEW p, NEW z, Maps(Memory, LiveRoots, cr3, p, z),
         p[1] < HIGHER_HALF_ENTRY => p \in {LapicPage, AcpiPage},
         \A i \in 1 .. heap : HeapPages[i] # p,
         bitmap' = z.bitmap, mem' = z.mem, roots' = roots, cr3' = cr3
  PROVE  /\ bitmap' \in [Frames -> {0, 1}] /\ mem' \in Tables /\ LiveRoots' = LiveRoots
         /\ HeapWalks(mem', heap) /\ HeapEntry(mem', LiveRoots') /\ LowerPaths(mem', LiveRoots')
         /\ \E lev \in [Frames -> Levels] : Tree(mem', lev, LiveRoots') /\ Used(bitmap', lev)
  <1>1. Memory.mem = mem /\ BootRoot \in LiveRoots
    BY MemoryFacts, Zenon
  <1>2. PICK l0, l2 : MapStep(mem, l0, mem', l2, LiveRoots, cr3, p, z.ok) /\ Used(bitmap', l2)
    BY <1>1, Zenon DEF Maps
  <1>3. bitmap' \in [Frames -> {0, 1}] /\ mem' \in Tables
    BY Zenon DEF Maps, States
  <1>4. LiveRoots' = LiveRoots
    BY Zenon DEF LiveRoots
  <1>5. HeapWalks(mem, heap) /\ HeapEntry(mem, LiveRoots) /\ LowerPaths(mem, LiveRoots)
        /\ heap \in 0 .. Len(HeapPages)
    BY KernelPages DEF Inv, TypeOK
  <1>6. HeapWalks(mem', heap)
    BY <1>1, <1>2, <1>5, HeapWalksKept
  <1>7. HeapEntry(mem', LiveRoots)
    BY <1>2, <1>5, HeapEntryKept, Zenon
  <1>8. LowerPaths(mem', LiveRoots)
    BY <1>2, <1>5, LowerPathsKept, Zenon
  <1>9. Tree(mem', l2, LiveRoots) /\ l2 \in [Frames -> Levels]
    BY <1>2, Zenon DEF MapStep, Tree, Typed
  <1> QED
    BY <1>2, <1>3, <1>4, <1>6, <1>7, <1>8, <1>9, Zenon

\* The identity maps of send_eoi and shutdown keep Inv.
LEMMA IdentityInv ==
  ASSUME Inv, ~panicked, NEW p \in {LapicPage, AcpiPage}, NEW g \in Identity, NEW w \in BOOLEAN,
         NEW z, z = map_to(Memory, cr3, p, g, w),
         bitmap' = z.bitmap, mem' = z.mem, panicked' = ~z.ok, UNCHANGED <<cr3, roots, heap>>
  PROVE  Inv'
  <1>1. PICK lev : Tree(mem, lev, LiveRoots) /\ Used(bitmap, lev)
    BY MemoryFacts, Zenon
  <1>2. Maps(Memory, LiveRoots, cr3, p, z)
    BY <1>1, MemoryFacts, MapIdentity, Zenon
  <1>3. \A i \in 1 .. heap : HeapPages[i] # p
    <2> SUFFICES ASSUME NEW i \in 1 .. heap, HeapPages[i] = p PROVE FALSE
      BY Zenon
    <2>1. i \in 1 .. Len(HeapPages)
      BY KernelPages DEF Inv, TypeOK
    <2>2. p[1] >= HIGHER_HALF_ENTRY /\ p[1] < HIGHER_HALF_ENTRY /\ p \in Pages
      BY <2>1, KernelPages, IdentityAssumption, Zenon
    <2>3. p[1] \in Indices
      BY <2>2, PageFacts
    <2>4. p[1] \in Nat /\ HIGHER_HALF_ENTRY \in Nat
      BY <2>3, Basics, Zenon
    <2> QED
      BY <2>2, <2>4
  <1>4. /\ bitmap' \in [Frames -> {0, 1}] /\ mem' \in Tables /\ LiveRoots' = LiveRoots
        /\ HeapWalks(mem', heap) /\ HeapEntry(mem', LiveRoots') /\ LowerPaths(mem', LiveRoots')
        /\ \E l \in [Frames -> Levels] : Tree(mem', l, LiveRoots') /\ Used(bitmap', l)
    BY <1>2, <1>3, MapInv, Zenon
  <1>5. TypeOK' /\ BootRoot \notin roots'
    <2>1. z.ok \in BOOLEAN
      BY <1>2, Zenon DEF Maps, States
    <2> QED
      BY <2>1, <1>4, Zenon DEF Inv, TypeOK, Tables, Entries, BootRoot
  <1> QED
    BY <1>4, <1>5, Zenon DEF Inv, Fits

\* extend_heap keeps Inv.
LEMMA ExtendInv ==
  ASSUME Inv, ExtendHeap
  PROVE  Inv'
  <1> DEFINE p == HeapPages[heap + 1]
             z == MapHeapPage(Memory, cr3, p)
  <1>0. /\ ~panicked /\ heap < Len(HeapPages) /\ bitmap' = z.bitmap /\ mem' = z.mem
        /\ heap' = (IF z.ok THEN heap + 1 ELSE heap) /\ UNCHANGED <<cr3, roots, panicked>>
    BY Zenon DEF ExtendHeap, Commit
  <1>1. PICK lev : Tree(mem, lev, LiveRoots) /\ Used(bitmap, lev)
    BY <1>0, MemoryFacts, Zenon
  <1>h. heap \in Nat /\ heap + 1 \in 1 .. Len(HeapPages)
    BY <1>0, KernelPages DEF Inv, TypeOK
  <1>2. p \in Pages /\ p[1] >= HIGHER_HALF_ENTRY /\ p[1] = HeapPages[1][1]
    BY <1>h, KernelPages, Zenon
  <1>3. \A i \in 1 .. heap : HeapPages[i] # p
    BY <1>h, KernelPages
  <1>z. z = MapHeapPage(Memory, cr3, p)
    BY Zenon
  <1>p. p = HeapPages[heap + 1]
    BY Zenon
  <1> HIDE DEF z, p
  <1>m. /\ Memory \in States /\ Memory.ok /\ Memory.mem = mem /\ Memory.bitmap = bitmap
        /\ cr3 \in LiveRoots /\ BootRoot \in LiveRoots
    BY <1>0, MemoryFacts, Zenon
  <1>4. Top(Memory.mem, lev, LiveRoots, cr3, p[1])
    BY <1>2, <1>m, SMTT(30) DEF Top, Inv, HeapEntry
  <1>5. /\ Maps(Memory, LiveRoots, cr3, p, z)
        /\ z.ok => /\ Mapped(z.mem, cr3, p)
                   /\ z.mem[T1(z.mem, cr3, p)][p[4]].frame \notin {None} \cup Identity
    BY <1>1, <1>2, <1>4, <1>m, <1>z, MapHeap, Zenon
  <1>i. ~(p[1] < HIGHER_HALF_ENTRY) /\ p[1] \in Indices
    <2>1. p[1] \in Indices
      BY <1>2, PageFacts
    <2>2. p[1] \in Nat /\ HIGHER_HALF_ENTRY \in Nat
      BY <2>1, Basics, Zenon
    <2> QED
      BY <2>1, <2>2, <1>2
  <1>6. /\ bitmap' \in [Frames -> {0, 1}] /\ mem' \in Tables /\ LiveRoots' = LiveRoots
        /\ HeapWalks(mem', heap) /\ HeapEntry(mem', LiveRoots') /\ LowerPaths(mem', LiveRoots')
        /\ \E l \in [Frames -> Levels] : Tree(mem', l, LiveRoots') /\ Used(bitmap', l)
    BY <1>0, <1>3, <1>5, <1>i, MapInv, Zenon
  <1>7. heap' \in 1 .. Len(HeapPages)
    BY <1>0, <1>h, Zenon DEF Inv, TypeOK
  <1>8. TypeOK' /\ BootRoot \notin roots'
    BY <1>0, <1>6, <1>7, Zenon DEF Inv, TypeOK, Tables, Entries, BootRoot
  <1>9. HeapWalks(mem', heap')
    <2>1. CASE ~z.ok
      BY <2>1, <1>0, <1>6, Zenon
    <2>2. CASE z.ok
      \* The pml4 in cr3 and the boot loader's have the same entry for the page.
      <3>1. mem'[cr3][p[1]] = mem'[BootRoot][p[1]]
        BY <1>2, <1>6, <1>i, <1>m DEF Tree, SharedHalf
      <3>2. /\ T3(mem', BootRoot, p) = T3(mem', cr3, p)
            /\ T2(mem', BootRoot, p) = T2(mem', cr3, p)
            /\ T1(mem', BootRoot, p) = T1(mem', cr3, p)
        BY <3>1, Zenon DEF T3, T2, T1
      <3>3. /\ Mapped(mem', BootRoot, p)
            /\ mem'[T1(mem', BootRoot, p)][p[4]].frame \notin {None} \cup Identity
        BY <2>2, <3>2, <1>0, <1>5, Zenon DEF Mapped
      <3>4. heap' = heap + 1 /\ \A i \in 1 .. heap' : i \in 1 .. heap \/ i = heap + 1
        BY <2>2, <1>0, <1>h
      <3> QED
        BY <3>3, <3>4, <1>6, <1>p, Zenon DEF HeapWalks
    <2> QED
      BY <2>1, <2>2, Zenon
  <1> QED
    BY <1>0, <1>6, <1>8, <1>9, Zenon DEF Inv, Fits

\* The tables m2 are m with a new pml4 in f, whose higher half is that of c.
NewRoot(m, m2, f, c) ==
  /\ m2 \in Tables
  /\ \A t \in Frames : t # f => m2[t] = m[t]
  /\ \A i \in Indices : m2[f][i] = IF i >= HIGHER_HALF_ENTRY THEN m[c][i] ELSE NoEntry

\* A new pml4 fits in: f had no role.
LEMMA RootTree ==
  ASSUME NEW m, NEW lev, NEW live, Tree(m, lev, live), NEW c \in live,
         NEW f \in Frames, lev[f] = 5, NEW m2, NewRoot(m, m2, f, c)
  PROVE  \E l2 \in [Frames -> Levels] :
           /\ Tree(m2, l2, live \cup {f}) /\ l2[f] = 4
           /\ \A t \in Frames : t # f => l2[t] = lev[t]
  <1> DEFINE l2 == [lev EXCEPT ![f] = 4]
  <1>0. /\ m \in Tables /\ lev \in [Frames -> Levels] /\ live \subseteq Frames
        /\ (\A g \in Identity : lev[g] = 0) /\ (\A g \in Frames : lev[g] = 4 <=> g \in live)
    BY Zenon DEF Tree, Typed
  <1>1. l2 \in [Frames -> Levels] /\ l2[f] = 4 /\ \A g \in Frames : g # f => l2[g] = lev[g]
    BY <1>0, Zenon DEF Levels
  <1> HIDE DEF l2
  <1>c. c \in Frames /\ lev[c] = 4 /\ c # f
    BY <1>0
  \* An entry of the new pml4 is one of c.
  <1>2. ASSUME NEW t \in Frames, NEW i \in Indices, l2[t] \in 1 .. 4, m2[t][i].frame # None
        PROVE  \E u \in Frames :
                 /\ lev[u] = l2[t] /\ u # f /\ m[u][i] = m2[t][i]
                 /\ t = u \/ (t = f /\ u = c /\ i >= HIGHER_HALF_ENTRY)
    <2>1. CASE t # f
      <3>1. l2[t] = lev[t] /\ m2[t] = m[t]
        BY <2>1, <1>1, Zenon DEF NewRoot
      <3> QED
        BY <2>1, <3>1, Zenon
    <2>2. CASE t = f
      <3>1. m2[t][i] = IF i >= HIGHER_HALF_ENTRY THEN m[c][i] ELSE NoEntry
        BY <2>2, Zenon DEF NewRoot
      <3>2. i >= HIGHER_HALF_ENTRY /\ m2[t][i] = m[c][i]
        BY <3>1, <1>2 DEF NoEntry
      <3> QED
        BY <2>2, <3>2, <1>c, <1>1, Zenon
    <2> QED
      BY <2>1, <2>2, Zenon
  <1>3. ASSUME NEW t \in Frames, NEW i \in Indices, lev[t] \in 1 .. 4, m[t][i].frame # None
        PROVE  m[t][i].frame \in Frames /\ m[t][i].frame # f /\ lev[m[t][i].frame] = lev[t] - 1
    BY <1>0, <1>3 DEF Tree, Leveled, Tables, Entries
  <1>4. Typed(m2, l2, live \cup {f})
    <2>1. \A g \in Frames : l2[g] = 4 <=> g \in live \cup {f}
      BY <1>0, <1>1, Zenon
    <2>2. \A g \in Identity : l2[g] = 0
      BY <1>0, <1>1, Basics
    <2> QED
      BY <2>1, <2>2, <1>0, <1>1, Zenon DEF Typed, NewRoot
  <1>5. Leveled(m2, l2)
    <2> SUFFICES ASSUME NEW t \in Frames, NEW i \in Indices, l2[t] \in 1 .. 4, m2[t][i].frame # None
                 PROVE  l2[m2[t][i].frame] = l2[t] - 1
      BY Zenon DEF Leveled
    <2>1. PICK u \in Frames : lev[u] = l2[t] /\ m[u][i] = m2[t][i]
      BY <1>2
    <2>2. m[u][i].frame \in Frames /\ m[u][i].frame # f /\ lev[m[u][i].frame] = lev[u] - 1
      BY <2>1, <1>3, Zenon
    <2> QED
      BY <2>1, <2>2, <1>1, Zenon
  <1>6. OneParent(m2, l2)
    <2> SUFFICES ASSUME NEW t \in Frames, NEW u \in Frames, NEW i \in Indices, NEW j \in Indices,
                        l2[t] \in 1 .. 4, l2[u] \in 1 .. 4, m2[t][i].frame = m2[u][j].frame,
                        m2[t][i].frame \notin {None} \cup Identity
                 PROVE  i = j /\ (t = u \/ (l2[t] = 4 /\ i >= HIGHER_HALF_ENTRY))
      BY DEF OneParent
    <2>1. PICK x \in Frames : /\ lev[x] = l2[t] /\ x # f /\ m[x][i] = m2[t][i]
                              /\ t = x \/ (t = f /\ x = c /\ i >= HIGHER_HALF_ENTRY)
      BY <1>2, Zenon
    <2>2. PICK y \in Frames : /\ lev[y] = l2[u] /\ y # f /\ m[y][j] = m2[u][j]
                              /\ u = y \/ (u = f /\ y = c /\ j >= HIGHER_HALF_ENTRY)
      BY <1>2, Zenon
    <2>3. i = j /\ (x = y \/ (lev[x] = 4 /\ i >= HIGHER_HALF_ENTRY))
      BY <2>1, <2>2 DEF Tree, OneParent
    <2> QED
      BY <2>1, <2>2, <2>3, <1>c, Zenon
  <1>7. SharedHalf(m2, live \cup {f})
    <2>1. ASSUME NEW r \in live \cup {f}, NEW i \in Indices, i >= HIGHER_HALF_ENTRY
          PROVE  m2[r][i] = m[c][i]
      <3>1. CASE r = f
        BY <3>1, <2>1, Zenon DEF NewRoot
      <3>2. CASE r # f
        BY <3>2, <2>1, <1>0 DEF NewRoot, Tree, SharedHalf
      <3> QED
        BY <3>1, <3>2, Zenon
    <2> QED
      BY <2>1, Zenon DEF SharedHalf
  <1>8. WritableAbove(m2, l2)
    <2> SUFFICES ASSUME NEW t \in Frames, NEW u \in Frames, NEW i \in Indices, NEW j \in Indices,
                        l2[t] \in 1 .. 3, l2[u] \in 2 .. 4, m2[u][j].frame = t,
                        m2[t][i].frame # None, m2[t][i].writable
                 PROVE  m2[u][j].writable
      BY Zenon DEF WritableAbove
    <2>1. t # f /\ lev[t] = l2[t] /\ m2[t] = m[t]
      BY <1>1 DEF NewRoot
    <2>2. m2[u][j].frame # None /\ l2[u] \in 1 .. 4
      BY Basics
    <2>3. PICK y \in Frames : lev[y] = l2[u] /\ m[y][j] = m2[u][j]
      BY <2>2, <1>2
    <2> QED
      BY <2>1, <2>3 DEF Tree, WritableAbove
  <1>9. Tree(m2, l2, live \cup {f})
    BY <1>4, <1>5, <1>6, <1>7, <1>8, Zenon DEF Tree
  <1> QED
    BY <1>1, <1>9, Zenon

\* A new pml4 keeps the mappings of the others.
LEMMA RootKeeps ==
  ASSUME NEW m, NEW lev, NEW live, Tree(m, lev, live), NEW c \in live, BootRoot \in live,
         NEW f \in Frames, lev[f] = 5, NEW m2, NewRoot(m, m2, f, c),
         NEW n \in 0 .. Len(HeapPages), HeapWalks(m, n), HeapEntry(m, live), LowerPaths(m, live)
  PROVE  HeapWalks(m2, n) /\ HeapEntry(m2, live \cup {f}) /\ LowerPaths(m2, live \cup {f})
  <1>0. /\ m \in Tables /\ lev \in [Frames -> Levels] /\ live \subseteq Frames
        /\ (\A g \in Identity : lev[g] = 0) /\ (\A g \in Frames : lev[g] = 4 <=> g \in live)
        /\ c # f /\ f \notin live
    BY DEF Tree, Typed
  <1>1. \A t \in Frames : t # f => m2[t] = m[t]
    BY Zenon DEF NewRoot
  <1>2. HeapWalks(m2, n)
    <2> SUFFICES ASSUME NEW i \in 1 .. n
                 PROVE  /\ Mapped(m2, BootRoot, HeapPages[i])
                        /\ m2[T1(m2, BootRoot, HeapPages[i])][HeapPages[i][4]].frame
                             \notin {None} \cup Identity
      BY Zenon DEF HeapWalks
    <2>1. PICK x : x = HeapPages[i]
      BY Zenon
    <2>2. /\ Mapped(m, BootRoot, x) /\ x \in Pages
          /\ m[T1(m, BootRoot, x)][x[4]].frame \notin {None} \cup Identity
      BY <2>1, KernelPages DEF HeapWalks
    <2>3. /\ BootRoot \in Frames /\ lev[BootRoot] = 4
          /\ T3(m, BootRoot, x) \in Frames /\ lev[T3(m, BootRoot, x)] = 3
          /\ T2(m, BootRoot, x) \in Frames /\ lev[T2(m, BootRoot, x)] = 2
          /\ T1(m, BootRoot, x) \in Frames /\ lev[T1(m, BootRoot, x)] = 1
      BY <2>2, PathLevels DEF Mapped
    <2>4. /\ m2[BootRoot] = m[BootRoot]
          /\ m2[T3(m, BootRoot, x)] = m[T3(m, BootRoot, x)]
          /\ m2[T2(m, BootRoot, x)] = m[T2(m, BootRoot, x)]
          /\ m2[T1(m, BootRoot, x)] = m[T1(m, BootRoot, x)]
      BY <2>3, <1>1, SMTT(30)
    <2>5. /\ T3(m2, BootRoot, x) = T3(m, BootRoot, x) /\ T2(m2, BootRoot, x) = T2(m, BootRoot, x)
          /\ T1(m2, BootRoot, x) = T1(m, BootRoot, x)
      BY <2>4, Zenon DEF T3, T2, T1
    <2> QED
      BY <2>1, <2>2, <2>4, <2>5, SMTT(30) DEF Mapped
  <1>3. HeapEntry(m2, live \cup {f})
    <2>1. HeapPages[1][1] \in Indices /\ HeapPages[1][1] >= HIGHER_HALF_ENTRY
      BY KernelPages, PageFacts
    <2>2. m2[f][HeapPages[1][1]] = m[c][HeapPages[1][1]]
      BY <2>1, SMTT(30) DEF NewRoot
    <2> QED
      BY <2>2, <1>0, <1>1 DEF HeapEntry
  <1>4. LowerPaths(m2, live \cup {f})
    <2> SUFFICES ASSUME NEW r \in live \cup {f}, NEW a \in Indices, NEW b \in Indices, NEW d \in Indices
                 PROVE  LowerPath(m2, a, b, d, m2[r][a].frame, m2[m2[r][a].frame][b].frame)
      BY SMTT(30) DEF LowerPaths
    <2>1. CASE ~(a < HIGHER_HALF_ENTRY) \/ m2[r][a].frame = None \/ m2[m2[r][a].frame][b].frame = None
      BY <2>1, Zenon DEF LowerPath
    <2>2. CASE a < HIGHER_HALF_ENTRY /\ m2[r][a].frame # None /\ m2[m2[r][a].frame][b].frame # None
      <3>0. ~(a >= HIGHER_HALF_ENTRY)
        BY <2>2, Basics
      <3>1. r # f
        BY <2>2, <3>0 DEF NewRoot, NoEntry
      <3>2. PICK t : t = m2[r][a].frame
        BY Zenon
      <3>3. r \in Frames /\ lev[r] = 4 /\ m2[r] = m[r] /\ t = m[r][a].frame /\ t # None
        BY <3>1, <3>2, <2>2, <1>0, <1>1, Zenon
      <3>4. t \in Frames /\ lev[t] = 3
        BY <3>3, <1>0 DEF Tree, Leveled, Tables, Entries
      <3>5. m2[t] = m[t]
        BY <3>4, <1>1
      <3>6. PICK u : u = m2[t][b].frame
        BY SMTT(30)
      <3>7. u = m[t][b].frame /\ u # None
        BY <3>2, <3>5, <3>6, <2>2, Zenon
      <3>8. u \in Frames /\ lev[u] = 2
        BY <3>4, <3>7, <1>0 DEF Tree, Leveled, Tables, Entries
      <3>9. m2[u] = m[u]
        BY <3>8, <1>1, SMTT(30)
      <3>10. LowerPath(m, a, b, d, t, u)
        <4>1. LowerPath(m, a, b, d, m[r][a].frame, m[m[r][a].frame][b].frame)
          BY <3>1, Zenon DEF LowerPaths
        <4> QED
          BY <4>1, <3>3, <3>7, SMTT(30)
      <3>11. LowerPath(m2, a, b, d, t, u)
        BY <3>9, <3>10, Zenon DEF LowerPath
      <3> QED
        BY <3>2, <3>6, <3>11, Zenon
    <2> QED
      BY <2>1, <2>2, SMTT(30)
  <1> QED
    BY <1>2, <1>3, <1>4, Zenon

\* allocate_pml4 keeps Inv.
LEMMA CreateInv ==
  ASSUME Inv, CreateRoot
  PROVE  Inv'
  <1>m. /\ ~panicked
        /\ Memory \in States /\ Memory.ok /\ Memory.mem = mem /\ Memory.bitmap = bitmap
        /\ cr3 \in LiveRoots /\ BootRoot \in LiveRoots
    BY MemoryFacts, Zenon DEF CreateRoot
  <1>l. PICK lev : Tree(mem, lev, LiveRoots) /\ Used(bitmap, lev)
    BY <1>m, MemoryFacts, Zenon
  <1> DEFINE s == allocate_pml4(Memory)
  <1>0. /\ bitmap' = s.bitmap /\ mem' = s.mem /\ cr3' = cr3 /\ heap' = heap
        /\ roots' = (IF s.ok THEN roots \cup {s.at} ELSE roots)
        /\ panicked' = ~s.ok
    BY Zenon DEF CreateRoot, Commit
  <1>1. CASE FreeIn(Memory) = {}
    <2>1. s = Failed(Memory)
      BY <1>1, Zenon DEF allocate_pml4
    <2>2. s.mem = mem /\ s.bitmap = bitmap /\ s.ok = FALSE
      BY <2>1, <1>m, Zenon DEF Failed, States
    <2> HIDE DEF s
    <2>3. mem' = mem /\ bitmap' = bitmap /\ roots' = roots /\ panicked' = TRUE /\ cr3' = cr3 /\ heap' = heap
      BY <2>2, <1>0, Zenon
    <2> QED
      BY <2>3, <1>l, Zenon DEF Inv, Fits, TypeOK, LiveRoots, Tree, Typed
  <1>2. CASE FreeIn(Memory) # {}
    <2> DEFINE f == FirstFree(Memory)
    <2>1. f \in Frames /\ bitmap[f] = 0
      BY <1>2, <1>m, FirstFreeFacts, Zenon
    <2>2. s = [Memory EXCEPT !.bitmap[f] = 1, !.mem[f] = copy_higher_half(Memory), !.at = f]
      BY <1>2, Zenon DEF allocate_pml4
    <2> HIDE DEF f
    <2>3. /\ s.bitmap = [bitmap EXCEPT ![f] = 1]
          /\ s.mem = [mem EXCEPT ![f] = copy_higher_half(Memory)]
          /\ s.at = f /\ s.ok = TRUE
      BY <2>2, <1>m, ZenonT(30) DEF Memory
    <2> HIDE DEF s
    <2>4. mem \in Tables /\ bitmap \in [Frames -> {0, 1}] /\ cr3 \in Frames
      BY <1>l, <1>m, Zenon DEF Tree, Typed, Used
    <2>5. copy_higher_half(Memory) \in [Indices -> Entries]
      BY <2>4, <1>m, Basics DEF copy_higher_half, Tables, Entries, NoEntry
    <2>6. NewRoot(mem, mem', f, cr3)
      <3>1. mem' \in Tables /\ mem'[f] = copy_higher_half(Memory) /\ \A t \in Frames : t # f => mem'[t] = mem[t]
        BY <2>1, <2>3, <2>4, <2>5, <1>0 DEF Tables
      <3>2. \A i \in Indices : mem'[f][i] = IF i >= HIGHER_HALF_ENTRY THEN mem[cr3][i] ELSE NoEntry
        BY <3>1, <1>m, Zenon DEF copy_higher_half
      <3> QED
        BY <3>1, <3>2, Zenon DEF NewRoot
    <2>7. lev[f] = 5
      BY <2>1, <1>l DEF Used
    <2>8. PICK l2 \in [Frames -> Levels] : /\ Tree(mem', l2, LiveRoots \cup {f}) /\ l2[f] = 4
                                           /\ \A t \in Frames : t # f => l2[t] = lev[t]
      BY <2>1, <2>6, <2>7, <1>l, <1>m, RootTree
    <2>9. bitmap' \in [Frames -> {0, 1}] /\ bitmap'[f] = 1 /\ \A t \in Frames : t # f => bitmap'[t] = bitmap[t]
      BY <2>1, <2>3, <2>4, <1>0
    <2>10. Used(bitmap', l2)
      BY <2>8, <2>9, <1>l, Zenon DEF Used
    <2>11. /\ HeapWalks(mem, heap) /\ HeapEntry(mem, LiveRoots) /\ LowerPaths(mem, LiveRoots)
           /\ heap \in 0 .. Len(HeapPages)
      BY KernelPages DEF Inv, TypeOK
    <2>12. /\ HeapWalks(mem', heap) /\ HeapEntry(mem', LiveRoots \cup {f})
           /\ LowerPaths(mem', LiveRoots \cup {f})
      BY <2>1, <2>6, <2>7, <2>11, <1>l, <1>m, RootKeeps, Zenon
    <2>13. roots' = roots \cup {f} /\ LiveRoots' = LiveRoots \cup {f} /\ panicked' = FALSE
      BY <2>3, <1>0, Zenon DEF LiveRoots
    <2>14. f # BootRoot
      <3>1. lev[BootRoot] = 4
        BY <1>l, <1>m, Zenon DEF Tree, Typed
      <3> QED
        BY <3>1, <2>7
    <2>15. TypeOK' /\ BootRoot \notin roots'
      <3>1. mem' \in Tables
        BY <2>6, Zenon DEF NewRoot
      <3> QED
        BY <3>1, <2>1, <2>9, <2>13, <2>14, <1>0, <1>m, Zenon DEF Inv, TypeOK, Tables, Entries, BootRoot
    <2> QED
      BY <2>8, <2>10, <2>12, <2>13, <2>15, <1>0, Zenon DEF Inv, Fits
  <1> QED
    BY <1>1, <1>2, Zenon

\* The tables below the lower half of the pml4 in r, with r.
Under(m, S) == {m[t][i].frame : t \in S, i \in Indices} \ {None}
Lower(m, r) == {m[r][i].frame : i \in 0 .. HIGHER_HALF_ENTRY - 1} \ {None}
Private(m, r) ==
  {r} \cup Lower(m, r) \cup Under(m, Lower(m, r)) \cup Under(m, Under(m, Lower(m, r)))

\* They have the levels below 4, and each has its parent among them.
LEMMA PrivateLevels ==
  ASSUME NEW m, NEW lev, NEW live, Tree(m, lev, live), NEW r \in live
  PROVE  /\ \A f \in Lower(m, r) : f \in Frames /\ lev[f] = 3
         /\ \A f \in Under(m, Lower(m, r)) : f \in Frames /\ lev[f] = 2
         /\ \A f \in Under(m, Under(m, Lower(m, r))) : f \in Frames /\ lev[f] = 1
  <1>0. m \in Tables /\ lev \in [Frames -> Levels] /\ r \in Frames /\ lev[r] = 4
    BY Zenon DEF Tree, Typed
  <1>1. ASSUME NEW t \in Frames, NEW i \in Indices, lev[t] \in 1 .. 4, m[t][i].frame # None
        PROVE  m[t][i].frame \in Frames /\ lev[m[t][i].frame] = lev[t] - 1
    BY <1>0, <1>1 DEF Tree, Leveled, Tables, Entries
  <1>2. ASSUME NEW S, NEW k \in 1 .. 4, \A t \in S : t \in Frames /\ lev[t] = k
        PROVE  \A f \in Under(m, S) : f \in Frames /\ lev[f] = k - 1
    BY <1>1, <1>2 DEF Under
  <1>3. 0 .. HIGHER_HALF_ENTRY - 1 \subseteq Indices
    BY PagingAssumption DEF Indices
  <1>4. \A f \in Lower(m, r) : f \in Frames /\ lev[f] = 3
    BY <1>0, <1>1, <1>3 DEF Lower
  <1>5. \A f \in Under(m, Lower(m, r)) : f \in Frames /\ lev[f] = 2
    BY <1>2, <1>4
  <1>6. \A f \in Under(m, Under(m, Lower(m, r))) : f \in Frames /\ lev[f] = 1
    BY <1>2, <1>5
  <1> QED
    BY <1>4, <1>5, <1>6, Zenon

\* No other table leads to them.
LEMMA PrivateClosed ==
  ASSUME NEW m, NEW lev, NEW live, Tree(m, lev, live), NEW r \in live,
         NEW t \in Frames, NEW i \in Indices, lev[t] \in 1 .. 4,
         m[t][i].frame \in Private(m, r)
  PROVE  t \in Private(m, r)
  <1>0. m \in Tables /\ lev \in [Frames -> Levels] /\ r \in Frames /\ lev[r] = 4
        /\ (\A g \in Identity : lev[g] = 0)
    BY Zenon DEF Tree, Typed
  <1> DEFINE f == m[t][i].frame
  <1>1. 0 .. HIGHER_HALF_ENTRY - 1 \subseteq Indices
    BY PagingAssumption DEF Indices
  <1>2. /\ \A g \in Lower(m, r) : g \in Frames /\ lev[g] = 3
        /\ \A g \in Under(m, Lower(m, r)) : g \in Frames /\ lev[g] = 2
        /\ \A g \in Under(m, Under(m, Lower(m, r))) : g \in Frames /\ lev[g] = 1
    BY PrivateLevels
  <1>3. f \in Frames /\ lev[f] \in 1 .. 4 /\ f # None
    BY <1>0, <1>2, Basics DEF Private
  <1>4. lev[f] = lev[t] - 1 /\ f \notin {None} \cup Identity
    BY <1>0, <1>3 DEF Tree, Leveled
  <1>5. f # r
    BY <1>0, <1>4
  <1>6. ASSUME NEW u \in Frames, NEW j \in Indices, lev[u] \in 1 .. 4, m[u][j].frame = f
        PROVE  j = i /\ (u = t \/ (lev[u] = 4 /\ j >= HIGHER_HALF_ENTRY))
    BY <1>4, <1>6 DEF Tree, OneParent
  <1>7. CASE f \in Lower(m, r)
    <2>1. PICK j \in 0 .. HIGHER_HALF_ENTRY - 1 : m[r][j].frame = f
      BY <1>7, Zenon DEF Lower
    <2>2. ~(j >= HIGHER_HALF_ENTRY) /\ j \in Indices /\ lev[r] \in 1 .. 4
      BY <2>1, <1>0, <1>1, Basics
    <2>3. r = t
      BY <2>1, <2>2, <1>0, <1>6, Zenon
    <2> QED
      BY <2>3, Zenon DEF Private
  <1>8. ASSUME NEW S, f \in Under(m, S), NEW k \in 1 .. 3, \A u \in S : u \in Frames /\ lev[u] = k
        PROVE  t \in S
    <2>1. PICK u \in S, j \in Indices : m[u][j].frame = f
      BY <1>8 DEF Under
    <2>2. u \in Frames /\ lev[u] \in 1 .. 4 /\ lev[u] # 4
      BY <1>8
    <2> QED
      BY <2>1, <2>2, <1>6, Zenon
  <1>9. CASE f \in Under(m, Lower(m, r))
    <2>1. t \in Lower(m, r)
      BY <1>2, <1>8, <1>9
    <2> QED
      BY <2>1, Zenon DEF Private
  <1>10. CASE f \in Under(m, Under(m, Lower(m, r)))
    <2>1. t \in Under(m, Lower(m, r))
      BY <1>2, <1>8, <1>10
    <2> QED
      BY <2>1, Zenon DEF Private
  <1> QED
    BY <1>5, <1>7, <1>9, <1>10, Zenon DEF Private

\* The roles l2 without the pml4 in r and its private tables.
Freed(m, lev, live, r, l2) ==
  /\ l2 \in [Frames -> Levels]
  /\ Tree(m, l2, live \ {r})
  /\ \A f \in Frames : l2[f] # 5 => l2[f] = lev[f] /\ f \notin Private(m, r)

\* The other tables still fit.
LEMMA FreeTree ==
  ASSUME NEW m, NEW lev, NEW live, Tree(m, lev, live), NEW r \in live
  PROVE  \E l2 : Freed(m, lev, live, r, l2)
  <1> DEFINE P == Private(m, r)
             l2 == [f \in Frames |-> IF f \in P THEN 5 ELSE lev[f]]
  <1>0. /\ m \in Tables /\ lev \in [Frames -> Levels] /\ live \subseteq Frames
        /\ r \in Frames /\ lev[r] = 4
        /\ (\A g \in Identity : lev[g] = 0) /\ (\A g \in Frames : lev[g] = 4 <=> g \in live)
    BY Zenon DEF Tree, Typed
  <1>p. /\ r \in P
        /\ \A f \in P : f \in Frames /\ lev[f] \in 1 .. 4 /\ (lev[f] = 4 => f = r)
    <2>1. /\ \A g \in Lower(m, r) : g \in Frames /\ lev[g] = 3
          /\ \A g \in Under(m, Lower(m, r)) : g \in Frames /\ lev[g] = 2
          /\ \A g \in Under(m, Under(m, Lower(m, r))) : g \in Frames /\ lev[g] = 1
      BY PrivateLevels
    <2> QED
      BY <2>1, <1>0 DEF Private
  <1>c. ASSUME NEW t \in Frames, NEW i \in Indices, lev[t] \in 1 .. 4, m[t][i].frame \in P
        PROVE  t \in P
    BY <1>c, PrivateClosed, Zenon
  <1> HIDE DEF P
  <1>1. /\ l2 \in [Frames -> Levels]
        /\ \A f \in Frames : f \in P => l2[f] = 5
        /\ \A f \in Frames : f \notin P => l2[f] = lev[f]
    BY <1>0 DEF Levels
  <1> HIDE DEF l2
  <1>2. \A f \in Frames : l2[f] # 5 => l2[f] = lev[f] /\ f \notin P
    BY <1>1, Zenon
  <1>3. Typed(m, l2, live \ {r})
    <2>1. \A f \in Frames : l2[f] = 4 <=> f \in live \ {r}
      BY <1>0, <1>1, <1>p
    <2>2. \A f \in Identity : l2[f] = 0
      BY <1>0, <1>1, <1>p, Basics
    <2> QED
      BY <2>1, <2>2, <1>0, <1>1, Zenon DEF Typed
  <1>4. Leveled(m, l2)
    <2> SUFFICES ASSUME NEW t \in Frames, NEW i \in Indices, l2[t] \in 1 .. 4, m[t][i].frame # None
                 PROVE  l2[m[t][i].frame] = l2[t] - 1
      BY Zenon DEF Leveled
    <2>1. lev[t] = l2[t] /\ t \notin P
      BY <1>2
    <2>2. m[t][i].frame \in Frames /\ lev[m[t][i].frame] = lev[t] - 1
      BY <2>1, <1>0 DEF Tree, Leveled, Tables, Entries
    <2>3. m[t][i].frame \notin P
      BY <2>1, <1>c, Zenon
    <2> QED
      BY <2>1, <2>2, <2>3, <1>1, Zenon
  <1>5. \A t \in Frames : /\ l2[t] \in 1 .. 4 => lev[t] = l2[t] /\ lev[t] \in 1 .. 4
                          /\ l2[t] \in 1 .. 3 => lev[t] \in 1 .. 3
                          /\ l2[t] \in 2 .. 4 => lev[t] \in 2 .. 4
    BY <1>2
  <1>6. OneParent(m, l2)
    BY <1>5 DEF Tree, OneParent
  <1>7. SharedHalf(m, live \ {r})
    BY Zenon DEF Tree, SharedHalf
  <1>8. WritableAbove(m, l2)
    BY <1>5, Zenon DEF Tree, WritableAbove
  <1>9. Tree(m, l2, live \ {r})
    BY <1>3, <1>4, <1>6, <1>7, <1>8, Zenon DEF Tree
  <1> QED
    BY <1>1, <1>2, <1>9, Zenon DEF Freed, P

\* PageTable::free visits private tables only.
LEMMA VisitedPrivate ==
  ASSUME NEW r
  PROVE  Visited(r).tables \subseteq Private(mem, r)
  <1>1. 0 .. HIGHER_HALF_ENTRY - 1 \subseteq Indices
    BY PagingAssumption DEF Indices
  <1>2. VisitedBy({r}) = Lower(mem, r)
    BY DEF VisitedBy, Lower
  <1>3. ASSUME NEW S, NEW T, S \subseteq T
        PROVE  VisitedBy(S) \subseteq Under(mem, T)
    BY <1>1, <1>3 DEF VisitedBy, Under
  <1>4. VisitedBy(VisitedBy({r})) \subseteq Under(mem, Lower(mem, r))
    BY <1>2, <1>3, Zenon
  <1>5. VisitedBy(VisitedBy(VisitedBy({r}))) \subseteq Under(mem, Under(mem, Lower(mem, r)))
    BY <1>3, <1>4, Zenon
  <1>6. Visited(r).tables = {r} \cup VisitedBy({r}) \cup VisitedBy(VisitedBy({r}))
                              \cup VisitedBy(VisitedBy(VisitedBy({r})))
    BY Zenon DEF Visited
  <1> QED
    BY <1>2, <1>4, <1>5, <1>6, Zenon DEF Private

\* PageTable::free keeps Inv.
LEMMA FreeInv ==
  ASSUME Inv, NEW root \in Frames, FreeRoot(root)
  PROVE  Inv'
  <1>m. /\ ~panicked /\ BootRoot \in LiveRoots
    BY MemoryFacts, Zenon DEF FreeRoot
  <1>l. PICK lev : Tree(mem, lev, LiveRoots) /\ Used(bitmap, lev)
    BY <1>m, MemoryFacts, Zenon
  <1>0. /\ root \in roots /\ root # cr3 /\ panicked' = Panics(root)
        /\ roots' = roots \ {root} /\ mem' = mem /\ cr3' = cr3 /\ heap' = heap
    BY Zenon DEF FreeRoot, Freeable
  <1> DEFINE S == IF Panics(root) THEN {AcpiFrame} ELSE Visited(root).tables
  <1>b. bitmap' = [f \in Frames |-> IF f \in S THEN 1 - bitmap[f] ELSE bitmap[f]]
    BY Zenon DEF FreeRoot
  <1>s. ~Panics(root) => S = Visited(root).tables
    BY Zenon
  <1> HIDE DEF S
  <1>1. LiveRoots' = LiveRoots \ {root} /\ root # BootRoot
    BY <1>0, Zenon DEF LiveRoots, Inv
  <1>2. PICK l2 \in [Frames -> Levels] :
          /\ Tree(mem, l2, LiveRoots \ {root})
          /\ \A f \in Frames : l2[f] # 5 => l2[f] = lev[f] /\ f \notin Private(mem, root)
    <2>1. root \in LiveRoots
      BY <1>0, Zenon DEF LiveRoots
    <2>2. PICK l2 : Freed(mem, lev, LiveRoots, root, l2)
      BY <2>1, <1>l, FreeTree, Zenon
    <2> QED
      BY <2>2, Zenon DEF Freed
  <1>3. bitmap' \in [Frames -> {0, 1}]
    <2>1. \A f \in Frames : bitmap[f] \in {0, 1}
      BY <1>l, Zenon DEF Used
    <2>2. \A f \in Frames : 1 - bitmap[f] \in {0, 1}
      BY <2>1
    <2> QED
      BY <2>1, <2>2, <1>b, Zenon
  <1>4. ~panicked' => Used(bitmap', l2)
    <2> SUFFICES ASSUME ~Panics(root), NEW f \in Frames, l2[f] # 5 PROVE bitmap'[f] = 1
      BY <1>0, <1>3, Zenon DEF Used
    <2>1. f \notin S
      BY <1>2, <1>s, VisitedPrivate, Zenon
    <2>2. bitmap'[f] = bitmap[f] /\ lev[f] # 5
      BY <2>1, <1>2, <1>b, Zenon
    <2> QED
      BY <2>2, <1>l, Zenon DEF Used
  <1>5. TypeOK' /\ BootRoot \notin roots'
    <2>1. panicked' \in BOOLEAN
      BY <1>0 DEF Panics
    <2>2. cr3' \in LiveRoots'
      BY <1>0, <1>1, SMTT(30) DEF Inv, TypeOK
    <2> QED
      BY <2>1, <2>2, <1>0, <1>3, Zenon DEF Inv, TypeOK, BootRoot
  <1>6. HeapWalks(mem', heap') /\ HeapEntry(mem', LiveRoots') /\ LowerPaths(mem', LiveRoots')
    BY <1>0, <1>1, Zenon DEF Inv, HeapEntry, LowerPaths
  <1>7. Fits(l2)'
    BY <1>0, <1>1, <1>2, <1>4, Zenon DEF Fits
  <1> QED
    BY <1>2, <1>5, <1>6, <1>7, Zenon DEF Inv

\* init_heap establishes Inv.
LEMMA InitInv == Init => Inv
  <1> SUFFICES ASSUME Init PROVE Inv
    BY Zenon
  <1> DEFINE b0 == [f \in Frames |-> IF f \in {BootRoot, AcpiFrame, LapicFrame} THEN 1 ELSE 0]
             m0 == [f \in Frames |-> Zeroized]
             s0 == [bitmap |-> b0, mem |-> m0, at |-> BootRoot, ok |-> TRUE]
             p == HeapPages[1]
             z == MapHeapPage(s0, BootRoot, p)
             lev == [f \in Frames |-> IF f = BootRoot THEN 4 ELSE IF f \in Identity THEN 0 ELSE 5]
             live == {BootRoot}
  <1>0. /\ z.ok /\ bitmap = z.bitmap /\ mem = z.mem /\ cr3 = BootRoot /\ roots = {} /\ heap = 1
        /\ panicked = FALSE
    BY Zenon DEF Init
  <1>1. b0 \in [Frames -> {0, 1}] /\ m0 \in Tables /\ lev \in [Frames -> Levels]
    BY Basics DEF Tables, Entries, Zeroized, NoEntry, Levels
  <1>2. s0 \in States /\ s0.ok /\ s0.mem = m0 /\ s0.bitmap = b0
    BY <1>1, Basics, Zenon DEF States
  <1>3. \A t \in Frames, i \in Indices : m0[t][i] = NoEntry
    BY Zenon DEF Zeroized
  <1>4. /\ lev[BootRoot] = 4 /\ (\A f \in Identity : lev[f] = 0)
        /\ (\A f \in Frames : lev[f] = 4 <=> f \in live)
        /\ (\A f \in Frames : lev[f] # 5 => b0[f] = 1)
    BY Basics DEF Identity
  <1>z. z = MapHeapPage(s0, BootRoot, p)
    BY Zenon
  <1>p. p = HeapPages[1] /\ live = {BootRoot} /\ BootRoot \in live
    BY Zenon
  <1> HIDE DEF b0, m0, s0, p, z, lev, live
  <1>5. Tree(m0, lev, live) /\ Used(b0, lev)
    <2>1. NoEntry.frame = None
      BY Zenon DEF NoEntry
    <2>2. Typed(m0, lev, live)
      BY <1>1, <1>4, Basics, <1>p, Zenon DEF Typed
    <2>3. Leveled(m0, lev) /\ OneParent(m0, lev)
      BY <1>3, <2>1, Zenon DEF Leveled, OneParent
    <2>4. WritableAbove(m0, lev)
      BY <1>3, <2>1, Zenon DEF WritableAbove
    <2>5. SharedHalf(m0, live)
      BY <1>p, Zenon DEF SharedHalf
    <2> QED
      BY <2>2, <2>3, <2>4, <2>5, <1>1, <1>4, Zenon DEF Tree, Used
  <1>6. p \in Pages /\ p[1] >= HIGHER_HALF_ENTRY /\ p[1] \in Indices
    BY KernelPages, PageFacts, <1>p
  <1>7. Top(s0.mem, lev, live, BootRoot, p[1])
    BY <1>p, SMTT(30) DEF Top
  <1>8. /\ Maps(s0, live, BootRoot, p, z)
        /\ Mapped(mem, BootRoot, p)
        /\ mem[T1(mem, BootRoot, p)][p[4]].frame \notin {None} \cup Identity
        /\ mem[T1(mem, BootRoot, p)][p[4]].writable
    <2>1. Tree(s0.mem, lev, live) /\ Used(s0.bitmap, lev)
      BY <1>2, <1>5, Zenon
    <2> QED
      BY <2>1, <1>0, <1>2, <1>6, <1>7, <1>p, <1>z, MapHeap, Zenon
  <1>9. PICK l0, l2 : MapStep(m0, l0, mem, l2, live, BootRoot, p, TRUE) /\ Used(bitmap, l2)
    <2>1. z.ok = TRUE
      BY <1>0, <1>8, Zenon DEF Maps, States
    <2> QED
      BY <2>1, <1>0, <1>2, <1>8, Zenon DEF Maps
  <1>10. Tree(mem, l2, live) /\ l2 \in [Frames -> Levels] /\ mem \in Tables /\ bitmap \in [Frames -> {0, 1}]
    BY <1>9, Zenon DEF MapStep, Tree, Typed, Used
  <1>11. LiveRoots = live
    BY <1>0, <1>p, Zenon DEF LiveRoots
  <1>12. LowerPaths(mem, live)
    <2>1. LowerPaths(m0, live)
      <3> SUFFICES ASSUME NEW r \in live, NEW a \in Indices, NEW b \in Indices, NEW c \in Indices
                   PROVE  LowerPath(m0, a, b, c, m0[r][a].frame, m0[m0[r][a].frame][b].frame)
        BY Zenon DEF LowerPaths
      <3>1. m0[r][a].frame = None
        <4>1. m0[r][a] = NoEntry
          BY <1>3, <1>p, Basics, Zenon
        <4> QED
          BY <4>1 DEF NoEntry
      <3> QED
        BY <3>1, Zenon DEF LowerPath
    <2>2. ~(p[1] < HIGHER_HALF_ENTRY)
      <3>1. p[1] \in Nat /\ HIGHER_HALF_ENTRY \in Nat
        BY <1>6, Basics, Zenon
      <3> QED
        BY <3>1, <1>6
    <2> QED
      BY <2>1, <2>2, <1>9, LowerPathsKept, Zenon
  <1>13. HeapEntry(mem, live)
    <2>1. mem[BootRoot][p[1]].writable
      BY <1>6, <1>8, <1>10, <1>p, WritableUp, Zenon
    <2>2. mem[BootRoot][p[1]].frame # None
      BY <1>8, Zenon DEF Mapped, T3
    <2> QED
      BY <2>1, <2>2, <1>p, Zenon DEF HeapEntry
  <1>14. HeapWalks(mem, heap)
    <2>1. \A i \in 1 .. heap : i = 1
      BY <1>0
    <2> QED
      BY <2>1, <1>8, <1>p, Zenon DEF HeapWalks
  <1>15. TypeOK /\ BootRoot \notin roots
    <2>1. heap \in 1 .. Len(HeapPages)
      BY <1>0, KernelPages
    <2> QED
      BY <2>1, <1>0, <1>10, <1>11, <1>p, Zenon DEF TypeOK, Tables, Entries
  <1> QED
    BY <1>9, <1>10, <1>11, <1>12, <1>13, <1>14, <1>15, Zenon DEF Inv, Fits

\* Every step keeps Inv.
LEMMA NextInv == Inv /\ [Next]_vars => Inv'
  <1> SUFFICES ASSUME Inv, [Next]_vars PROVE Inv'
    BY Zenon
  <1>1. CASE CreateRoot
    BY <1>1, CreateInv, Zenon
  <1>2. CASE SendEoi
    <2>1. /\ bitmap' = map_to(Memory, cr3, LapicPage, LapicFrame, TRUE).bitmap
          /\ mem' = map_to(Memory, cr3, LapicPage, LapicFrame, TRUE).mem
          /\ panicked' = ~map_to(Memory, cr3, LapicPage, LapicFrame, TRUE).ok
          /\ ~panicked /\ UNCHANGED <<cr3, roots, heap>>
      BY <1>2, Zenon DEF SendEoi, Commit
    <2>2. LapicFrame \in Identity
      BY Zenon DEF Identity
    <2> QED
      BY <2>1, <2>2, IdentityInv, Zenon
  <1>3. CASE MapAcpi
    <2>1. /\ bitmap' = map_to(Memory, cr3, AcpiPage, AcpiFrame, FALSE).bitmap
          /\ mem' = map_to(Memory, cr3, AcpiPage, AcpiFrame, FALSE).mem
          /\ panicked' = ~map_to(Memory, cr3, AcpiPage, AcpiFrame, FALSE).ok
          /\ ~panicked /\ UNCHANGED <<cr3, roots, heap>>
      BY <1>3, Zenon DEF MapAcpi, Commit
    <2>2. AcpiFrame \in Identity
      BY Zenon DEF Identity
    <2> QED
      BY <2>1, <2>2, IdentityInv, Zenon
  <1>4. CASE ExtendHeap
    BY <1>4, ExtendInv
  <1>5. ASSUME NEW root \in Frames, LoadCr3(root) PROVE Inv'
    <2>1. /\ bitmap' = bitmap /\ mem' = mem /\ roots' = roots /\ heap' = heap /\ panicked' = panicked
          /\ cr3' \in roots
      BY <1>5, Zenon DEF LoadCr3
    <2>2. LiveRoots' = LiveRoots /\ cr3' \in LiveRoots
      BY <2>1, Zenon DEF LiveRoots
    <2> QED
      BY <2>1, <2>2, Zenon DEF Inv, TypeOK, Fits
  <1>6. ASSUME NEW root \in Frames, FreeRoot(root) PROVE Inv'
    BY <1>6, FreeInv, Zenon
  <1>7. CASE UNCHANGED vars
    BY <1>7, Zenon DEF vars, Inv, TypeOK, Fits, LiveRoots
  <1> QED
    BY <1>1, <1>2, <1>3, <1>4, <1>5, <1>6, <1>7, Zenon DEF Next

\* Every reachable state of the page tables has frames with one role each: Inv.
THEOREM Invariance == Spec => []Inv
  BY InitInv, NextInv, PTL DEF Spec
-----------------------------------------------------------------------------
(* What follows from it *)

\* The levels of the tables and pages of an address space.
LEMMA Roles ==
  ASSUME NEW lev, Tree(mem, lev, LiveRoots), NEW r \in LiveRoots
  PROVE  /\ \A f \in PointedToBy({r}) : f \in Frames /\ lev[f] = 3
         /\ \A f \in PointedToBy(PointedToBy({r})) : f \in Frames /\ lev[f] = 2
         /\ \A f \in PointedToBy(PointedToBy(PointedToBy({r}))) : f \in Frames /\ lev[f] = 1
         /\ \A f \in TablesOf(r) : f \in Frames /\ lev[f] \in 1 .. 4
         /\ \A f \in MappedBy(r) : f \in Frames /\ lev[f] = 0
  <1>0. mem \in Tables /\ lev \in [Frames -> Levels] /\ r \in Frames /\ lev[r] = 4
    BY Zenon DEF Tree, Typed
  <1>1. ASSUME NEW t \in Frames, NEW i \in Indices, lev[t] \in 1 .. 4, mem[t][i].frame # None
        PROVE  mem[t][i].frame \in Frames /\ lev[mem[t][i].frame] = lev[t] - 1
    BY <1>0, <1>1 DEF Tree, Leveled, Tables, Entries
  <1>2. ASSUME NEW S, NEW k \in 1 .. 4, \A t \in S : t \in Frames /\ lev[t] = k
        PROVE  \A f \in PointedToBy(S) : f \in Frames /\ lev[f] = k - 1
    BY <1>1, <1>2 DEF PointedToBy
  <1>3. \A f \in PointedToBy({r}) : f \in Frames /\ lev[f] = 3
    BY <1>0, <1>2
  <1>4. \A f \in PointedToBy(PointedToBy({r})) : f \in Frames /\ lev[f] = 2
    BY <1>2, <1>3
  <1>5. \A f \in PointedToBy(PointedToBy(PointedToBy({r}))) : f \in Frames /\ lev[f] = 1
    BY <1>2, <1>4
  <1>6. \A f \in MappedBy(r) : f \in Frames /\ lev[f] = 0
    BY <1>2, <1>5 DEF MappedBy
  <1>7. \A f \in TablesOf(r) : f \in Frames /\ lev[f] \in 1 .. 4
    BY <1>0, <1>3, <1>4, <1>5 DEF TablesOf
  <1> QED
    BY <1>3, <1>4, <1>5, <1>6, <1>7, Zenon

\* In every reachable state, no table or mapped frame of an address space is free
\* in the bitmap, unless PageTable::free has panicked.
THEOREM NoDangling == Spec => []NoDanglingTable
  <1>1. Inv => NoDanglingTable
    <2> SUFFICES ASSUME Inv, ~panicked, NEW r \in LiveRoots, NEW f \in TablesOf(r) \cup MappedBy(r)
                 PROVE  bitmap[f] = 1
      BY Zenon DEF NoDanglingTable, Inv
    <2>1. PICK lev : Tree(mem, lev, LiveRoots) /\ Used(bitmap, lev)
      BY MemoryFacts, Zenon
    <2>2. f \in Frames /\ (lev[f] \in 1 .. 4 \/ lev[f] = 0)
      <3>1. \A g \in TablesOf(r) : g \in Frames /\ lev[g] \in 1 .. 4
        BY <2>1, Roles, Zenon
      <3>2. \A g \in MappedBy(r) : g \in Frames /\ lev[g] = 0
        BY <2>1, Roles, Zenon
      <3> QED
        BY <3>1, <3>2, Zenon
    <2> QED
      BY <2>1, <2>2 DEF Used
  <1> QED
    BY <1>1, Invariance, PTL

\* The processor's walk to a page with tables at all levels.
LEMMA WalkMapped ==
  ASSUME NEW r, NEW p, Mapped(mem, r, p)
  PROVE  Walk(r, p) = <<mem[r][p[1]], mem[T3(mem, r, p)][p[2]], mem[T2(mem, r, p)][p[3]],
                        mem[T1(mem, r, p)][p[4]]>>
  BY Zenon DEF Walk, Mapped, T3, T2, T1, is_mapped

\* In every reachable state all address spaces map the heap alike.
THEOREM HeapIsShared == Spec => []HeapShared
  <1>1. Inv => HeapShared
    <2> SUFFICES ASSUME Inv, NEW r \in LiveRoots, NEW i \in 1 .. heap
                 PROVE  /\ is_mapped(Walk(r, HeapPages[i])[4])
                        /\ Walk(r, HeapPages[i]) = Walk(BootRoot, HeapPages[i])
      BY Zenon DEF HeapShared
    <2>1. PICK lev : Tree(mem, lev, LiveRoots)
      BY Zenon DEF Inv, Fits
    <2>2. PICK p : p = HeapPages[i]
      BY Zenon
    <2>3. i \in 1 .. Len(HeapPages) /\ BootRoot \in LiveRoots
      BY KernelPages DEF Inv, TypeOK, LiveRoots
    <2>4. p \in Pages /\ p[1] >= HIGHER_HALF_ENTRY
      BY <2>2, <2>3, KernelPages, Zenon
    <2>5. p[1] \in Indices
      BY <2>4, PageFacts
    <2>6. mem[r][p[1]] = mem[BootRoot][p[1]]
      BY <2>1, <2>3, <2>4, <2>5, Zenon DEF Tree, SharedHalf
    <2>7. Walk(r, p) = Walk(BootRoot, p)
      BY <2>6, Zenon DEF Walk
    <2>8. Mapped(mem, BootRoot, p) /\ mem[T1(mem, BootRoot, p)][p[4]].frame # None
      BY <2>2, Zenon DEF Inv, HeapWalks
    <2>9. Walk(BootRoot, p)[4] = mem[T1(mem, BootRoot, p)][p[4]]
      BY <2>8, WalkMapped
    <2> QED
      BY <2>2, <2>7, <2>8, <2>9, Zenon DEF is_mapped
  <1> QED
    BY <1>1, Invariance, PTL

\* In every reachable state no frame serves two purposes.
THEOREM Exclusive == Spec => []FramesExclusive
  <1>1. ASSUME Inv PROVE FramesExclusive
    <2>1. PICK lev : Tree(mem, lev, LiveRoots)
      BY <1>1, Zenon DEF Inv, Fits
    <2>0. mem \in Tables /\ lev \in [Frames -> Levels] /\ \A g \in Identity : lev[g] = 0
      BY <2>1, Zenon DEF Tree, Typed
    <2>b. BootRoot \in LiveRoots
      BY Zenon DEF LiveRoots
    <2>2. ASSUME NEW r \in LiveRoots, NEW q \in LiveRoots
          PROVE  TablesOf(r) \cap MappedBy(q) = {}
      <3>1. \A f \in TablesOf(r) : f \in Frames /\ lev[f] \in 1 .. 4
        BY <2>1, Roles, Zenon
      <3>2. \A f \in MappedBy(q) : f \in Frames /\ lev[f] = 0
        BY <2>1, Roles, Zenon
      <3> QED
        BY <3>1, <3>2
    <2>3. ASSUME NEW r \in LiveRoots, NEW q \in LiveRoots, r # q,
                 NEW f \in VisitedBy({r}), f \in TablesOf(q)
          PROVE  FALSE
      <3>0. r \in Frames /\ lev[r] = 4 /\ q \in Frames /\ lev[q] = 4
        BY <2>1, Zenon DEF Tree, Typed
      <3>1. PICK i \in 0 .. HIGHER_HALF_ENTRY - 1 : mem[r][i].frame = f /\ f # None
        BY <2>3 DEF VisitedBy
      <3>2. i \in Indices /\ ~(i >= HIGHER_HALF_ENTRY)
        BY PagingAssumption DEF Indices
      <3>3. lev[f] = 3
        BY <3>0, <3>1, <3>2, <2>1 DEF Tree, Leveled
      <3>4. /\ \A g \in PointedToBy(PointedToBy({q})) : lev[g] = 2
            /\ \A g \in PointedToBy(PointedToBy(PointedToBy({q}))) : lev[g] = 1
        BY <2>1, Roles
      <3>5. f \in PointedToBy({q})
        BY <3>0, <3>3, <3>4, <2>3 DEF TablesOf
      <3>6. PICK j \in Indices : mem[q][j].frame = f
        BY <3>5 DEF PointedToBy
      <3>7. lev[r] \in 2 .. 4 /\ lev[q] \in 2 .. 4 /\ mem[r][i].frame = mem[q][j].frame /\ mem[r][i].frame # None
        BY <3>0, <3>1, <3>6
      <3>8. i = j /\ (r = q \/ (lev[r] = 4 /\ i >= HIGHER_HALF_ENTRY))
        BY <3>0, <3>2, <3>7, <2>1, SameParent
      <3> QED
        BY <3>2, <3>8, <2>3, Zenon
    <2>4. ASSUME NEW i \in 1 .. heap, NEW j \in 1 .. heap,
                 Walk(BootRoot, HeapPages[i])[4].frame = Walk(BootRoot, HeapPages[j])[4].frame
          PROVE  i = j
      <3>1. i \in 1 .. Len(HeapPages) /\ j \in 1 .. Len(HeapPages)
        BY <1>1, KernelPages DEF Inv, TypeOK
      <3>2. PICK p, x : p = HeapPages[i] /\ x = HeapPages[j]
        BY Zenon
      <3>3. p \in Pages /\ x \in Pages /\ (p = x => i = j)
        BY <3>1, <3>2, KernelPages, SMTT(30)
      <3>4. /\ Mapped(mem, BootRoot, p) /\ Mapped(mem, BootRoot, x)
            /\ mem[T1(mem, BootRoot, p)][p[4]].frame \notin {None} \cup Identity
        BY <3>2, <1>1, Zenon DEF Inv, HeapWalks
      <3>5. Walk(BootRoot, p)[4] = mem[T1(mem, BootRoot, p)][p[4]]
        BY <3>4, WalkMapped
      <3>6. Walk(BootRoot, x)[4] = mem[T1(mem, BootRoot, x)][x[4]]
        BY <3>4, WalkMapped
      <3>7. mem[T1(mem, BootRoot, p)][p[4]].frame = mem[T1(mem, BootRoot, x)][x[4]].frame
        BY <3>2, <3>5, <3>6, <2>4, Zenon
      <3>8. /\ T1(mem, BootRoot, p) \in Frames /\ lev[T1(mem, BootRoot, p)] = 1
            /\ T1(mem, BootRoot, x) \in Frames /\ lev[T1(mem, BootRoot, x)] = 1
        BY <3>3, <3>4, <2>1, <2>b, PathLevels DEF Mapped
      <3>9. p[4] \in Indices /\ x[4] \in Indices
        BY <3>3, PageFacts
      <3>10. p[4] = x[4] /\ T1(mem, BootRoot, p) = T1(mem, BootRoot, x)
        BY <3>4, <3>7, <3>8, <3>9, <2>1 DEF Tree, OneParent
      <3>11. p[1] = x[1] /\ p[2] = x[2] /\ p[3] = x[3]
        BY <3>3, <3>4, <3>10, <2>1, <2>b, SameTable
      <3>12. \A l \in 1 .. 4 : p[l] = x[l]
        <4>1. \A l \in 1 .. 4 : l = 1 \/ l = 2 \/ l = 3 \/ l = 4
          OBVIOUS
        <4> QED
          BY <4>1, <3>10, <3>11, Zenon
      <3> QED
        BY <3>3, <3>12, PageFacts, Zenon
    <2> QED
      BY <2>2, <2>3, <2>4, Zenon DEF FramesExclusive
  <1> QED
    BY <1>1, Invariance, PTL

\* In every reachable state the pages mapped writable can be written to.
THEOREM Writable == Spec => []WritablePaths
  <1>1. Inv => WritablePaths
    <2> SUFFICES ASSUME Inv, NEW r \in LiveRoots, NEW p \in MappedPages,
                        is_mapped(Walk(r, p)[4]), Walk(r, p)[4].writable, NEW l \in 1 .. 3
                 PROVE  Walk(r, p)[l].writable
      BY Zenon DEF WritablePaths
    <2>1. PICK lev : Tree(mem, lev, LiveRoots)
      BY Zenon DEF Inv, Fits
    <2>2. p \in Pages
      <3>1. \A i \in 1 .. heap : HeapPages[i] \in Pages
        BY KernelPages, SMTT(30) DEF Inv, TypeOK
      <3> QED
        BY <3>1, IdentityAssumption, Zenon DEF MappedPages
    <2>3. Mapped(mem, r, p)
      BY Zenon DEF Walk, is_mapped, NoEntry, Mapped, T3, T2, T1
    <2>4. Walk(r, p) = <<mem[r][p[1]], mem[T3(mem, r, p)][p[2]], mem[T2(mem, r, p)][p[3]],
                         mem[T1(mem, r, p)][p[4]]>>
      BY <2>3, WalkMapped, Zenon
    <2>5. mem[T1(mem, r, p)][p[4]].frame # None /\ mem[T1(mem, r, p)][p[4]].writable
      BY <2>4 DEF is_mapped
    <2>6. mem[r][p[1]].writable /\ mem[T3(mem, r, p)][p[2]].writable /\ mem[T2(mem, r, p)][p[3]].writable
      BY <2>1, <2>2, <2>3, <2>5, WritableUp, Zenon
    <2>7. l = 1 \/ l = 2 \/ l = 3
      OBVIOUS
    <2> QED
      BY <2>4, <2>6, <2>7
  <1> QED
    BY <1>1, Invariance, PTL

\* The entries on the way to a table below the lower half of a pml4.
LEMMA LowerFreed ==
  ASSUME Inv, NEW r \in LiveRoots, NEW a \in Indices, NEW b \in Indices, NEW c \in Indices,
         a < HIGHER_HALF_ENTRY, NEW t, t = mem[r][a].frame, t # None,
         NEW u, u = mem[t][b].frame, u # None
  PROVE  /\ b < HIGHER_HALF_ENTRY
         /\ c >= HIGHER_HALF_ENTRY /\ mem[u][c].frame # None =>
              \E p \in {LapicPage, AcpiPage} :
                p[3] >= HIGHER_HALF_ENTRY /\ Walk(r, p)[3].frame = mem[u][c].frame
  <1>1. LowerPath(mem, a, b, c, t, u)
    BY SMTT(30) DEF Inv, LowerPaths
  <1>2. ASSUME NEW p, p[1] = a, p[2] = b, p[3] = c
        PROVE  Walk(r, p)[3].frame = mem[u][c].frame
    BY <1>2, Zenon DEF Walk, is_mapped
  <1> QED
    BY <1>1, <1>2, Zenon DEF LowerPath

\* Where the tables of an address space are: shared with the boot loader's pml4,
\* visited by PageTable::free, or a level 1 table of an identity mapped page.
LEMMA TablesFound ==
  ASSUME Inv, NEW r \in LiveRoots, NEW f \in TablesOf(r)
  PROVE  \/ f \in Visited(r).tables
         \/ f \in TablesOf(BootRoot)
         \/ \E p \in {LapicPage, AcpiPage} : p[3] >= HIGHER_HALF_ENTRY /\ f = Walk(r, p)[3].frame
  <1>1. PICK lev : Tree(mem, lev, LiveRoots)
    BY Zenon DEF Inv, Fits
  <1>0. HIGHER_HALF_ENTRY \in Nat /\ 0 \in Indices /\ \A i \in Indices : i \in Nat
    BY PagingAssumption, Basics DEF Indices
  <1>i. \A i \in Indices : i < HIGHER_HALF_ENTRY => i \in 0 .. HIGHER_HALF_ENTRY - 1
    BY <1>0
  <1>s. \A i \in Indices : i < HIGHER_HALF_ENTRY \/ mem[r][i] = mem[BootRoot][i]
    <2>1. BootRoot \in LiveRoots
      BY Zenon DEF LiveRoots
    <2>2. \A i \in Indices : i < HIGHER_HALF_ENTRY \/ i >= HIGHER_HALF_ENTRY
      BY <1>0
    <2> QED
      BY <2>1, <2>2, <1>1, Zenon DEF Tree, SharedHalf
  <1>t. /\ Visited(r).tables = {r} \cup VisitedBy({r}) \cup VisitedBy(VisitedBy({r}))
                                 \cup VisitedBy(VisitedBy(VisitedBy({r})))
        /\ \A q : TablesOf(q) = {q} \cup PointedToBy({q}) \cup PointedToBy(PointedToBy({q}))
                                  \cup PointedToBy(PointedToBy(PointedToBy({q})))
    BY Zenon DEF Visited, TablesOf
  <1>v. ASSUME NEW S, NEW t \in S, NEW i \in Indices, i < HIGHER_HALF_ENTRY, mem[t][i].frame # None
        PROVE  mem[t][i].frame \in VisitedBy(S)
    BY <1>v, <1>i DEF VisitedBy
  <1>w. ASSUME NEW S, NEW t \in S, NEW i \in Indices, mem[t][i].frame # None
        PROVE  mem[t][i].frame \in PointedToBy(S)
    BY <1>w DEF PointedToBy
  <1>p. ASSUME NEW S, NEW x \in PointedToBy(S)
        PROVE  \E t \in S, i \in Indices : mem[t][i].frame = x /\ x # None
    BY <1>p DEF PointedToBy
  <1>2. CASE f = r
    BY <1>2, <1>t, Zenon
  <1>3. CASE f \in PointedToBy({r})
    <2>1. PICK a \in Indices : mem[r][a].frame = f /\ f # None
      BY <1>3, <1>p
    <2>2. CASE a < HIGHER_HALF_ENTRY
      <3>1. f \in VisitedBy({r})
        BY <2>1, <2>2, <1>v, Zenon
      <3> QED
        BY <3>1, <1>t, Zenon
    <2>3. CASE mem[r][a] = mem[BootRoot][a]
      <3>1. f \in PointedToBy({BootRoot})
        BY <2>1, <2>3, <1>w, Zenon
      <3> QED
        BY <3>1, <1>t, Zenon
    <2> QED
      BY <2>2, <2>3, <1>s, Zenon
  <1>4. CASE f \in PointedToBy(PointedToBy({r}))
    <2>1. PICK t \in PointedToBy({r}), b \in Indices : mem[t][b].frame = f /\ f # None
      BY <1>4, <1>p, Zenon
    <2>2. PICK a \in Indices : mem[r][a].frame = t /\ t # None
      BY <2>1, <1>p
    <2>3. CASE a < HIGHER_HALF_ENTRY
      <3>1. b < HIGHER_HALF_ENTRY
        BY <2>1, <2>2, <2>3, <1>0, LowerFreed, SMTT(30)
      <3>2. t \in VisitedBy({r})
        BY <2>2, <2>3, <1>v, Zenon
      <3>3. f \in VisitedBy(VisitedBy({r}))
        BY <3>1, <3>2, <2>1, <1>v, Zenon
      <3> QED
        BY <3>3, <1>t, Zenon
    <2>4. CASE mem[r][a] = mem[BootRoot][a]
      <3>1. t \in PointedToBy({BootRoot})
        BY <2>2, <2>4, <1>w, Zenon
      <3>2. f \in PointedToBy(PointedToBy({BootRoot}))
        BY <3>1, <2>1, <1>w, Zenon
      <3> QED
        BY <3>2, <1>t, Zenon
    <2> QED
      BY <2>3, <2>4, <1>s, Zenon
  <1>5. CASE f \in PointedToBy(PointedToBy(PointedToBy({r})))
    <2>1. PICK u \in PointedToBy(PointedToBy({r})), c \in Indices : mem[u][c].frame = f /\ f # None
      BY <1>5, <1>p, Zenon
    <2>2. PICK t \in PointedToBy({r}), b \in Indices : mem[t][b].frame = u /\ u # None
      BY <2>1, <1>p, Zenon
    <2>3. PICK a \in Indices : mem[r][a].frame = t /\ t # None
      BY <2>2, <1>p
    <2>4. CASE a < HIGHER_HALF_ENTRY
      <3>1. /\ b < HIGHER_HALF_ENTRY
            /\ c >= HIGHER_HALF_ENTRY /\ mem[u][c].frame # None =>
                 \E p \in {LapicPage, AcpiPage} :
                   p[3] >= HIGHER_HALF_ENTRY /\ Walk(r, p)[3].frame = mem[u][c].frame
        BY <2>1, <2>2, <2>3, <2>4, LowerFreed, SMTT(30)
      <3>2. CASE c < HIGHER_HALF_ENTRY
        <4>1. t \in VisitedBy({r})
          BY <2>3, <2>4, <1>v, Zenon
        <4>2. u \in VisitedBy(VisitedBy({r}))
          BY <4>1, <3>1, <2>2, <1>v, Zenon
        <4>3. f \in VisitedBy(VisitedBy(VisitedBy({r})))
          BY <4>2, <3>2, <2>1, <1>v, Zenon
        <4> QED
          BY <4>3, <1>t, Zenon
      <3>3. CASE c >= HIGHER_HALF_ENTRY
        BY <3>1, <3>3, <2>1, Zenon
      <3> QED
        BY <3>2, <3>3, <1>0, SMTT(30)
    <2>5. CASE mem[r][a] = mem[BootRoot][a]
      <3>1. t \in PointedToBy({BootRoot})
        BY <2>3, <2>5, <1>w, Zenon
      <3>2. u \in PointedToBy(PointedToBy({BootRoot}))
        BY <3>1, <2>2, <1>w, Zenon
      <3>3. f \in PointedToBy(PointedToBy(PointedToBy({BootRoot})))
        BY <3>2, <2>1, <1>w, Zenon
      <3> QED
        BY <3>3, <1>t, Zenon
    <2> QED
      BY <2>4, <2>5, <1>s, Zenon
  <1> QED
    BY <1>2, <1>3, <1>4, <1>5, <1>t, Zenon

\* Process::free leaves nothing behind but shared tables and the level 1 tables of
\* identity mapped pages in the upper half of a level 2 table.
THEOREM FreeLeaks == Spec => FreeLeaksUpperHalf
  <1> DEFINE Leaks(r, f) ==
        \/ bitmap'[f] = 0
        \/ \E q \in LiveRoots \ {r} : f \in TablesOf(q)
        \/ \E p \in {LapicPage, AcpiPage} :
             p[3] >= HIGHER_HALF_ENTRY /\ f = Walk(r, p)[3].frame
      A == \A r \in roots \ roots' : ~panicked' => \A f \in TablesOf(r) : Leaks(r, f)
  <1>1. ASSUME Inv, [Next]_vars PROVE A
    <2> SUFFICES ASSUME NEW r \in roots \ roots', ~panicked', NEW f \in TablesOf(r)
                 PROVE  Leaks(r, f)
      BY Zenon
    <2>1. FreeRoot(r)
      <3>1. r \in Frames
        BY <1>1, Zenon DEF Inv, TypeOK
      <3>2. roots' # roots
        BY Zenon
      <3>3. ~CreateRoot
        BY Zenon DEF CreateRoot
      <3>4. PICK root \in Frames : FreeRoot(root)
        BY <1>1, <3>2, <3>3, Zenon DEF Next, SendEoi, MapAcpi, ExtendHeap, LoadCr3, vars
      <3>5. roots' = roots \ {root}
        BY <3>4, Zenon DEF FreeRoot
      <3> QED
        BY <3>4, <3>5, Zenon
    <2>2. r \in LiveRoots /\ BootRoot \in LiveRoots \ {r} /\ ~panicked
      BY <1>1, <2>1, Zenon DEF LiveRoots, Inv, FreeRoot
    <2>3. PICK lev : Tree(mem, lev, LiveRoots) /\ Used(bitmap, lev)
      BY <1>1, <2>2, MemoryFacts, Zenon
    <2>4. f \in Frames /\ bitmap[f] = 1
      <3>1. f \in Frames /\ lev[f] \in 1 .. 4
        BY <2>2, <2>3, Roles, Zenon
      <3> QED
        BY <3>1, <2>3 DEF Used
    <2>5. CASE f \in Visited(r).tables
      <3>1. ~Panics(r)
        BY <2>1, Zenon DEF FreeRoot
      <3>2. bitmap'[f] = 1 - bitmap[f]
        BY <2>1, <2>4, <2>5, <3>1, Zenon DEF FreeRoot
      <3> QED
        BY <2>4, <3>2
    <2>6. CASE f \in TablesOf(BootRoot)
      BY <2>2, <2>6, Zenon
    <2> QED
      BY <1>1, <2>2, <2>5, <2>6, TablesFound, Zenon
  <1>2. Inv /\ [Next]_vars => [A]_vars
    BY <1>1, Zenon
  <1>3. Spec => [][A]_vars
    BY <1>2, Invariance, PTL DEF Spec
  <1> QED
    BY <1>3, Zenon DEF FreeLeaksUpperHalf
=============================================================================
