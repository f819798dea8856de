---------------------------- MODULE MappingProofs ---------------------------
(***************************************************************************)
(* Lemmas about the operators of Paging, for every memory size, table size *)
(* and set of pages, and the inductive invariant that PagingProofs proves. *)
(*                                                                         *)
(* The inductive invariant says that every frame has one role: a table of  *)
(* one level, a page, or neither.  Roles are not part of the state, so the *)
(* invariant says that some assignment lev of roles fits the tables: an    *)
(* entry leads one level down, a table has one parent entry (or, below the *)
(* higher half, the same entry of every pml4), and a frame with a role is  *)
(* used.                                                                   *)
(***************************************************************************)
EXTENDS Paging, WellFoundedInduction, TLAPS

\* 4 .. 1: a table of this level; 0: a page; 5: neither.
Levels == 0 .. 5
Entries == [frame : Frames \cup {None}, writable : BOOLEAN]
Tables == [Frames -> [Indices -> Entries]]
Identity == {LapicFrame, AcpiFrame}

\* The tables m, the roles and the pml4s in use fit together as to types.
Typed(m, lev, live) ==
  /\ m \in Tables
  /\ lev \in [Frames -> Levels]
  /\ live \subseteq Frames
  /\ \A f \in Frames : lev[f] = 4 <=> f \in live
  /\ \A f \in Identity : lev[f] = 0

\* An entry leads one level down.
Leveled(m, lev) ==
  \A t \in Frames, i \in Indices :
    lev[t] \in 1 .. 4 /\ m[t][i].frame # None => lev[m[t][i].frame] = lev[t] - 1

\* A frame has one entry that leads to it, or the same higher-half entry of
\* several pml4s.
OneParent(m, lev) ==
  \A t, u \in Frames, i, j \in Indices :
    /\ lev[t] \in 1 .. 4 /\ lev[u] \in 1 .. 4
    /\ m[t][i].frame = m[u][j].frame
    /\ m[t][i].frame \notin {None} \cup Identity
    => i = j /\ (t = u \/ (lev[t] = 4 /\ i >= HIGHER_HALF_ENTRY))

\* All pml4s have the same higher half.
SharedHalf(m, live) ==
  \A r, q \in live, i \in Indices : i >= HIGHER_HALF_ENTRY => m[r][i] = m[q][i]

\* The entry above a writable entry is writable.
WritableAbove(m, lev) ==
  \A t, u \in Frames, i, j \in Indices :
    /\ lev[t] \in 1 .. 3 /\ lev[u] \in 2 .. 4
    /\ m[u][j].frame = t
    /\ m[t][i].frame # None /\ m[t][i].writable
    => m[u][j].writable

Tree(m, lev, live) ==
  /\ Typed(m, lev, live)
  /\ Leveled(m, lev)
  /\ OneParent(m, lev)
  /\ SharedHalf(m, live)
  /\ WritableAbove(m, lev)

\* A frame with a role is used in the bitmap b.
Used(b, lev) ==
  /\ b \in [Frames -> {0, 1}]
  /\ \A f \in Frames : lev[f] # 5 => b[f] = 1

\* The tables of levels 3, 2 and 1 on the way from r to page p.
T3(m, r, p) == m[r][p[1]].frame
T2(m, r, p) == m[T3(m, r, p)][p[2]].frame
T1(m, r, p) == m[T2(m, r, p)][p[3]].frame
Mapped(m, r, p) ==
  T3(m, r, p) # None /\ T2(m, r, p) # None /\ T1(m, r, p) # None

\* The first n heap pages are mapped by the boot loader's pml4, to frames of
\* their own.
HeapWalks(m, n) ==
  \A i \in 1 .. n : /\ Mapped(m, BootRoot, HeapPages[i])
                    /\ m[T1(m, BootRoot, HeapPages[i])][HeapPages[i][4]].frame
                         \notin {None} \cup Identity

\* Every pml4 has the writable entry of the heap.
HeapEntry(m, live) ==
  \A r \in live : /\ m[r][HeapPages[1][1]].frame # None
                  /\ m[r][HeapPages[1][1]].writable

\* The lower half of a pml4 leads to the identity mapped pages only: t is the table
\* of entry a, u the table of entry b of t.
LowerPath(m, a, b, c, t, u) ==
  a < HIGHER_HALF_ENTRY /\ t # None /\ u # None =>
    /\ b < HIGHER_HALF_ENTRY
    /\ c >= HIGHER_HALF_ENTRY /\ m[u][c].frame # None =>
         \E p \in {LapicPage, AcpiPage} : p[1] = a /\ p[2] = b /\ p[3] = c
LowerPaths(m, live) ==
  \A r \in live, a, b, c \in Indices :
    LowerPath(m, a, b, c, m[r][a].frame, m[m[r][a].frame][b].frame)

Fits(lev) ==
  /\ Tree(mem, lev, LiveRoots)
  /\ ~panicked => Used(bitmap, lev)

Inv ==
  /\ TypeOK /\ BootRoot \notin roots
  /\ HeapWalks(mem, heap) /\ HeapEntry(mem, LiveRoots)
  /\ LowerPaths(mem, LiveRoots)
  /\ \E lev \in [Frames -> Levels] : Fits(lev)
-----------------------------------------------------------------------------
(* Constants, pages and allocation *)

\* The numbers of the frames the kernel starts with.
LEMMA Basics ==
  /\ Frames \subseteq Nat /\ Indices \subseteq Nat /\ None \notin Frames
  /\ BootRoot \in Frames /\ Identity \subseteq Frames /\ BootRoot \notin Identity
  /\ HIGHER_HALF_ENTRY \in Nat
  BY PagingAssumption DEF Frames, Indices, None, BootRoot, Identity, LapicFrame, AcpiFrame

\* A page is known by its four indices.
LEMMA PageFacts ==
  /\ \A p \in Pages : \A l \in 1 .. 4 : p[l] \in Indices
  /\ \A p, q \in Pages : (\A l \in 1 .. 4 : p[l] = q[l]) => p = q
  <1>1. ASSUME NEW p \in Pages PROVE p[1] \in Indices /\ p[2] \in Indices /\ p[3] \in Indices /\ p[4] \in Indices
    BY Zenon DEF Pages
  <1>2. ASSUME NEW p \in Pages, NEW q \in Pages, \A l \in 1 .. 4 : p[l] = q[l]
        PROVE  p = q
    BY <1>2 DEF Pages
  <1>3. ASSUME NEW p \in Pages, NEW l \in 1 .. 4 PROVE p[l] \in Indices
    <2>1. l = 1 \/ l = 2 \/ l = 3 \/ l = 4
      OBVIOUS
    <2> QED
      BY <2>1, <1>1, Zenon
  <1> QED
    BY <1>2, <1>3, Zenon

\* The pages the kernel maps, and where their level 4 entry is.
LEMMA KernelPages ==
  /\ \A i \in 1 .. Len(HeapPages) : /\ HeapPages[i] \in Pages
                                    /\ HeapPages[i][1] >= HIGHER_HALF_ENTRY
                                    /\ HeapPages[i][1] = HeapPages[1][1]
  /\ \A i, j \in 1 .. Len(HeapPages) : HeapPages[i] = HeapPages[j] => i = j
  /\ Len(HeapPages) \in Nat /\ 1 <= Len(HeapPages)
  <1>1. DOMAIN HeapPages = 1 .. Len(HeapPages) /\ Len(HeapPages) \in Nat
    BY PagingAssumption
  <1>2. Len(HeapPages) # 0
    BY PagingAssumption
  <1>3. \A i \in 1 .. Len(HeapPages) : HeapPages[i] \in Pages
    BY PagingAssumption
  <1> QED
    BY <1>1, <1>2, <1>3, PagingAssumption

\* A nonempty set of naturals has a least element.
LEMMA Least ==
  ASSUME NEW S \in SUBSET Nat, S # {}
  PROVE  \E x \in S : \A y \in S : x <= y
  <1>1. PICK x \in S : \A y \in S : ~(<<y, x>> \in OpToRel(<, Nat))
    BY NatLessThanWellFounded, WFMin, Zenon
  <1>2. \A y \in S : ~(y < x)
    BY <1>1, Zenon DEF OpToRel
  <1> QED
    BY <1>2

\* allocate_frame returns a free frame when there is one.
LEMMA FirstFreeFacts ==
  ASSUME NEW s, FreeIn(s) # {}
  PROVE  FirstFree(s) \in Frames /\ s.bitmap[FirstFree(s)] = 0
  <1>1. FreeIn(s) \in SUBSET Nat
    BY Basics, Zenon DEF FreeIn
  <1>2. \E x \in FreeIn(s) : \A y \in FreeIn(s) : x <= y
    BY <1>1, Least, Zenon
  <1>3. FirstFree(s) \in FreeIn(s)
    BY <1>2, Zenon DEF FirstFree
  <1> QED
    BY <1>3, Zenon DEF FreeIn

\* A memory state as the operators of Paging use it.
States == [bitmap : [Frames -> {0, 1}], mem : Tables, at : Frames, ok : BOOLEAN]

\* The tables m2 are m with entry i0 of table t0 changed to e.
Changed(m, m2, t0, i0, e) ==
  /\ m2 \in Tables
  /\ \A t \in Frames, i \in Indices : t # t0 \/ i # i0 => m2[t][i] = m[t][i]
  /\ m2[t0][i0] = e

\* The tables m2 are m with a zeroized table in f and entry i0 of t0 leading to it.
Entered(m, m2, f, t0, i0, w) ==
  /\ m2 \in Tables
  /\ \A t \in Frames, i \in Indices : t # f /\ (t # t0 \/ i # i0) => m2[t][i] = m[t][i]
  /\ f # t0 => \A i \in Indices : m2[f][i] = NoEntry
  /\ m2[t0][i0] = EntryTo(f, w)

\* Entry::map on a present entry.
LEMMA EntryPresent ==
  ASSUME NEW s \in States, s.ok, NEW i \in Indices, NEW w \in BOOLEAN,
         s.mem[s.at][i].frame # None
  PROVE  /\ Entry_map(s, i, w) \in States
         /\ Entry_map(s, i, w).bitmap = s.bitmap
         /\ Changed(s.mem, Entry_map(s, i, w).mem, s.at, i, AddFlags(s.mem[s.at][i], w))
         /\ Entry_map(s, i, w).at = s.mem[s.at][i].frame
         /\ Entry_map(s, i, w).ok = TRUE
  <1>1. Entry_map(s, i, w) = EnterTable(s, i, w)
    BY Zenon DEF Entry_map, is_mapped
  <1> QED
    <2>1. /\ Entry_map(s, i, w).bitmap = s.bitmap
          /\ Entry_map(s, i, w).mem = [s.mem EXCEPT ![s.at][i] =
               EntryTo(s.mem[s.at][i].frame, s.mem[s.at][i].writable \/ w)]
          /\ Entry_map(s, i, w).at = s.mem[s.at][i].frame
          /\ Entry_map(s, i, w).ok = TRUE
          /\ Entry_map(s, i, w) = [bitmap |-> Entry_map(s, i, w).bitmap, mem |-> Entry_map(s, i, w).mem,
                                   at |-> Entry_map(s, i, w).at, ok |-> Entry_map(s, i, w).ok]
      BY <1>1, Zenon DEF EnterTable, States, AddFlags
    <2> DEFINE e == s.mem[s.at][i]
    <2>2. s.mem \in Tables /\ s.bitmap \in [Frames -> {0, 1}] /\ s.at \in Frames
      BY Zenon DEF States
    <2>3. e.frame \in Frames /\ e.writable \in BOOLEAN
      BY <2>2 DEF Tables, Entries
    <2>4. (e.writable \/ w) \in BOOLEAN
      BY <2>3, Zenon
    <2>5. EntryTo(e.frame, e.writable \/ w) \in Entries
      BY <2>3, <2>4, Zenon DEF EntryTo, Entries
    <2>6. Entry_map(s, i, w).mem \in Tables
      BY <2>1, <2>2, <2>5, SMTT(30) DEF Tables
    <2>7. Changed(s.mem, Entry_map(s, i, w).mem, s.at, i, AddFlags(e, w))
      BY <2>1, <2>2, <2>6 DEF Changed, Tables, AddFlags
    <2> QED
      BY <2>1, <2>2, <2>3, <2>6, <2>7, Zenon DEF States

\* Entry::map when the allocation of a table fails.
LEMMA EntryFails ==
  ASSUME NEW s \in States, s.ok, NEW i \in Indices, NEW w \in BOOLEAN,
         s.mem[s.at][i].frame = None, FreeIn(s) = {}
  PROVE  /\ Entry_map(s, i, w) \in States
         /\ Entry_map(s, i, w).bitmap = s.bitmap
         /\ Entry_map(s, i, w).mem = s.mem
         /\ Entry_map(s, i, w).ok = FALSE
  <1>1. Entry_map(s, i, w) = Failed(s)
    BY Zenon DEF Entry_map, is_mapped
  <1> QED
    BY <1>1, Zenon DEF Failed, States

\* Entry::map with a new table.
LEMMA EntryNew ==
  ASSUME NEW s \in States, s.ok, NEW i \in Indices, NEW w \in BOOLEAN,
         s.mem[s.at][i].frame = None, FreeIn(s) # {}
  PROVE  \E f \in Frames :
           /\ s.bitmap[f] = 0
           /\ Entry_map(s, i, w) \in States
           /\ Entry_map(s, i, w).bitmap = [s.bitmap EXCEPT ![f] = 1]
           /\ Entered(s.mem, Entry_map(s, i, w).mem, f, s.at, i, w)
           /\ Entry_map(s, i, w).at = f
           /\ Entry_map(s, i, w).ok = TRUE
  <1> DEFINE f == FirstFree(s)
  <1>1. Entry_map(s, i, w) = EnterNewTable(s, i, w)
    BY Zenon DEF Entry_map, is_mapped
  <1>2. f \in Frames /\ s.bitmap[f] = 0
    BY FirstFreeFacts, Zenon
  <1> HIDE DEF f
  <1>3. /\ Entry_map(s, i, w).bitmap = [s.bitmap EXCEPT ![f] = 1]
        /\ Entry_map(s, i, w).at = f
        /\ Entry_map(s, i, w).ok = TRUE
    BY <1>1, Zenon DEF EnterNewTable, States, f
  <1>4. Entry_map(s, i, w).mem = [[s.mem EXCEPT ![f] = Zeroized] EXCEPT ![s.at][i] = EntryTo(f, w)]
    BY <1>1, Zenon DEF EnterNewTable, States, NewTable, f
  <1>5. Entry_map(s, i, w) = [bitmap |-> Entry_map(s, i, w).bitmap, mem |-> Entry_map(s, i, w).mem,
                               at |-> Entry_map(s, i, w).at, ok |-> Entry_map(s, i, w).ok]
    BY <1>1, Zenon DEF EnterNewTable, States
  <1>6. s.mem \in Tables /\ s.bitmap \in [Frames -> {0, 1}] /\ s.at \in Frames
    BY Zenon DEF States
  <1>7. Zeroized \in [Indices -> Entries] /\ EntryTo(f, w) \in Entries
    BY <1>2, Basics, Zenon DEF Zeroized, NoEntry, EntryTo, Entries
  <1>8. Entry_map(s, i, w).mem \in Tables
    BY <1>4, <1>6, <1>7 DEF Tables
  <1>9. Entry_map(s, i, w) \in States
    <2>1. Entry_map(s, i, w).bitmap \in [Frames -> {0, 1}]
      BY <1>2, <1>3, <1>6, Zenon
    <2>2. Entry_map(s, i, w).at \in Frames /\ Entry_map(s, i, w).ok \in BOOLEAN
      BY <1>2, <1>3, Zenon
    <2> QED
      BY <2>1, <2>2, <1>5, <1>8, Zenon DEF States
  <1>10. Entered(s.mem, Entry_map(s, i, w).mem, f, s.at, i, w)
    <2> DEFINE n == [s.mem EXCEPT ![f] = Zeroized]
    <2>1. n \in Tables /\ (\A t \in Frames : t # f => n[t] = s.mem[t]) /\ n[f] = Zeroized
      BY <1>2, <1>6, <1>7, Zenon DEF Tables
    <2>2. Entry_map(s, i, w).mem = [n EXCEPT ![s.at][i] = EntryTo(f, w)]
      BY <1>4, Zenon
    <2> HIDE DEF n
    <2>3. \A t \in Frames, j \in Indices : t # s.at \/ j # i => Entry_map(s, i, w).mem[t][j] = n[t][j]
      BY <2>1, <2>2, <1>6 DEF Tables
    <2>4. Entry_map(s, i, w).mem[s.at][i] = EntryTo(f, w)
      BY <2>1, <2>2, <1>6 DEF Tables
    <2>5. \A j \in Indices : n[f][j] = NoEntry
      BY <2>1, Zenon DEF Zeroized
    <2> QED
      BY <2>1, <2>3, <2>4, <2>5, <1>2, <1>8 DEF Entered
  <1> QED
    BY <1>2, <1>3, <1>9, <1>10, Zenon
-----------------------------------------------------------------------------
(* What a change of one entry keeps *)

\* If w, the entries that lead to table t are writable.
Above(m, lev, t, w) ==
  w => \A u \in Frames, j \in Indices :
         lev[u] \in 2 .. 4 /\ m[u][j].frame = t => m[u][j].writable

\* Entry i of table t is not a shared one, or will stay as it is.
Top(m, lev, live, t, i) ==
  lev[t] = 4 /\ i >= HIGHER_HALF_ENTRY =>
    live = {t} \/ (m[t][i].frame # None /\ m[t][i].writable)

\* Adding flags to a present entry (Entry::map).
LEMMA FlagsTree ==
  ASSUME NEW m, NEW lev, NEW live, Tree(m, lev, live),
         NEW t0 \in Frames, lev[t0] \in 2 .. 4, NEW i0 \in Indices, NEW w \in BOOLEAN,
         m[t0][i0].frame # None,
         Top(m, lev, live, t0, i0), Above(m, lev, t0, w),
         NEW m2, Changed(m, m2, t0, i0, AddFlags(m[t0][i0], w))
  PROVE  /\ Tree(m2, lev, live)
         /\ \A t \in Frames, i \in Indices :
              /\ m2[t][i].frame = m[t][i].frame
              /\ m[t][i].writable => m2[t][i].writable
         /\ w => m2[t0][i0].writable
  <1>0. m \in Tables /\ lev \in [Frames -> Levels] /\ live \subseteq Frames
    BY Zenon DEF Tree, Typed
  <1> DEFINE e0 == m[t0][i0]
  <1>1. e0 \in Entries /\ e0.frame \in Frames /\ e0.writable \in BOOLEAN
    BY <1>0 DEF Tables, Entries
  <1>4. m2 \in Tables
    BY Zenon DEF Changed
  <1>6. m2[t0][i0] = EntryTo(e0.frame, e0.writable \/ w)
    BY Zenon DEF Changed, AddFlags
  <1>5. ASSUME NEW t \in Frames, NEW i \in Indices
        PROVE  /\ m2[t][i].frame = m[t][i].frame
               /\ m[t][i].writable => m2[t][i].writable
               /\ (t # t0 \/ i # i0) => m2[t][i] = m[t][i]
    BY <1>1, <1>6 DEF Changed, EntryTo
  <1>7. m2[t0][i0].writable = (e0.writable \/ w)
    BY <1>6 DEF EntryTo
  <1>8. e0.writable => m2[t0][i0] = e0
    <2>1. e0.writable => e0 = [frame |-> e0.frame, writable |-> TRUE]
      BY <1>1, Zenon DEF Entries
    <2> QED
      BY <2>1, <1>6, <1>1, Zenon DEF EntryTo
  <1>9. Typed(m2, lev, live)
    BY <1>4, Zenon DEF Tree, Typed
  <1>10. Leveled(m2, lev)
    BY <1>5 DEF Tree, Leveled
  <1>11. OneParent(m2, lev)
    BY <1>5 DEF Tree, OneParent
  <1>12. SharedHalf(m2, live)
    <2> SUFFICES ASSUME NEW r \in live, NEW q \in live, NEW i \in Indices, i >= HIGHER_HALF_ENTRY
                 PROVE  m2[r][i] = m2[q][i]
      BY Zenon DEF SharedHalf
    <2>1. m[r][i] = m[q][i]
      BY Zenon DEF Tree, SharedHalf
    <2>2. CASE i = i0 /\ t0 \in live /\ live # {t0}
      <3>1. e0.writable
        BY <2>2, Zenon DEF Tree, Typed, Top
      <3> QED
        BY <2>1, <3>1, <1>8, <1>5, <1>0
    <2>3. CASE live = {t0}
      BY <2>3, Zenon
    <2>4. CASE i # i0 \/ t0 \notin live
      BY <2>4, <2>1, <1>5, <1>0, Zenon
    <2> QED
      BY <2>2, <2>3, <2>4, Zenon
  <1>13. WritableAbove(m2, lev)
    <2> SUFFICES ASSUME NEW t \in Frames, NEW u \in Frames, NEW i \in Indices, NEW j \in Indices,
                        lev[t] \in 1 .. 3, lev[u] \in 2 .. 4, m2[u][j].frame = t,
                        m2[t][i].frame # None, m2[t][i].writable
                 PROVE  m2[u][j].writable
      BY Zenon DEF WritableAbove
    <2>1. m[u][j].frame = t /\ m[t][i].frame # None
      BY <1>5, Zenon
    <2>2. CASE m[t][i].writable
      BY <2>1, <2>2, <1>5, Zenon DEF Tree, WritableAbove
    <2>3. CASE ~m[t][i].writable
      <3>1. t = t0 /\ i = i0
        BY <2>3, <1>5, Zenon
      <3>2. w
        BY <3>1, <2>3, <1>7, Zenon
      <3> QED
        BY <3>1, <3>2, <2>1, <1>5, Zenon DEF Above
    <2> QED
      BY <2>2, <2>3, Zenon
  <1> QED
    BY <1>5, <1>7, <1>9, <1>10, <1>11, <1>12, <1>13, Zenon DEF Tree

\* Entering a new zeroized table into an absent entry (Entry::map).
LEMMA NewTree ==
  ASSUME NEW m, NEW lev, NEW live, Tree(m, lev, live), NEW b, Used(b, lev),
         NEW t0 \in Frames, lev[t0] \in 2 .. 4, NEW i0 \in Indices, NEW w \in BOOLEAN,
         m[t0][i0].frame = None,
         Top(m, lev, live, t0, i0), Above(m, lev, t0, w),
         NEW f \in Frames, b[f] = 0,
         NEW m2, Entered(m, m2, f, t0, i0, w),
         NEW l2 \in [Frames -> Levels], l2[f] = lev[t0] - 1,
         \A g \in Frames : g # f => l2[g] = lev[g]
  PROVE  /\ Tree(m2, l2, live)
         /\ \A t \in Frames, i \in Indices :
              t # f /\ (t # t0 \/ i # i0) => m2[t][i] = m[t][i]
         /\ \A i \in Indices : m2[f][i].frame = None
         /\ m2[t0][i0].frame = f /\ (w => m2[t0][i0].writable)
         /\ f # t0 /\ lev[f] = 5
  <1>0. /\ m \in Tables /\ lev \in [Frames -> Levels] /\ live \subseteq Frames
        /\ \A g \in Frames : lev[g] = 4 <=> g \in live
        /\ \A g \in Identity : lev[g] = 0
    BY Zenon DEF Tree, Typed
  <1>1. lev[f] = 5 /\ f # t0 /\ f \notin live /\ f \notin Identity
    BY <1>0 DEF Used
  <1>3. m2 \in Tables
    BY Zenon DEF Entered
  <1>4. ASSUME NEW t \in Frames, NEW i \in Indices, t # f, t # t0 \/ i # i0
        PROVE  m2[t][i] = m[t][i]
    BY <1>4, Zenon DEF Entered
  <1>5. m2[t0][i0] = EntryTo(f, w)
    BY Zenon DEF Entered
  <1>6. m2[t0][i0].frame = f /\ (w => m2[t0][i0].writable)
    BY <1>5 DEF EntryTo
  <1>7. \A i \in Indices : m2[f][i].frame = None
    BY <1>1 DEF Entered, NoEntry
  <1>8. l2[f] \in 1 .. 3
    OBVIOUS
  <1>9. ASSUME NEW t \in Frames, NEW i \in Indices, lev[t] \in 1 .. 4 PROVE m[t][i].frame # f
    <2> SUFFICES ASSUME m[t][i].frame = f PROVE FALSE
      BY Zenon
    <2>1. lev[f] = lev[t] - 1
      BY <1>9, Basics, Zenon DEF Tree, Leveled
    <2> QED
      BY <2>1, <1>1, <1>9
  <1>10. Typed(m2, l2, live)
    <2>1. \A g \in Frames : l2[g] = 4 <=> g \in live
      BY <1>0, <1>1, <1>8
    <2>2. \A g \in Identity : l2[g] = 0
      BY <1>0, <1>1, Basics, Zenon
    <2> QED
      BY <2>1, <2>2, <1>0, <1>3, Zenon DEF Typed
  \* The entries of tables are the old ones and the new one.
  <1>11. ASSUME NEW t \in Frames, NEW i \in Indices, l2[t] \in 1 .. 4, m2[t][i].frame # None
         PROVE  \/ t = t0 /\ i = i0
                \/ t # f /\ (t # t0 \/ i # i0) /\ lev[t] \in 1 .. 4 /\ l2[t] = lev[t] /\ m2[t][i] = m[t][i]
    BY <1>4, <1>7, <1>8, <1>11, Zenon
  <1>12. Leveled(m2, l2)
    <2> SUFFICES ASSUME NEW t \in Frames, NEW i \in Indices, l2[t] \in 1 .. 4, m2[t][i].frame # None
                 PROVE  l2[m2[t][i].frame] = l2[t] - 1
      BY Zenon DEF Leveled
    <2>1. CASE t = t0 /\ i = i0
      BY <2>1, <1>6, <1>8, <1>1, Zenon
    <2>2. CASE lev[t] \in 1 .. 4 /\ l2[t] = lev[t] /\ m2[t][i] = m[t][i]
      <3>1. m[t][i].frame # f /\ m[t][i].frame \in Frames
        BY <2>2, <1>9, <1>0 DEF Tables, Entries
      <3>2. lev[m[t][i].frame] = lev[t] - 1
        BY <2>2, Zenon DEF Tree, Leveled
      <3> QED
        BY <2>2, <3>1, <3>2, <1>8, Zenon
    <2> QED
      BY <2>1, <2>2, <1>11, Zenon
  <1>13. OneParent(m2, l2)
    <2> SUFFICES ASSUME NEW t \in Frames, NEW u \in Frames, NEW i \in Indices, NEW j \in Indices,
                        l2[t] \in 1 .. 4, l2[u] \in 1 .. 4, m2[t][i].frame = m2[u][j].frame,
                        m2[t][i].frame \notin {None} \cup Identity
                 PROVE  i = j /\ (t = u \/ (l2[t] = 4 /\ i >= HIGHER_HALF_ENTRY))
      BY DEF OneParent
    <2>1. CASE t = t0 /\ i = i0 /\ u = t0 /\ j = i0
      BY <2>1, Zenon
    <2>2. CASE t = t0 /\ i = i0 /\ lev[u] \in 1 .. 4 /\ m2[u][j] = m[u][j]
      BY <2>2, <1>6, <1>9, Zenon
    <2>3. CASE u = t0 /\ j = i0 /\ lev[t] \in 1 .. 4 /\ m2[t][i] = m[t][i]
      BY <2>3, <1>6, <1>9, Zenon
    <2>4. CASE lev[t] \in 1 .. 4 /\ l2[t] = lev[t] /\ m2[t][i] = m[t][i] /\ lev[u] \in 1 .. 4 /\ m2[u][j] = m[u][j]
      BY <2>4 DEF Tree, OneParent
    <2> QED
      BY <2>1, <2>2, <2>3, <2>4, <1>11, Zenon
  <1>14. SharedHalf(m2, live)
    <2> SUFFICES ASSUME NEW r \in live, NEW q \in live, NEW i \in Indices, i >= HIGHER_HALF_ENTRY
                 PROVE  m2[r][i] = m2[q][i]
      BY Zenon DEF SharedHalf
    <2>1. m[r][i] = m[q][i]
      BY Zenon DEF Tree, SharedHalf
    <2>2. CASE live = {t0}
      BY <2>2, Zenon
    <2>3. CASE i # i0 \/ t0 \notin live
      BY <2>3, <2>1, <1>4, <1>1, <1>0
    <2>4. i = i0 /\ t0 \in live => live = {t0}
      BY <1>0, Zenon DEF Top
    <2> QED
      BY <2>2, <2>3, <2>4, Zenon
  <1>15. WritableAbove(m2, l2)
    <2> SUFFICES ASSUME NEW t \in Frames, NEW u \in Frames, NEW i \in Indices, NEW j \in Indices,
                        l2[t] \in 1 .. 3, l2[u] \in 2 .. 4, m2[u][j].frame = t,
                        m2[t][i].frame # None, m2[t][i].writable
                 PROVE  m2[u][j].writable
      BY Zenon DEF WritableAbove
    <2>0. t # f /\ t # None
      BY <1>7, Basics, Zenon
    <2>4. l2[t] \in 1 .. 4 /\ l2[u] \in 1 .. 4 /\ m2[u][j].frame # None /\ ~(u = t0 /\ j = i0)
      BY <2>0, <1>6
    <2>1. lev[u] \in 2 .. 4 /\ m2[u][j] = m[u][j]
      <3>1. l2[u] = lev[u] /\ m2[u][j] = m[u][j]
        BY <2>4, <1>11, Zenon
      <3> QED
        BY <3>1, Zenon
    <2>5. \/ t = t0 /\ i = i0
          \/ t # f /\ (t # t0 \/ i # i0)
      BY <2>0, Zenon
    <2>2. CASE t = t0 /\ i = i0
      BY <2>1, <2>2, <1>5 DEF EntryTo, Above
    <2>3. CASE t # f /\ (t # t0 \/ i # i0)
      <3>1. m2[t][i] = m[t][i] /\ lev[t] \in 1 .. 3
        BY <2>3, <1>4, <1>8, Zenon
      <3> QED
        BY <2>1, <3>1 DEF Tree, WritableAbove
    <2> QED
      BY <2>2, <2>3, <2>5, Zenon
  <1> QED
    BY <1>1, <1>4, <1>6, <1>7, <1>10, <1>12, <1>13, <1>14, <1>15, Zenon DEF Tree

\* Writing the entry of a page (the end of map_to).
LEMMA PageTree ==
  ASSUME NEW m, NEW lev, NEW live, Tree(m, lev, live),
         NEW t0 \in Frames, lev[t0] = 1, NEW i0 \in Indices, NEW w \in BOOLEAN,
         Above(m, lev, t0, w),
         NEW g \in Frames, lev[g] = 0,
         \/ g \in Identity
         \/ \A t \in Frames, i \in Indices : lev[t] \in 1 .. 4 => m[t][i].frame # g,
         NEW m2, Changed(m, m2, t0, i0, EntryTo(g, w))
  PROVE  Tree(m2, lev, live)
  <1>0. m \in Tables /\ lev \in [Frames -> Levels] /\ live \subseteq Frames
        /\ \A f \in Frames : lev[f] = 4 <=> f \in live
    BY Zenon DEF Tree, Typed
  <1>2. m2 \in Tables
    BY Zenon DEF Changed
  <1>3. ASSUME NEW t \in Frames, NEW i \in Indices, t # t0 \/ i # i0
        PROVE  m2[t][i] = m[t][i]
    BY <1>3, Zenon DEF Changed
  <1>4. m2[t0][i0] = EntryTo(g, w) /\ m2[t0][i0].frame = g
    BY DEF Changed, EntryTo
  <1>5. Typed(m2, lev, live)
    BY <1>2, Zenon DEF Tree, Typed
  <1>6. Leveled(m2, lev)
    BY <1>3, <1>4 DEF Tree, Leveled
  <1>7. OneParent(m2, lev)
    <2> SUFFICES ASSUME NEW t \in Frames, NEW u \in Frames, NEW i \in Indices, NEW j \in Indices,
                        lev[t] \in 1 .. 4, lev[u] \in 1 .. 4, m2[t][i].frame = m2[u][j].frame,
                        m2[t][i].frame \notin {None} \cup Identity
                 PROVE  i = j /\ (t = u \/ (lev[t] = 4 /\ i >= HIGHER_HALF_ENTRY))
      BY DEF OneParent
    <2>1. CASE t = t0 /\ i = i0 /\ u = t0 /\ j = i0
      BY <2>1, Zenon
    <2>2. CASE t = t0 /\ i = i0 /\ (u # t0 \/ j # i0)
      BY <2>2, <1>3, <1>4
    <2>3. CASE u = t0 /\ j = i0 /\ (t # t0 \/ i # i0)
      BY <2>3, <1>3, <1>4
    <2>4. CASE (t # t0 \/ i # i0) /\ (u # t0 \/ j # i0)
      BY <2>4, <1>3 DEF Tree, OneParent
    <2> QED
      BY <2>1, <2>2, <2>3, <2>4, Zenon
  <1>8. SharedHalf(m2, live)
    <2>1. t0 \notin live
      BY <1>0
    <2> QED
      BY <1>0, <2>1, <1>3 DEF Tree, SharedHalf
  <1>9. WritableAbove(m2, lev)
    <2> SUFFICES ASSUME NEW t \in Frames, NEW u \in Frames, NEW i \in Indices, NEW j \in Indices,
                        lev[t] \in 1 .. 3, lev[u] \in 2 .. 4, m2[u][j].frame = t,
                        m2[t][i].frame # None, m2[t][i].writable
                 PROVE  m2[u][j].writable
      BY Zenon DEF WritableAbove
    <2>1. m2[u][j] = m[u][j]
      BY <1>3
    <2>2. CASE t = t0 /\ i = i0
      BY <2>1, <2>2, <1>4 DEF EntryTo, Above
    <2>3. CASE t # t0 \/ i # i0
      BY <2>1, <2>3, <1>3 DEF Tree, WritableAbove
    <2> QED
      BY <2>2, <2>3, Zenon
  <1> QED
    BY <1>5, <1>6, <1>7, <1>8, <1>9, Zenon DEF Tree

\* A table whose parent entry is writable may have writable entries: its other
\* parent entries are the same one in other pml4s.
LEMMA AboveBelow ==
  ASSUME NEW m, NEW lev, NEW live, Tree(m, lev, live), NEW w \in BOOLEAN,
         NEW t0 \in Frames, lev[t0] \in 2 .. 4, NEW i0 \in Indices,
         m[t0][i0].frame # None, w => m[t0][i0].writable
  PROVE  Above(m, lev, m[t0][i0].frame, w)
  <1> DEFINE f == m[t0][i0].frame
  <1> SUFFICES ASSUME w, NEW u \in Frames, NEW j \in Indices, lev[u] \in 2 .. 4, m[u][j].frame = f
               PROVE  m[u][j].writable
    BY Zenon DEF Above
  <1>1. lev[f] = lev[t0] - 1
    BY DEF Tree, Leveled
  <1>2. f \notin Identity
    BY <1>1 DEF Tree, Typed
  <1>3. /\ i0 = j
        /\ t0 = u \/ (lev[t0] = 4 /\ i0 >= HIGHER_HALF_ENTRY)
    BY <1>2 DEF Tree, OneParent
  <1>4. CASE t0 = u
    BY <1>3, <1>4, Zenon
  <1>5. CASE t0 # u
    <2>1. lev[f] = lev[u] - 1
      BY Basics DEF Tree, Leveled
    <2>2. lev[u] = 4
      BY <2>1, <1>1, <1>3, <1>5
    <2>3. m[t0][i0] = m[u][i0]
      BY <2>2, <1>3, <1>5, Zenon DEF Tree, Typed, SharedHalf
    <2> QED
      BY <2>3, <1>3, Zenon
  <1> QED
    BY <1>4, <1>5, Zenon

\* From (m, lev) to (m2, l2): roles and present entries are kept, and the slots
\* P are the only ones where an entry was added, to a frame without a role.
Grows(m, lev, m2, l2, P) ==
  /\ \A f \in Frames : lev[f] # 5 => l2[f] = lev[f]
  /\ \A t \in Frames, i \in Indices : lev[t] \in 1 .. 4 /\ m[t][i].frame # None =>
       m2[t][i].frame = m[t][i].frame /\ (m[t][i].writable => m2[t][i].writable)
  /\ \A t \in Frames, i \in Indices : l2[t] \in 1 .. 4 /\ m2[t][i].frame # None =>
       \/ lev[t] \in 1 .. 4 /\ m[t][i].frame = m2[t][i].frame
       \/ <<t, i>> \in P /\ lev[m2[t][i].frame] = 5

\* Growth composes.
LEMMA GrowsTrans ==
  ASSUME NEW m1 \in Tables, NEW l1, NEW m2 \in Tables, NEW l2, NEW m3 \in Tables, NEW l3, NEW P, NEW Q,
         Grows(m1, l1, m2, l2, P), Grows(m2, l2, m3, l3, Q)
  PROVE  Grows(m1, l1, m3, l3, P \cup Q)
  <1>1. \A f \in Frames : l1[f] # 5 => l3[f] = l1[f]
    BY Zenon DEF Grows
  <1>2. ASSUME NEW t \in Frames, NEW i \in Indices, l1[t] \in 1 .. 4, m1[t][i].frame # None
        PROVE  m3[t][i].frame = m1[t][i].frame /\ (m1[t][i].writable => m3[t][i].writable)
    <2>1. l2[t] = l1[t]
      BY <1>2 DEF Grows
    <2>2. m2[t][i].frame = m1[t][i].frame /\ (m1[t][i].writable => m2[t][i].writable)
      BY <1>2, Zenon DEF Grows
    <2>3. m3[t][i].frame = m2[t][i].frame /\ (m2[t][i].writable => m3[t][i].writable)
      BY <2>1, <2>2, <1>2, Zenon DEF Grows
    <2> QED
      BY <2>2, <2>3, Zenon
  <1>3. ASSUME NEW t \in Frames, NEW i \in Indices, l3[t] \in 1 .. 4, m3[t][i].frame # None
        PROVE  \/ l1[t] \in 1 .. 4 /\ m1[t][i].frame = m3[t][i].frame
               \/ <<t, i>> \in P \cup Q /\ l1[m3[t][i].frame] = 5
    <2>0. m3[t][i].frame \in Frames
      BY <1>3 DEF Tables, Entries
    <2>1. \/ l2[t] \in 1 .. 4 /\ m2[t][i].frame = m3[t][i].frame
          \/ <<t, i>> \in Q /\ l2[m3[t][i].frame] = 5
      BY <1>3, Zenon DEF Grows
    <2>2. CASE l2[t] \in 1 .. 4 /\ m2[t][i].frame = m3[t][i].frame
      <3>1. \/ l1[t] \in 1 .. 4 /\ m1[t][i].frame = m2[t][i].frame
            \/ <<t, i>> \in P /\ l1[m2[t][i].frame] = 5
        BY <2>2, <1>3, Zenon DEF Grows
      <3> QED
        BY <2>2, <3>1, Zenon
    <2>3. CASE <<t, i>> \in Q /\ l2[m3[t][i].frame] = 5
      <3>1. l1[m3[t][i].frame] = 5
        BY <2>0, <2>3, Zenon DEF Grows
      <3> QED
        BY <2>3, <3>1, Zenon
    <2> QED
      BY <2>1, <2>2, <2>3, Zenon
  <1> QED
    BY <1>1, <1>2, <1>3, Zenon DEF Grows

\* What a level keeps.
LEMMA GrowsKeeps ==
  ASSUME NEW m, NEW lev, NEW m2, NEW l2, NEW P, Grows(m, lev, m2, l2, P),
         NEW t \in Frames, lev[t] \in 1 .. 4
  PROVE  /\ l2[t] = lev[t]
         /\ \A i \in Indices : m[t][i].frame # None => m2[t][i].frame = m[t][i].frame
  BY DEF Grows

\* Entry::map may be called on entry i of the level k table at s.at.
Ready(s, lev, live, i, w, k) ==
  /\ s \in States
  /\ Tree(s.mem, lev, live) /\ Used(s.bitmap, lev)
  /\ s.ok => /\ lev[s.at] = k
             /\ Top(s.mem, lev, live, s.at, i)
             /\ Above(s.mem, lev, s.at, w)

\* Entry::map on entry i of the level k table at s.at results in z, with roles l2.
Result(s, lev, live, i, w, k, z, l2) ==
  /\ z \in States /\ l2 \in [Frames -> Levels]
  /\ Tree(z.mem, l2, live) /\ Used(z.bitmap, l2)
  /\ Grows(s.mem, lev, z.mem, l2, IF z.ok THEN {<<s.at, i>>} ELSE {})
  /\ z.ok => /\ s.ok /\ z.mem[s.at][i].frame = z.at
             /\ l2[z.at] = k - 1
             /\ Above(z.mem, l2, z.at, w)

\* One level of map_to.
LEMMA EntryMap ==
  ASSUME NEW s, NEW lev, NEW live,
         NEW i \in Indices, NEW w \in BOOLEAN, NEW k \in 2 .. 4,
         Ready(s, lev, live, i, w, k)
  PROVE  \E l2 : Result(s, lev, live, i, w, k, Entry_map(s, i, w), l2)
  <1> DEFINE z == Entry_map(s, i, w)
  <1>s. s \in States /\ Tree(s.mem, lev, live) /\ Used(s.bitmap, lev)
    BY Zenon DEF Ready
  <1>t. s.ok => /\ lev[s.at] = k
                /\ Top(s.mem, lev, live, s.at, i)
                /\ Above(s.mem, lev, s.at, w)
    BY Zenon DEF Ready
  <1>z. z = Entry_map(s, i, w)
    BY Zenon
  <1> HIDE DEF z
  <1>0. /\ s.mem \in Tables /\ lev \in [Frames -> Levels] /\ live \subseteq Frames /\ s.at \in Frames
        /\ s.bitmap \in [Frames -> {0, 1}] /\ s.ok \in BOOLEAN
    BY <1>s, Zenon DEF Tree, Typed, States
  <1>r. ASSUME NEW P PROVE Grows(s.mem, lev, s.mem, lev, P)
    BY Zenon DEF Grows
  <1>1. CASE ~s.ok
    <2>1. z = s
      BY <1>1, <1>z, Zenon DEF Entry_map
    <2>2. Result(s, lev, live, i, w, k, z, lev)
      BY <1>1, <2>1, <1>0, <1>r, <1>s, Zenon DEF Result
    <2> QED
      BY <2>2, <1>z, Zenon
  <1>2. CASE s.ok /\ s.mem[s.at][i].frame # None
    <2>1. /\ z \in States /\ z.bitmap = s.bitmap
          /\ Changed(s.mem, z.mem, s.at, i, AddFlags(s.mem[s.at][i], w))
          /\ z.at = s.mem[s.at][i].frame
          /\ z.ok = TRUE
      BY <1>2, <1>s, <1>z, EntryPresent, Zenon
    <2>2. /\ lev[s.at] = k /\ lev[s.at] \in 2 .. 4
          /\ Top(s.mem, lev, live, s.at, i) /\ Above(s.mem, lev, s.at, w)
      BY <1>2, <1>t, Zenon
    <2>3. /\ Tree(z.mem, lev, live)
          /\ \A t \in Frames, j \in Indices : /\ z.mem[t][j].frame = s.mem[t][j].frame
                                              /\ s.mem[t][j].writable => z.mem[t][j].writable
          /\ w => z.mem[s.at][i].writable
      BY <2>1, <2>2, <1>0, <1>2, <1>s, FlagsTree
    <2>4. z.mem[s.at][i].frame = z.at /\ z.at # None /\ z.at \in Frames
      BY <2>1, <2>3, <1>0, <1>2, Zenon DEF States
    <2>5. lev[z.at] = k - 1
      BY <2>2, <2>3, <2>4, <1>0 DEF Tree, Leveled
    <2>6. Above(z.mem, lev, z.at, w)
      BY <2>2, <2>3, <2>4, <1>0, AboveBelow, Zenon
    <2>8. Grows(s.mem, lev, z.mem, lev, IF z.ok THEN {<<s.at, i>>} ELSE {})
      BY <2>3, SMTT(30) DEF Grows
    <2>9. Result(s, lev, live, i, w, k, z, lev)
      BY <2>1, <2>3, <2>4, <2>5, <2>6, <2>8, <1>0, <1>2, <1>s, Zenon DEF Result
    <2> QED
      BY <2>9, <1>z
  <1>3. CASE s.ok /\ s.mem[s.at][i].frame = None /\ FreeIn(s) = {}
    <2>1. z \in States /\ z.bitmap = s.bitmap /\ z.mem = s.mem /\ z.ok = FALSE
      BY <1>3, <1>s, <1>z, EntryFails, Zenon
    <2>2. Result(s, lev, live, i, w, k, z, lev)
      BY <2>1, <1>0, <1>r, <1>s, Zenon DEF Result
    <2> QED
      BY <2>2, <1>z
  <1>4. CASE s.ok /\ s.mem[s.at][i].frame = None /\ FreeIn(s) # {}
    <2>1. PICK f \in Frames :
            /\ s.bitmap[f] = 0
            /\ z \in States
            /\ z.bitmap = [s.bitmap EXCEPT ![f] = 1]
            /\ Entered(s.mem, z.mem, f, s.at, i, w)
            /\ z.at = f
            /\ z.ok = TRUE
      BY <1>4, <1>s, EntryNew, ZenonT(30) DEF z
    <2> DEFINE l2 == [lev EXCEPT ![f] = lev[s.at] - 1]
    <2>2. /\ lev[s.at] = k /\ lev[s.at] \in 2 .. 4
          /\ Top(s.mem, lev, live, s.at, i) /\ Above(s.mem, lev, s.at, w)
      BY <1>4, <1>t, Zenon
    <2>4. /\ l2 \in [Frames -> Levels] /\ l2[f] = lev[s.at] - 1
          /\ \A g \in Frames : g # f => l2[g] = lev[g]
      BY <2>1, <2>2, <1>0 DEF Levels
    <2> HIDE DEF l2
    <2>3. /\ Tree(z.mem, l2, live)
          /\ \A t \in Frames, j \in Indices :
               t # f /\ (t # s.at \/ j # i) => z.mem[t][j] = s.mem[t][j]
          /\ \A j \in Indices : z.mem[f][j].frame = None
          /\ z.mem[s.at][i].frame = f /\ (w => z.mem[s.at][i].writable)
          /\ f # s.at /\ lev[f] = 5
      <3>1. Entered(s.mem, z.mem, f, s.at, i, w) /\ s.bitmap[f] = 0 /\ s.mem[s.at][i].frame = None
        BY <2>1, <1>4, Zenon
      <3> QED
        BY <3>1, <2>2, <2>4, <1>0, <1>s, NewTree, SMTT(30)
    <2>7. Used(z.bitmap, l2)
      BY <2>1, <2>4, <1>0, <1>s DEF Used
    <2>5. Grows(s.mem, lev, z.mem, l2, IF z.ok THEN {<<s.at, i>>} ELSE {})
      <3>1. ASSUME NEW t \in Frames, NEW j \in Indices, lev[t] \in 1 .. 4, s.mem[t][j].frame # None
            PROVE  z.mem[t][j] = s.mem[t][j]
        BY <3>1, <2>3, <1>4
      <3>2. ASSUME NEW t \in Frames, NEW j \in Indices, l2[t] \in 1 .. 4, z.mem[t][j].frame # None
            PROVE  \/ lev[t] \in 1 .. 4 /\ s.mem[t][j].frame = z.mem[t][j].frame
                   \/ t = s.at /\ j = i /\ lev[z.mem[t][j].frame] = 5
        BY <3>2, <2>3, <2>4, Zenon
      <3>3. \A g \in Frames : lev[g] # 5 => l2[g] = lev[g]
        BY <2>3, <2>4, Zenon
      <3> QED
        BY <3>1, <3>2, <3>3, <2>1 DEF Grows
    <2>6. Above(z.mem, l2, z.at, w)
      <3>1. z.mem[s.at][i].frame # None /\ z.mem[s.at][i].frame = z.at
        BY <2>1, <2>3, Basics, Zenon
      <3>3. l2[s.at] \in 2 .. 4
        BY <2>2, <2>3, <2>4, <1>0, SMTT(30)
      <3>2. Above(z.mem, l2, z.mem[s.at][i].frame, w)
        BY <2>3, <3>1, <3>3, <1>0, AboveBelow, Zenon
      <3> QED
        BY <3>1, <3>2, Zenon
    <2>8. z.ok => s.ok /\ z.mem[s.at][i].frame = z.at /\ l2[z.at] = k - 1
      BY <2>1, <2>2, <2>3, <2>4, <1>4, Zenon
    <2>9. Result(s, lev, live, i, w, k, z, l2)
      BY <2>1, <2>3, <2>4, <2>5, <2>6, <2>7, <2>8, Zenon DEF Result
    <2> QED
      BY <2>9, <1>z, Zenon
  <1> QED
    BY <1>0, <1>1, <1>2, <1>3, <1>4, Zenon
-----------------------------------------------------------------------------
(* What map_to keeps and what it adds *)

\* Entry i of table t is on the way from r to p, above level 1; it is the entry
\* of the page itself.
OnPath(m, r, p, t, i) ==
  \/ t = r /\ i = p[1]
  \/ t = T3(m, r, p) /\ i = p[2]
  \/ T3(m, r, p) # None /\ t = T2(m, r, p) /\ i = p[3]
Slot(m, r, p, t, i) == t = T1(m, r, p) /\ i = p[4]

\* From (m, lev) to (m2, l2) by mapping p in r, with or without success.
MapsTo(m, lev, m2, l2, r, p, ok) ==
  /\ \A f \in Frames : lev[f] # 5 => l2[f] = lev[f]
  /\ \A t \in Frames, i \in Indices : lev[t] \in 1 .. 4 /\ m[t][i].frame # None =>
       \/ m2[t][i].frame = m[t][i].frame /\ (m[t][i].writable => m2[t][i].writable)
       \/ ok /\ Slot(m2, r, p, t, i)
  /\ \A t \in Frames, i \in Indices : l2[t] \in 1 .. 4 /\ m2[t][i].frame # None =>
       \/ lev[t] \in 1 .. 4 /\ m[t][i].frame = m2[t][i].frame
       \/ OnPath(m2, r, p, t, i) /\ lev[m2[t][i].frame] = 5
       \/ ok /\ Slot(m2, r, p, t, i)

\* The three calls of Entry::map at the start of map_to.
Descend(s, root, page, w) ==
  Entry_map(Entry_map(Entry_map([s EXCEPT !.at = root], page[1], w), page[2], w), page[3], w)

\* The outcome z of these calls, with the roles l1.
Descended(s, lev, live, root, page, w, z, l1) ==
  /\ z \in States /\ l1 \in [Frames -> Levels]
  /\ Tree(z.mem, l1, live) /\ Used(z.bitmap, l1)
  /\ MapsTo(s.mem, lev, z.mem, l1, root, page, FALSE)
  /\ z.ok => /\ Mapped(z.mem, root, page)
             /\ z.at = T1(z.mem, root, page)
             /\ l1[z.at] = 1
             /\ Above(z.mem, l1, z.at, w)

\* The way to the level 1 table of a page.
LEMMA MapTables ==
  ASSUME NEW s \in States, s.ok, NEW lev, NEW live, Tree(s.mem, lev, live), Used(s.bitmap, lev),
         NEW root \in live, NEW page \in Pages, NEW w \in BOOLEAN,
         Top(s.mem, lev, live, root, page[1])
  PROVE  \E l1 : Descended(s, lev, live, root, page, w, Descend(s, root, page, w), l1)
  <1> DEFINE s3 == Entry_map([s EXCEPT !.at = root], page[1], w)
             s2 == Entry_map(s3, page[2], w)
             s1 == Entry_map(s2, page[3], w)
  <1>d. Descend(s, root, page, w) = s1
    BY Zenon DEF Descend
  <1> DEFINE s4 == [s EXCEPT !.at = root]
  <1>0. /\ s.mem \in Tables /\ lev \in [Frames -> Levels] /\ live \subseteq Frames
        /\ lev[root] = 4 /\ root \in Frames
    BY Zenon DEF Tree, Typed, States
  <1>i. page[1] \in Indices /\ page[2] \in Indices /\ page[3] \in Indices /\ page[4] \in Indices
    BY PageFacts
  <1>e. s3 = Entry_map(s4, page[1], w)
    BY Zenon
  <1>f. s2 = Entry_map(s3, page[2], w)
    BY Zenon
  <1>g. s1 = Entry_map(s2, page[3], w)
    BY Zenon
  <1>1. s4 \in States /\ s4.mem = s.mem /\ s4.bitmap = s.bitmap /\ s4.at = root /\ s4.ok = s.ok
    BY <1>0, Zenon DEF States
  <1>2. Above(s4.mem, lev, s4.at, w)
    <2> SUFFICES ASSUME NEW u \in Frames, NEW j \in Indices, lev[u] \in 2 .. 4, s.mem[u][j].frame = root
                 PROVE  FALSE
      BY <1>1, Zenon DEF Above
    <2>1. lev[root] = lev[u] - 1
      BY <1>0, Basics DEF Tree, Leveled
    <2> QED
      BY <2>1, <1>0
  <1> HIDE DEF s4, s3, s2, s1
  <1>3. PICK l3 : Result(s4, lev, live, page[1], w, 4, s3, l3)
    <2>2. Ready(s4, lev, live, page[1], w, 4)
      BY <1>0, <1>1, <1>2, Zenon DEF Ready
    <2>3. 4 \in 2 .. 4
      OBVIOUS
    <2> QED
      BY <2>2, <2>3, <1>e, <1>i, EntryMap, Zenon
  <1>4. /\ s3 \in States /\ l3 \in [Frames -> Levels]
        /\ Tree(s3.mem, l3, live) /\ Used(s3.bitmap, l3)
        /\ Grows(s.mem, lev, s3.mem, l3, IF s3.ok THEN {<<root, page[1]>>} ELSE {})
        /\ s3.ok => /\ s3.mem[root][page[1]].frame = s3.at
                    /\ l3[s3.at] = 3
                    /\ Above(s3.mem, l3, s3.at, w)
    BY <1>1, <1>3 DEF Result
  <1>5. PICK l2 : Result(s3, l3, live, page[2], w, 3, s2, l2)
    <2>1. Ready(s3, l3, live, page[2], w, 3)
      BY <1>4 DEF Ready, Top
    <2>2. 3 \in 2 .. 4
      OBVIOUS
    <2> QED
      BY <2>1, <2>2, <1>f, <1>i, EntryMap, Zenon
  <1>6. /\ s2 \in States /\ l2 \in [Frames -> Levels]
        /\ Tree(s2.mem, l2, live) /\ Used(s2.bitmap, l2)
        /\ Grows(s3.mem, l3, s2.mem, l2, IF s2.ok THEN {<<s3.at, page[2]>>} ELSE {})
        /\ s2.ok => /\ s3.ok /\ s2.mem[s3.at][page[2]].frame = s2.at
                    /\ l2[s2.at] = 2
                    /\ Above(s2.mem, l2, s2.at, w)
    BY <1>5 DEF Result
  <1>7. PICK l1 : Result(s2, l2, live, page[3], w, 2, s1, l1)
    <2>3. s2.ok => Top(s2.mem, l2, live, s2.at, page[3])
      BY <1>6 DEF Top
    <2>1. Ready(s2, l2, live, page[3], w, 2)
      BY <2>3, <1>6, Zenon DEF Ready
    <2>2. 2 \in 2 .. 4
      OBVIOUS
    <2> QED
      BY <2>1, <2>2, <1>g, <1>i, EntryMap, Zenon
  <1>8. /\ s1 \in States /\ l1 \in [Frames -> Levels]
        /\ Tree(s1.mem, l1, live) /\ Used(s1.bitmap, l1)
        /\ Grows(s2.mem, l2, s1.mem, l1, IF s1.ok THEN {<<s2.at, page[3]>>} ELSE {})
        /\ s1.ok => /\ s2.ok /\ s1.mem[s2.at][page[3]].frame = s1.at
                    /\ l1[s1.at] = 1
                    /\ Above(s1.mem, l1, s1.at, w)
    BY <1>7 DEF Result
  <1>9. /\ s3.mem \in Tables /\ s2.mem \in Tables /\ s1.mem \in Tables
        /\ s3.at \in Frames /\ s2.at \in Frames /\ s1.at \in Frames
        /\ s3.at # None /\ s2.at # None /\ s1.at # None
    BY <1>4, <1>6, <1>8, Basics, SMTT(30) DEF States
  \* What is entered stays.
  <1>10. s3.ok => s2.mem[root][page[1]].frame = s3.at /\ l2[root] = 4 /\ l2[s3.at] = 3
    <2>1. l3[root] = 4
      BY <1>0, <1>4, GrowsKeeps, SMTT(30)
    <2> QED
      BY <2>1, <1>0, <1>4, <1>6, <1>9, <1>i, GrowsKeeps
  <1>11. s3.ok => s1.mem[root][page[1]].frame = s3.at /\ l1[s3.at] = 3
    BY <1>0, <1>10, <1>8, <1>9, <1>i, GrowsKeeps
  <1>12. s2.ok => s1.mem[s3.at][page[2]].frame = s2.at /\ l1[s2.at] = 2
    <2> SUFFICES ASSUME s2.ok PROVE s1.mem[s3.at][page[2]].frame = s2.at /\ l1[s2.at] = 2
      BY Zenon
    <2>1. l2[s3.at] = 3 /\ s2.mem[s3.at][page[2]].frame = s2.at /\ l2[s2.at] = 2
      BY <1>6, <1>10, Zenon
    <2>4. PICK Q : Grows(s2.mem, l2, s1.mem, l1, Q)
      BY <1>8, Zenon
    <2>5. l2[s3.at] \in 1 .. 4 /\ s2.mem[s3.at][page[2]].frame # None
      BY <2>1, <1>9
    <2>2. s1.mem[s3.at][page[2]].frame = s2.at
      BY <2>1, <2>4, <2>5, <1>9, <1>i, GrowsKeeps, SMTT(30)
    <2>3. l1[s2.at] = 2
      BY <2>1, <1>8, <1>9, GrowsKeeps
    <2> QED
      BY <2>2, <2>3, Zenon
  <1>13. /\ s3.ok => T3(s1.mem, root, page) = s3.at
         /\ s2.ok => T2(s1.mem, root, page) = s2.at
         /\ s1.ok => T1(s1.mem, root, page) = s1.at
    <2>1. s3.ok => T3(s1.mem, root, page) = s3.at
      BY <1>11, Zenon DEF T3
    <2>2. s2.ok => T2(s1.mem, root, page) = s2.at
      BY <2>1, <1>6, <1>12, Zenon DEF T2
    <2>3. s1.ok => T1(s1.mem, root, page) = s1.at
      BY <2>2, <1>8, Zenon DEF T1
    <2> QED
      BY <2>1, <2>2, <2>3, Zenon
  <1> DEFINE P == ((IF s3.ok THEN {<<root, page[1]>>} ELSE {}) \cup
                   (IF s2.ok THEN {<<s3.at, page[2]>>} ELSE {})) \cup
                  (IF s1.ok THEN {<<s2.at, page[3]>>} ELSE {})
  <1>14. Grows(s.mem, lev, s1.mem, l1, P)
    <2>1. Grows(s.mem, lev, s2.mem, l2, (IF s3.ok THEN {<<root, page[1]>>} ELSE {}) \cup
                                        (IF s2.ok THEN {<<s3.at, page[2]>>} ELSE {}))
      BY <1>0, <1>4, <1>6, <1>9, GrowsTrans, SMTT(30)
    <2> QED
      BY <2>1, <1>0, <1>8, <1>9, GrowsTrans, SMTT(30)
  <1>15. ASSUME NEW t \in Frames, NEW i \in Indices, <<t, i>> \in P
         PROVE  OnPath(s1.mem, root, page, t, i)
    <2>1. \/ s3.ok /\ t = root /\ i = page[1]
          \/ s2.ok /\ t = s3.at /\ i = page[2]
          \/ s1.ok /\ t = s2.at /\ i = page[3]
      BY <1>15, SMTT(30)
    <2> QED
      BY <2>1, <1>6, <1>8, <1>9, <1>13, Zenon DEF OnPath
  <1> HIDE DEF P
  <1>16. MapsTo(s.mem, lev, s1.mem, l1, root, page, FALSE)
    BY <1>14, <1>15, Zenon DEF Grows, MapsTo
  <1>17. s1.ok => Mapped(s1.mem, root, page) /\ s1.at = T1(s1.mem, root, page)
    BY <1>6, <1>8, <1>9, <1>13, Zenon DEF Mapped
  <1>18. Descended(s, lev, live, root, page, w, s1, l1)
    BY <1>8, <1>16, <1>17, Zenon DEF Descended
  <1> QED
    BY <1>d, <1>18, Zenon

\* The levels of the tables on the way to a page.
LEMMA PathLevels ==
  ASSUME NEW m, NEW lev, NEW live, Tree(m, lev, live), NEW r \in live, NEW p \in Pages,
         T3(m, r, p) # None
  PROVE  /\ r \in Frames /\ lev[r] = 4
         /\ T3(m, r, p) \in Frames /\ lev[T3(m, r, p)] = 3
         /\ T2(m, r, p) # None => T2(m, r, p) \in Frames /\ lev[T2(m, r, p)] = 2
         /\ Mapped(m, r, p) => T1(m, r, p) \in Frames /\ lev[T1(m, r, p)] = 1
  <1>0. m \in Tables /\ lev \in [Frames -> Levels] /\ r \in Frames /\ lev[r] = 4
    BY Zenon DEF Tree, Typed
  <1>1. \A l \in 1 .. 4 : p[l] \in Indices
    BY PageFacts, Zenon
  <1>2. ASSUME NEW t \in Frames, NEW i \in Indices, lev[t] \in 1 .. 4, m[t][i].frame # None
        PROVE  m[t][i].frame \in Frames /\ lev[m[t][i].frame] = lev[t] - 1
    BY <1>0, <1>2 DEF Tree, Leveled, Tables, Entries
  <1>3. T3(m, r, p) \in Frames /\ lev[T3(m, r, p)] = 3
    BY <1>0, <1>1, <1>2 DEF T3
  <1>4. T2(m, r, p) # None => T2(m, r, p) \in Frames /\ lev[T2(m, r, p)] = 2
    BY <1>1, <1>2, <1>3 DEF T2
  <1>5. Mapped(m, r, p) => T1(m, r, p) \in Frames /\ lev[T1(m, r, p)] = 1
    BY <1>1, <1>2, <1>4 DEF T1, Mapped
  <1> QED
    BY <1>0, <1>3, <1>4, <1>5, Zenon

\* The outcome z of map_to with e as the page's entry, and the roles l2.
MapResult(s, lev, live, root, page, e, z, l2) ==
  /\ z \in States /\ l2 \in [Frames -> Levels]
  /\ Tree(z.mem, l2, live) /\ Used(z.bitmap, l2)
  /\ MapsTo(s.mem, lev, z.mem, l2, root, page, z.ok)
  /\ z.ok => /\ Mapped(z.mem, root, page)
             /\ z.mem[T1(z.mem, root, page)][page[4]] = e

\* PageTable::map_to of a page to an identity mapped frame, or to a frame that
\* no table leads to.
LEMMA MapTo ==
  ASSUME NEW s \in States, s.ok, NEW lev, NEW live, Tree(s.mem, lev, live), Used(s.bitmap, lev),
         NEW root \in live, NEW page \in Pages, NEW w \in BOOLEAN,
         Top(s.mem, lev, live, root, page[1]),
         NEW g \in Frames, lev[g] = 0,
         \/ g \in Identity
         \/ \A t \in Frames, i \in Indices : lev[t] \in 1 .. 4 => s.mem[t][i].frame # g
  PROVE  \E l2 : MapResult(s, lev, live, root, page, EntryTo(g, w), map_to(s, root, page, g, w), l2)
  <1> DEFINE s1 == Descend(s, root, page, w)
             z == map_to(s, root, page, g, w)
  <1>1. PICK l1 : Descended(s, lev, live, root, page, w, s1, l1)
    BY MapTables, Zenon
  <1>2. /\ s1 \in States /\ l1 \in [Frames -> Levels]
        /\ Tree(s1.mem, l1, live) /\ Used(s1.bitmap, l1)
        /\ MapsTo(s.mem, lev, s1.mem, l1, root, page, FALSE)
        /\ s1.ok => /\ Mapped(s1.mem, root, page)
                    /\ s1.at = T1(s1.mem, root, page)
                    /\ l1[s1.at] = 1
                    /\ Above(s1.mem, l1, s1.at, w)
    BY <1>1, Zenon DEF Descended
  <1>3. z = IF s1.ok THEN [s1 EXCEPT !.mem[s1.at][page[4]] = EntryTo(g, w)] ELSE s1
    BY Zenon DEF map_to, Descend
  <1> HIDE DEF s1, z
  <1>4. CASE ~s1.ok
    <2>1. z = s1
      BY <1>3, <1>4, SMTT(30)
    <2>2. MapsTo(s.mem, lev, s1.mem, l1, root, page, s1.ok)
      BY <1>2, <1>4, Zenon DEF MapsTo
    <2>3. MapResult(s, lev, live, root, page, EntryTo(g, w), z, l1)
      BY <2>1, <2>2, <1>2, <1>4, Zenon DEF MapResult
    <2> QED
      BY <2>3, Zenon DEF z
  <1>5. CASE s1.ok
    <2>0. /\ s1.mem \in Tables /\ s1.at \in Frames /\ page[4] \in Indices /\ page[3] \in Indices
          /\ page[2] \in Indices /\ page[1] \in Indices
          /\ s1.bitmap \in [Frames -> {0, 1}]
      BY <1>2, PageFacts DEF States
    <2>1. /\ z.mem = [s1.mem EXCEPT ![s1.at][page[4]] = EntryTo(g, w)]
          /\ z.bitmap = s1.bitmap /\ z.at = s1.at /\ z.ok = s1.ok
          /\ z = [bitmap |-> z.bitmap, mem |-> z.mem, at |-> z.at, ok |-> z.ok]
      BY <1>2, <1>3, <1>5, Zenon DEF States
    <2>2. EntryTo(g, w) \in Entries
      BY Zenon DEF EntryTo, Entries
    <2>3. z.mem \in Tables
      BY <2>0, <2>1, <2>2 DEF Tables
    <2>4. Changed(s1.mem, z.mem, s1.at, page[4], EntryTo(g, w))
      BY <2>0, <2>1, <2>3 DEF Changed, Tables
    <2>5. z \in States
      BY <2>0, <2>1, <2>3, <1>2, Zenon DEF States
    <2>6. l1[g] = 0 /\ l1[s1.at] = 1
      BY <1>2, <1>5 DEF MapsTo
    <2>7. \/ g \in Identity
          \/ \A t \in Frames, i \in Indices : l1[t] \in 1 .. 4 => s1.mem[t][i].frame # g
      BY <1>2, Basics DEF MapsTo
    <2>8. Above(s1.mem, l1, s1.at, w) /\ Tree(s1.mem, l1, live)
      BY <1>2, <1>5, Zenon
    <2>9. Tree(z.mem, l1, live)
      BY <2>0, <2>4, <2>6, <2>7, <2>8, PageTree, Zenon
    <2>10. /\ root \in Frames /\ l1[root] = 4
           /\ T3(s1.mem, root, page) \in Frames /\ l1[T3(s1.mem, root, page)] = 3
           /\ T2(s1.mem, root, page) \in Frames /\ l1[T2(s1.mem, root, page)] = 2
      BY <1>2, <1>5, PathLevels DEF Mapped
    <2>11. \A t \in Frames, i \in Indices : t # s1.at => z.mem[t][i] = s1.mem[t][i]
      BY <2>4, Zenon DEF Changed
    <2>12. T3(z.mem, root, page) = T3(s1.mem, root, page)
      BY <2>0, <2>6, <2>10, <2>11, SMTT(30) DEF T3
    <2>13. T2(z.mem, root, page) = T2(s1.mem, root, page)
      BY <2>0, <2>6, <2>10, <2>11, <2>12 DEF T2
    <2>14. T1(z.mem, root, page) = T1(s1.mem, root, page)
      BY <2>0, <2>6, <2>10, <2>11, <2>13 DEF T1
    <2>15. T1(z.mem, root, page) = s1.at /\ Mapped(z.mem, root, page)
      BY <2>12, <2>13, <2>14, <1>2, <1>5, Zenon DEF Mapped
    <2>16. z.mem[T1(z.mem, root, page)][page[4]] = EntryTo(g, w)
      BY <2>15, <2>4, SMTT(30) DEF Changed
    <2>17. MapsTo(s.mem, lev, z.mem, l1, root, page, z.ok)
      <3>1. \A t \in Frames, i \in Indices : z.mem[t][i] = s1.mem[t][i] \/ Slot(z.mem, root, page, t, i)
        BY <2>4, <2>15, Zenon DEF Changed, Slot
      <3>2. \A t \in Frames, i \in Indices :
              OnPath(s1.mem, root, page, t, i) => OnPath(z.mem, root, page, t, i)
        BY <2>12, <2>13, Zenon DEF OnPath
      <3>3. z.ok
        BY <2>1, <1>5, SMTT(30)
      <3> QED
        BY <3>1, <3>2, <3>3, <1>2 DEF MapsTo
    <2>18. MapResult(s, lev, live, root, page, EntryTo(g, w), z, l1)
      BY <2>1, <2>5, <2>9, <2>15, <2>16, <2>17, <1>2, Zenon DEF MapResult
    <2> QED
      BY <2>18 DEF z
  <1> QED
    BY <1>4, <1>5, Zenon

\* Two entries that lead to one table.
LEMMA SameParent ==
  ASSUME NEW m, NEW lev, NEW live, Tree(m, lev, live),
         NEW t \in Frames, NEW u \in Frames, NEW i \in Indices, NEW j \in Indices,
         lev[t] \in 2 .. 4, lev[u] \in 2 .. 4,
         m[t][i].frame = m[u][j].frame, m[t][i].frame # None
  PROVE  i = j /\ (t = u \/ (lev[t] = 4 /\ i >= HIGHER_HALF_ENTRY))
  <1>1. lev[m[t][i].frame] = lev[t] - 1
    BY DEF Tree, Leveled
  <1>2. m[t][i].frame \notin {None} \cup Identity
    BY <1>1 DEF Tree, Typed
  <1> QED
    BY <1>2 DEF Tree, OneParent

\* A level 1 table is the table of one range of pages.
LEMMA SameTable ==
  ASSUME NEW m, NEW lev, NEW live, Tree(m, lev, live), NEW r \in live, NEW q \in live,
         NEW p \in Pages, NEW x \in Pages, Mapped(m, r, p), Mapped(m, q, x),
         T1(m, r, p) = T1(m, q, x)
  PROVE  p[1] = x[1] /\ p[2] = x[2] /\ p[3] = x[3]
  <1>0. \A l \in 1 .. 4 : p[l] \in Indices /\ x[l] \in Indices
    BY PageFacts, Zenon
  <1>1. /\ r \in Frames /\ lev[r] = 4
        /\ T3(m, r, p) \in Frames /\ lev[T3(m, r, p)] = 3
        /\ T2(m, r, p) \in Frames /\ lev[T2(m, r, p)] = 2
        /\ T1(m, r, p) \in Frames /\ lev[T1(m, r, p)] = 1
    BY PathLevels DEF Mapped
  <1>2. /\ q \in Frames /\ lev[q] = 4
        /\ T3(m, q, x) \in Frames /\ lev[T3(m, q, x)] = 3
        /\ T2(m, q, x) \in Frames /\ lev[T2(m, q, x)] = 2
        /\ T1(m, q, x) \in Frames /\ lev[T1(m, q, x)] = 1
    BY PathLevels DEF Mapped
  <1>4. p[3] = x[3] /\ T2(m, r, p) = T2(m, q, x)
    <2>1. m[T2(m, r, p)][p[3]].frame = m[T2(m, q, x)][x[3]].frame /\ m[T2(m, r, p)][p[3]].frame # None
      BY Zenon DEF T1, Mapped
    <2> QED
      BY <2>1, <1>0, <1>1, <1>2, SameParent
  <1>5. p[2] = x[2] /\ T3(m, r, p) = T3(m, q, x)
    <2>1. m[T3(m, r, p)][p[2]].frame = m[T3(m, q, x)][x[2]].frame /\ m[T3(m, r, p)][p[2]].frame # None
      BY <1>4, Zenon DEF T2, Mapped
    <2> QED
      BY <2>1, <1>0, <1>1, <1>2, SameParent, SMTT(30)
  <1>6. p[1] = x[1]
    <2>1. m[r][p[1]].frame = m[q][x[1]].frame /\ m[r][p[1]].frame # None
      BY <1>5, Zenon DEF T3, Mapped
    <2> QED
      BY <2>1, <1>0, <1>1, <1>2, SameParent
  <1> QED
    BY <1>4, <1>5, <1>6, Zenon

\* The outcome of mapping p in r, for the lemmas below.
MapStep(m, lev, m2, l2, live, r, p, ok) ==
  /\ Tree(m, lev, live) /\ Tree(m2, l2, live)
  /\ r \in live /\ p \in Pages /\ ok \in BOOLEAN
  /\ MapsTo(m, lev, m2, l2, r, p, ok)
  /\ ok => Mapped(m2, r, p)

\* The entries above level 1 are kept, and new ones lead to frames without a role.
Keeps(m, lev, m2, l2, r, p) ==
  /\ \A t \in Frames, i \in Indices : lev[t] \in 2 .. 4 /\ m[t][i].frame # None =>
       m2[t][i].frame = m[t][i].frame /\ (m[t][i].writable => m2[t][i].writable)
  /\ \A t \in Frames, i \in Indices : l2[t] \in 2 .. 4 /\ m2[t][i].frame # None =>
       \/ lev[t] = l2[t] /\ m[t][i].frame = m2[t][i].frame
       \/ OnPath(m2, r, p, t, i) /\ lev[m2[t][i].frame] = 5

\* map_to keeps the entries above level 1, and adds entries to frames without a
\* role only.
LEMMA MapKeeps ==
  ASSUME NEW m, NEW lev, NEW m2, NEW l2, NEW live, NEW r, NEW p, NEW ok,
         MapStep(m, lev, m2, l2, live, r, p, ok)
  PROVE  Keeps(m, lev, m2, l2, r, p)
  <1>1. ASSUME NEW t \in Frames, NEW i \in Indices, ok, Slot(m2, r, p, t, i) PROVE l2[t] = 1
    <2>1. T3(m2, r, p) # None /\ Mapped(m2, r, p)
      BY <1>1, Zenon DEF MapStep, Mapped
    <2> QED
      BY <1>1, <2>1, PathLevels DEF MapStep, Slot
  <1>2. \A f \in Frames : lev[f] # 5 => l2[f] = lev[f]
    BY Zenon DEF MapStep, MapsTo
  <1>3. ASSUME NEW t \in Frames, NEW i \in Indices, lev[t] \in 2 .. 4, m[t][i].frame # None
        PROVE  m2[t][i].frame = m[t][i].frame /\ (m[t][i].writable => m2[t][i].writable)
    <2>1. \/ m2[t][i].frame = m[t][i].frame /\ (m[t][i].writable => m2[t][i].writable)
          \/ ok /\ Slot(m2, r, p, t, i)
      BY <1>3 DEF MapStep, MapsTo
    <2>2. l2[t] # 1
      BY <1>2, <1>3
    <2> QED
      BY <2>1, <2>2, <1>1, Zenon
  <1>4. ASSUME NEW t \in Frames, NEW i \in Indices, l2[t] \in 2 .. 4, m2[t][i].frame # None
        PROVE  \/ lev[t] = l2[t] /\ m[t][i].frame = m2[t][i].frame
               \/ OnPath(m2, r, p, t, i) /\ lev[m2[t][i].frame] = 5
    <2>1. \/ lev[t] \in 1 .. 4 /\ m[t][i].frame = m2[t][i].frame
          \/ OnPath(m2, r, p, t, i) /\ lev[m2[t][i].frame] = 5
          \/ ok /\ Slot(m2, r, p, t, i)
      BY <1>4 DEF MapStep, MapsTo
    <2>2. lev[t] \in 1 .. 4 => lev[t] = l2[t]
      BY <1>2
    <2> QED
      BY <2>1, <2>2, <1>1, <1>4
  <1> QED
    BY <1>3, <1>4, Zenon DEF Keeps

\* The way to page x from q is the same in m2, and so is the page, unless x is p.
SameWalk(m, m2, q, x, p) ==
  /\ T3(m2, q, x) = T3(m, q, x) /\ T2(m2, q, x) = T2(m, q, x) /\ T1(m2, q, x) = T1(m, q, x)
  /\ x # p /\ m[T1(m, q, x)][x[4]].frame # None =>
       m2[T1(m2, q, x)][x[4]].frame = m[T1(m, q, x)][x[4]].frame

\* map_to leaves the walk to another page as it is.
LEMMA WalkKept ==
  ASSUME NEW m, NEW lev, NEW m2, NEW l2, NEW live, NEW r, NEW p, NEW ok,
         MapStep(m, lev, m2, l2, live, r, p, ok),
         NEW q \in live, NEW x \in Pages, Mapped(m, q, x)
  PROVE  SameWalk(m, m2, q, x, p)
  <1>0. \A l \in 1 .. 4 : x[l] \in Indices
    BY PageFacts, Zenon
  <1>1. /\ q \in Frames /\ lev[q] = 4
        /\ T3(m, q, x) \in Frames /\ lev[T3(m, q, x)] = 3
        /\ T2(m, q, x) \in Frames /\ lev[T2(m, q, x)] = 2
        /\ T1(m, q, x) \in Frames /\ lev[T1(m, q, x)] = 1
    BY PathLevels, SMTT(30) DEF Mapped, MapStep
  <1>2. ASSUME NEW t \in Frames, NEW i \in Indices, lev[t] \in 2 .. 4, m[t][i].frame # None
        PROVE  m2[t][i].frame = m[t][i].frame
    <2>1. Keeps(m, lev, m2, l2, r, p)
      BY MapKeeps, Zenon
    <2> QED
      BY <1>2, <2>1, Zenon DEF Keeps
  <1>3. T3(m2, q, x) = T3(m, q, x)
    BY <1>0, <1>1, <1>2 DEF T3, Mapped
  <1>4. T2(m2, q, x) = T2(m, q, x)
    BY <1>0, <1>1, <1>2, <1>3 DEF T2, Mapped
  <1>5. T1(m2, q, x) = T1(m, q, x)
    BY <1>0, <1>1, <1>2, <1>4 DEF T1, Mapped
  <1>6. ASSUME x # p, m[T1(m, q, x)][x[4]].frame # None
        PROVE  m2[T1(m2, q, x)][x[4]].frame = m[T1(m, q, x)][x[4]].frame
    <2>1. \/ m2[T1(m, q, x)][x[4]].frame = m[T1(m, q, x)][x[4]].frame
          \/ ok /\ Slot(m2, r, p, T1(m, q, x), x[4])
      BY <1>0, <1>1, <1>6 DEF MapStep, MapsTo
    <2>2. ASSUME ok, Slot(m2, r, p, T1(m, q, x), x[4]) PROVE FALSE
      <3>1. Mapped(m2, r, p) /\ Mapped(m2, q, x) /\ T1(m2, r, p) = T1(m2, q, x) /\ p[4] = x[4]
        BY <2>2, <1>3, <1>4, <1>5, Zenon DEF MapStep, Mapped, Slot
      <3>2. Tree(m2, l2, live) /\ r \in live /\ p \in Pages
        BY Zenon DEF MapStep
      <3>3. p[1] = x[1] /\ p[2] = x[2] /\ p[3] = x[3]
        BY <3>1, <3>2, SameTable
      <3>4. \A l \in 1 .. 4 : p[l] = x[l]
        <4>1. \A l \in 1 .. 4 : l = 1 \/ l = 2 \/ l = 3 \/ l = 4
          OBVIOUS
        <4> QED
          BY <4>1, <3>1, <3>3, Zenon
      <3> QED
        BY <3>2, <3>4, <1>6, PageFacts, Zenon
    <2> QED
      BY <2>1, <2>2, <1>5, Zenon
  <1> QED
    BY <1>3, <1>4, <1>5, <1>6, Zenon DEF SameWalk

\* map_to keeps the heap mapped.
LEMMA HeapWalksKept ==
  ASSUME NEW m, NEW lev, NEW m2, NEW l2, NEW live, NEW r, NEW p, NEW ok,
         MapStep(m, lev, m2, l2, live, r, p, ok), BootRoot \in live,
         NEW n \in 0 .. Len(HeapPages), HeapWalks(m, n),
         \A i \in 1 .. n : HeapPages[i] # p
  PROVE  HeapWalks(m2, n)
  <1> SUFFICES ASSUME NEW i \in 1 .. n
               PROVE  /\ Mapped(m2, BootRoot, HeapPages[i])
                      /\ m2[T1(m2, BootRoot, HeapPages[i])][HeapPages[i][4]].frame
                           \notin {None} \cup Identity
    BY Zenon DEF HeapWalks
  <1>1. /\ Mapped(m, BootRoot, HeapPages[i])
        /\ m[T1(m, BootRoot, HeapPages[i])][HeapPages[i][4]].frame \notin {None} \cup Identity
        /\ HeapPages[i] # p
    BY Zenon DEF HeapWalks
  <1>2. HeapPages[i] \in Pages
    BY KernelPages, SMTT(30)
  <1> DEFINE x == HeapPages[i]
  <1> HIDE DEF x
  <1>3. /\ T3(m2, BootRoot, x) = T3(m, BootRoot, x) /\ T2(m2, BootRoot, x) = T2(m, BootRoot, x)
        /\ T1(m2, BootRoot, x) = T1(m, BootRoot, x)
        /\ m2[T1(m2, BootRoot, x)][x[4]].frame = m[T1(m, BootRoot, x)][x[4]].frame
    <2>1. Mapped(m, BootRoot, x) /\ x # p /\ x \in Pages /\ m[T1(m, BootRoot, x)][x[4]].frame # None
      BY <1>1, <1>2, Zenon DEF x
    <2>2. SameWalk(m, m2, BootRoot, x, p)
      BY <2>1, WalkKept, Zenon
    <2> QED
      BY <2>1, <2>2, Zenon DEF SameWalk
  <1> QED
    BY <1>1, <1>3, Zenon DEF Mapped, x

\* map_to keeps the entry of the heap in every pml4.
LEMMA HeapEntryKept ==
  ASSUME NEW m, NEW lev, NEW m2, NEW l2, NEW live, NEW r, NEW p, NEW ok,
         MapStep(m, lev, m2, l2, live, r, p, ok), HeapEntry(m, live)
  PROVE  HeapEntry(m2, live)
  <1> SUFFICES ASSUME NEW q \in live
               PROVE  m2[q][HeapPages[1][1]].frame # None /\ m2[q][HeapPages[1][1]].writable
    BY Zenon DEF HeapEntry
  <1>1. q \in Frames /\ lev[q] = 4 /\ lev[q] \in 2 .. 4
    BY DEF MapStep, Tree, Typed
  <1>2. HeapPages[1][1] \in Indices
    BY KernelPages, PageFacts
  <1>3. m[q][HeapPages[1][1]].frame # None /\ m[q][HeapPages[1][1]].writable
    BY Zenon DEF HeapEntry
  <1>4. Keeps(m, lev, m2, l2, r, p)
    BY MapKeeps, Zenon
  <1> QED
    BY <1>1, <1>2, <1>3, <1>4, Zenon DEF Keeps

\* Mapping an identity mapped page, or a page of the higher half, adds no other
\* lower-half paths.
LEMMA LowerPathsKept ==
  ASSUME NEW m, NEW lev, NEW m2, NEW l2, NEW live, NEW r, NEW p, NEW ok,
         MapStep(m, lev, m2, l2, live, r, p, ok), LowerPaths(m, live),
         p[1] < HIGHER_HALF_ENTRY => p \in {LapicPage, AcpiPage}
  PROVE  LowerPaths(m2, live)
  <1> SUFFICES ASSUME NEW q \in live, NEW a \in Indices, NEW b \in Indices, NEW c \in Indices
               PROVE  LowerPath(m2, a, b, c, m2[q][a].frame, m2[m2[q][a].frame][b].frame)
    BY Zenon DEF LowerPaths
  <1>t. PICK t : t = m2[q][a].frame
    BY Zenon
  <1>u. PICK u : u = m2[t][b].frame
    BY SMTT(30)
  <1> SUFFICES ASSUME a < HIGHER_HALF_ENTRY, t # None, u # None
               PROVE  /\ b < HIGHER_HALF_ENTRY
                      /\ c >= HIGHER_HALF_ENTRY /\ m2[u][c].frame # None =>
                           \E x \in {LapicPage, AcpiPage} : x[1] = a /\ x[2] = b /\ x[3] = c
    BY <1>t, <1>u, Zenon DEF LowerPath
  <1>0. /\ Tree(m2, l2, live) /\ p \in Pages /\ r \in live
        /\ m2 \in Tables /\ lev \in [Frames -> Levels] /\ l2 \in [Frames -> Levels]
        /\ q \in Frames /\ l2[q] = 4 /\ lev[q] = 4
        /\ r \in Frames /\ l2[r] = 4
    BY Zenon DEF MapStep, Tree, Typed
  <1>i. p[1] \in Indices /\ p[2] \in Indices /\ p[3] \in Indices
    BY <1>0, PageFacts
  <1>1. t \in Frames /\ l2[t] = 3
    BY <1>0, <1>t DEF Tree, Leveled, Tables, Entries
  <1>2. u \in Frames /\ l2[u] = 2
    BY <1>0, <1>1, <1>u DEF Tree, Leveled, Tables, Entries
  <1>r. l2[q] \in 2 .. 4 /\ l2[r] \in 2 .. 4 /\ l2[t] \in 2 .. 4 /\ l2[u] \in 2 .. 4
    BY <1>0, <1>1, <1>2, SMTT(30)
  <1>3. ASSUME NEW f \in Frames, NEW i \in Indices, l2[f] \in 2 .. 4, m2[f][i].frame # None
        PROVE  \/ lev[f] = l2[f] /\ m[f][i].frame = m2[f][i].frame
               \/ OnPath(m2, r, p, f, i) /\ lev[m2[f][i].frame] = 5
    <2>1. Keeps(m, lev, m2, l2, r, p)
      BY MapKeeps, Zenon
    <2> QED
      BY <1>3, <2>1, Zenon DEF Keeps
  <1>p. T3(m2, r, p) # None => /\ T3(m2, r, p) \in Frames /\ l2[T3(m2, r, p)] = 3
                               /\ T2(m2, r, p) # None => T2(m2, r, p) \in Frames /\ l2[T2(m2, r, p)] = 2
    BY <1>0, PathLevels
  \* The entry of q and the one of t are old if what they lead to is.
  <1>4. lev[t] = 3 => m[q][a].frame = t
    BY <1>0, <1>1, <1>3, <1>r, <1>t
  <1>5. lev[u] = 2 => lev[t] = 3 /\ m[t][b].frame = u
    BY <1>1, <1>2, <1>3, <1>r, <1>u
  <1>6. CASE lev[t] = 3 /\ m[t][b].frame = u
    <2>1. m[q][a].frame = t
      BY <1>4, <1>6, Zenon
    <2>l. LowerPath(m, a, b, c, t, u)
      <3>1. LowerPath(m, a, b, c, m[q][a].frame, m[m[q][a].frame][b].frame)
        BY Zenon DEF LowerPaths
      <3> QED
        BY <3>1, <2>1, <1>6, Zenon
    <2>2. /\ b < HIGHER_HALF_ENTRY
          /\ c >= HIGHER_HALF_ENTRY /\ m[u][c].frame # None =>
               \E x \in {LapicPage, AcpiPage} : x[1] = a /\ x[2] = b /\ x[3] = c
      BY <2>l, Zenon DEF LowerPath
    <2>3. ASSUME c >= HIGHER_HALF_ENTRY, m2[u][c].frame # None
          PROVE  \E x \in {LapicPage, AcpiPage} : x[1] = a /\ x[2] = b /\ x[3] = c
      <3>1. CASE lev[u] = 2 /\ m[u][c].frame = m2[u][c].frame
        BY <3>1, <2>2, <2>3, Zenon
      <3>2. CASE OnPath(m2, r, p, u, c)
        <4>1. T3(m2, r, p) # None /\ u = T2(m2, r, p) /\ c = p[3]
          BY <3>2, <1>0, <1>2, <1>p, Basics DEF OnPath
        <4>2. b = p[2] /\ t = T3(m2, r, p)
          <5>1. m2[t][b].frame = m2[T3(m2, r, p)][p[2]].frame /\ m2[t][b].frame # None
            BY <4>1, <1>u, Zenon DEF T2
          <5>2. T3(m2, r, p) \in Frames /\ l2[T3(m2, r, p)] \in 2 .. 4 /\ l2[t] # 4
            BY <4>1, <1>1, <1>p
          <5>3. b = p[2] /\ (t = T3(m2, r, p) \/ (l2[t] = 4 /\ b >= HIGHER_HALF_ENTRY))
            BY <5>1, <5>2, <1>0, <1>1, <1>r, <1>i, SameParent, SMTT(30)
          <5> QED
            BY <5>2, <5>3, Zenon
        <4>3. a = p[1]
          <5>1. m2[q][a].frame = m2[r][p[1]].frame /\ m2[q][a].frame # None
            BY <4>2, <1>t, Zenon DEF T3
          <5> QED
            BY <5>1, <1>0, <1>r, <1>i, SameParent
        <4> QED
          BY <4>1, <4>2, <4>3, Zenon
      <3> QED
        BY <3>1, <3>2, <1>2, <1>3, <1>r, <2>3, SMTT(30)
    <2> QED
      BY <2>2, <2>3, Zenon
  <1>7. CASE OnPath(m2, r, p, t, b) /\ lev[u] = 5
    <2>1. t = T3(m2, r, p) /\ b = p[2]
      BY <1>7, <1>0, <1>1, <1>2, <1>p, Basics, SMTT(30) DEF OnPath
    <2>2. a = p[1]
      <3>1. m2[q][a].frame = m2[r][p[1]].frame /\ m2[q][a].frame # None
        BY <2>1, <1>t, Zenon DEF T3
      <3> QED
        BY <3>1, <1>0, <1>r, <1>i, SameParent
    <2>3. p \in {LapicPage, AcpiPage} /\ b < HIGHER_HALF_ENTRY
      BY <2>1, <2>2, IdentityAssumption, Zenon
    <2>4. ASSUME c >= HIGHER_HALF_ENTRY, m2[u][c].frame # None
          PROVE  \E x \in {LapicPage, AcpiPage} : x[1] = a /\ x[2] = b /\ x[3] = c
      <3>1. OnPath(m2, r, p, u, c)
        BY <1>7, <1>2, <1>3, <1>r, <2>4
      <3>2. c = p[3]
        BY <3>1, <1>0, <1>2, <1>p, Basics DEF OnPath
      <3> QED
        BY <3>2, <2>1, <2>2, <2>3, Zenon
    <2> QED
      BY <2>3, <2>4, Zenon
  <1> QED
    BY <1>6, <1>7, <1>1, <1>3, <1>r, <1>u, Zenon

\* The writable flag of a page is on all the entries on the way to it.
LEMMA WritableUp ==
  ASSUME NEW m, NEW lev, NEW live, Tree(m, lev, live), NEW r \in live, NEW p \in Pages,
         Mapped(m, r, p), m[T1(m, r, p)][p[4]].frame # None, m[T1(m, r, p)][p[4]].writable
  PROVE  m[r][p[1]].writable /\ m[T3(m, r, p)][p[2]].writable /\ m[T2(m, r, p)][p[3]].writable
  <1>0. p[1] \in Indices /\ p[2] \in Indices /\ p[3] \in Indices /\ p[4] \in Indices
    BY PageFacts
  <1>1. /\ r \in Frames /\ lev[r] = 4
        /\ T3(m, r, p) \in Frames /\ lev[T3(m, r, p)] = 3
        /\ T2(m, r, p) \in Frames /\ lev[T2(m, r, p)] = 2
        /\ T1(m, r, p) \in Frames /\ lev[T1(m, r, p)] = 1
    BY PathLevels DEF Mapped
  <1>2. ASSUME NEW t \in Frames, NEW u \in Frames, NEW i \in Indices, NEW j \in Indices,
               lev[t] \in 1 .. 3, lev[u] \in 2 .. 4, m[u][j].frame = t,
               m[t][i].frame # None, m[t][i].writable
        PROVE  m[u][j].writable
    BY <1>2, Zenon DEF Tree, WritableAbove
  <1>l. /\ lev[r] \in 2 .. 4 /\ lev[T3(m, r, p)] \in 2 .. 4 /\ lev[T3(m, r, p)] \in 1 .. 3
        /\ lev[T2(m, r, p)] \in 2 .. 4 /\ lev[T2(m, r, p)] \in 1 .. 3 /\ lev[T1(m, r, p)] \in 1 .. 3
    BY <1>1, SMTT(30)
  <1>e. /\ m[T2(m, r, p)][p[3]].frame = T1(m, r, p)
        /\ m[T3(m, r, p)][p[2]].frame = T2(m, r, p)
        /\ m[r][p[1]].frame = T3(m, r, p)
    BY Zenon DEF T3, T2, T1
  <1>3. m[T2(m, r, p)][p[3]].writable
    BY <1>0, <1>1, <1>2, <1>l, <1>e
  <1>4. m[T3(m, r, p)][p[2]].writable
    BY <1>0, <1>1, <1>2, <1>3, <1>l, <1>e DEF Mapped
  <1>5. m[r][p[1]].writable
    BY <1>0, <1>1, <1>2, <1>4, <1>l, <1>e DEF Mapped
  <1> QED
    BY <1>3, <1>4, <1>5, Zenon

\* A frame without a role may become a page that no table leads to yet.
LEMMA PageRole ==
  ASSUME NEW m, NEW lev, NEW live, Tree(m, lev, live), NEW f \in Frames, lev[f] = 5
  PROVE  \E l2 : /\ Tree(m, l2, live) /\ l2[f] = 0 /\ f \notin Identity
                 /\ \A g \in Frames : g # f => l2[g] = lev[g]
                 /\ \A t \in Frames, i \in Indices : l2[t] \in 1 .. 4 => m[t][i].frame # f
  <1> DEFINE l2 == [lev EXCEPT ![f] = 0]
  <1>0. /\ m \in Tables /\ lev \in [Frames -> Levels] /\ live \subseteq Frames
        /\ \A g \in Identity : lev[g] = 0
    BY Zenon DEF Tree, Typed
  <1>1. l2 \in [Frames -> Levels] /\ l2[f] = 0 /\ \A g \in Frames : g # f => l2[g] = lev[g]
    BY <1>0 DEF Levels
  <1> HIDE DEF l2
  <1>2. \A t \in Frames : l2[t] \in 1 .. 4 \/ lev[t] \in 1 .. 4 => l2[t] = lev[t] /\ t # f
    BY <1>1
  <1>2a. \A t \in Frames : (l2[t] \in 1 .. 3 => lev[t] \in 1 .. 3) /\ (l2[t] \in 2 .. 4 => lev[t] \in 2 .. 4)
    BY <1>1
  <1>3. \A t \in Frames, i \in Indices : lev[t] \in 1 .. 4 => m[t][i].frame # f
    BY Basics DEF Tree, Leveled
  <1>4. Typed(m, l2, live)
    <2>1. f \notin live /\ f \notin Identity /\ \A g \in Frames : lev[g] = 4 <=> g \in live
      BY DEF Tree, Typed
    <2>2. \A g \in Frames : l2[g] = 4 <=> g \in live
      BY <2>1, <1>1
    <2>3. \A g \in Identity : l2[g] = 0
      BY <2>1, <1>0, <1>1, Basics, Zenon
    <2> QED
      BY <2>2, <2>3, <1>0, <1>1, Zenon DEF Typed
  <1>5. Leveled(m, l2)
    <2> SUFFICES ASSUME NEW t \in Frames, NEW i \in Indices, l2[t] \in 1 .. 4, m[t][i].frame # None
                 PROVE  l2[m[t][i].frame] = l2[t] - 1
      BY Zenon DEF Leveled
    <2>1. lev[m[t][i].frame] = lev[t] - 1 /\ m[t][i].frame # f /\ m[t][i].frame \in Frames
      BY <1>0, <1>2, <1>3 DEF Tree, Leveled, Tables, Entries
    <2> QED
      BY <2>1, <1>1, <1>2, Zenon
  <1>6. OneParent(m, l2)
    BY <1>2 DEF Tree, OneParent
  <1>7. WritableAbove(m, l2)
    BY <1>2a, Zenon DEF Tree, WritableAbove
  <1>8. Tree(m, l2, live)
    BY <1>4, <1>5, <1>6, <1>7, Zenon DEF Tree
  <1> QED
    BY <1>0, <1>1, <1>2, <1>3, <1>8

\* From the memory state s to z by mapping page in root.
Maps(s, live, root, page, z) ==
  /\ z \in States
  /\ \E l0, l2 : MapStep(s.mem, l0, z.mem, l2, live, root, page, z.ok) /\ Used(z.bitmap, l2)

\* The identity maps of send_eoi and of the power module.
LEMMA MapIdentity ==
  ASSUME NEW s \in States, s.ok, NEW lev, NEW live, Tree(s.mem, lev, live), Used(s.bitmap, lev),
         NEW root \in live, NEW page \in {LapicPage, AcpiPage}, NEW g \in Identity, NEW w \in BOOLEAN
  PROVE  Maps(s, live, root, page, map_to(s, root, page, g, w))
  <1>1. page \in Pages /\ ~(page[1] >= HIGHER_HALF_ENTRY)
    <2>1. page \in Pages /\ page[1] < HIGHER_HALF_ENTRY
      BY IdentityAssumption, Zenon
    <2>2. page[1] \in Indices
      BY <2>1, PageFacts
    <2>3. page[1] \in Nat /\ HIGHER_HALF_ENTRY \in Nat
      BY <2>2, Basics, Zenon
    <2> QED
      BY <2>1, <2>3
  <1>2. Top(s.mem, lev, live, root, page[1])
    BY <1>1, Zenon DEF Top
  <1>3. g \in Frames /\ lev[g] = 0
    BY Basics, Zenon DEF Tree, Typed
  <1>4. PICK l2 : MapResult(s, lev, live, root, page, EntryTo(g, w), map_to(s, root, page, g, w), l2)
    BY <1>1, <1>2, <1>3, MapTo, Zenon
  <1> DEFINE z == map_to(s, root, page, g, w)
  <1>5. /\ z \in States /\ Tree(z.mem, l2, live) /\ Used(z.bitmap, l2)
        /\ MapsTo(s.mem, lev, z.mem, l2, root, page, z.ok)
        /\ z.ok => Mapped(z.mem, root, page)
    BY <1>4, Zenon DEF MapResult
  <1> HIDE DEF z
  <1>6. z.ok \in BOOLEAN
    BY <1>5, Zenon DEF States
  <1>7. MapStep(s.mem, lev, z.mem, l2, live, root, page, z.ok)
    BY <1>1, <1>5, <1>6, Zenon DEF MapStep
  <1>8. Maps(s, live, root, page, z)
    BY <1>5, <1>7, Zenon DEF Maps
  <1> QED
    BY <1>8, Zenon DEF z

\* A page of the heap: a free frame, mapped writable.
LEMMA MapHeap ==
  ASSUME NEW s \in States, s.ok, NEW lev, NEW live, Tree(s.mem, lev, live), Used(s.bitmap, lev),
         NEW root \in live, NEW page \in Pages, Top(s.mem, lev, live, root, page[1]),
         NEW z, z = MapHeapPage(s, root, page)
  PROVE  /\ Maps(s, live, root, page, z)
         /\ z.ok => /\ Mapped(z.mem, root, page)
                    /\ z.mem[T1(z.mem, root, page)][page[4]].frame \notin {None} \cup Identity
                    /\ z.mem[T1(z.mem, root, page)][page[4]].writable
  <1>1. CASE FreeIn(s) = {}
    <2>1. z = Failed(s)
      BY <1>1, Zenon DEF MapHeapPage
    <2>2. z \in States /\ z.mem = s.mem /\ z.bitmap = s.bitmap /\ z.ok = FALSE
      BY <2>1, Zenon DEF Failed, States
    <2>3. MapsTo(s.mem, lev, s.mem, lev, root, page, FALSE)
      BY Zenon DEF MapsTo
    <2>4. MapStep(s.mem, lev, z.mem, lev, live, root, page, z.ok)
      BY <2>2, <2>3, Zenon DEF MapStep
    <2> QED
      BY <2>2, <2>4, Zenon DEF Maps
  <1>2. CASE FreeIn(s) # {}
    <2> DEFINE f == FirstFree(s)
               s1 == [s EXCEPT !.bitmap[f] = 1]
    <2>1. z = map_to(s1, root, page, f, TRUE)
      BY <1>2, Zenon DEF MapHeapPage
    <2>2. f \in Frames /\ s.bitmap[f] = 0
      BY <1>2, FirstFreeFacts, Zenon
    <2> HIDE DEF f
    <2>3. /\ s1 \in States /\ s1.ok /\ s1.mem = s.mem
          /\ s1.bitmap \in [Frames -> {0, 1}] /\ s1.bitmap[f] = 1
          /\ \A g \in Frames : g # f => s1.bitmap[g] = s.bitmap[g]
      BY <2>2, Zenon DEF States
    <2> HIDE DEF s1
    <2>4. lev[f] = 5
      BY <2>2 DEF Used
    <2>5. PICK l0 : /\ Tree(s.mem, l0, live) /\ l0[f] = 0 /\ f \notin Identity
                    /\ \A g \in Frames : g # f => l0[g] = lev[g]
                    /\ \A t \in Frames, i \in Indices : l0[t] \in 1 .. 4 => s.mem[t][i].frame # f
      BY <2>2, <2>4, PageRole
    <2>6. Used(s1.bitmap, l0)
      BY <2>3, <2>5 DEF Used
    <2>7. Top(s1.mem, l0, live, root, page[1])
      <3>1. lev[root] = 4 /\ root \in Frames
        BY Zenon DEF Tree, Typed
      <3> QED
        BY <3>1, <2>3, <2>5, Zenon DEF Top
    <2>8. Tree(s1.mem, l0, live) /\ \A t \in Frames, i \in Indices : l0[t] \in 1 .. 4 => s1.mem[t][i].frame # f
      BY <2>3, <2>5
    <2>9. PICK l2 : MapResult(s1, l0, live, root, page, EntryTo(f, TRUE), z, l2)
      <3>1. PICK l2 : MapResult(s1, l0, live, root, page, EntryTo(f, TRUE), map_to(s1, root, page, f, TRUE), l2)
        BY <2>2, <2>3, <2>5, <2>6, <2>7, <2>8, MapTo, Zenon
      <3> QED
        BY <3>1, <2>1, Zenon
    <2>10. /\ z \in States /\ Tree(z.mem, l2, live) /\ Used(z.bitmap, l2)
           /\ MapsTo(s.mem, l0, z.mem, l2, root, page, z.ok)
           /\ z.ok => /\ Mapped(z.mem, root, page)
                      /\ z.mem[T1(z.mem, root, page)][page[4]] = EntryTo(f, TRUE)
      BY <2>9, <2>3, Zenon DEF MapResult
    <2>11. z.ok \in BOOLEAN
      BY <2>10, Zenon DEF States
    <2>12. MapStep(s.mem, l0, z.mem, l2, live, root, page, z.ok)
      BY <2>5, <2>10, <2>11, Zenon DEF MapStep
    <2>13. EntryTo(f, TRUE).frame \notin {None} \cup Identity /\ EntryTo(f, TRUE).writable
      BY <2>2, <2>5, Basics, Zenon DEF EntryTo
    <2> QED
      BY <2>10, <2>12, <2>13, Zenon DEF Maps
  <1> QED
    BY <1>1, <1>2, Zenon
=============================================================================
