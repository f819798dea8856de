----------------------------- MODULE HeapProofs -----------------------------
(* Theorems about Heap, for every page size, number of pages per extension,  *)
(* set of layouts and number of frames.                                      *)
EXTENDS Heap, SequenceTheorems, TLAPS

Node == [start : Nat, size : Nat]
Disjoint(a, b) == Units(a) \cap Units(b) = {}

\* Where the heap ends when the extension under way is over.
Top == IF pc = "merge" THEN heap_end + PAGE_SIZE + ExtendSize ELSE heap_end
FitsIn(block, top, pages) == End(block) <= top /\ \A u \in Units(block) : PageOf(u) \in pages
Fits(block) == FitsIn(block, Top, mapped)

\* Nodes and blocks are pairwise disjoint, mapped, and below the end of the heap.
Parted ==
  /\ \A i \in DOMAIN free : Fits(free[i])
  /\ \A i, j \in DOMAIN free : i # j => Disjoint(free[i], free[j])
  /\ \A b \in allocated :
       /\ Fits(b)
       /\ \A c \in allocated : b # c => Disjoint(b, c)
       /\ \A i \in DOMAIN free : Disjoint(b, free[i])

Inv ==
  /\ TypeOK /\ NeverPanics /\ BlocksAligned
  /\ request = NoRequest \/ request.size >= NodeSize
  /\ pc = "find" => request.size >= NodeSize
  /\ heap_end % PAGE_SIZE = 0
  /\ ~merged => Parted
-----------------------------------------------------------------------------
(* Arithmetic *)

\* align_up rounds up, to a multiple.
LEMMA AlignUp ==
  ASSUME NEW a \in Nat, NEW n \in Nat \ {0}
  PROVE  align_up(a, n) \in Nat /\ align_up(a, n) >= a /\ align_up(a, n) % n = 0
  <1> DEFINE q == (a + n - 1) \div n
  <1>1. q \in Nat /\ q * n \in Nat /\ q * n >= a
    BY SMT
  <1> HIDE DEF q
  <1>2. (q * n) % n = 0
    BY <1>1, SMT
  <1> QED
    BY <1>1, <1>2 DEF align_up, q

\* The constants of an extension.
LEMMA Sizes ==
  /\ PAGE_SIZE \in Nat \ {0} /\ PAGES_PER_EXTEND \in Nat \ {0}
  /\ ExtendSize = PAGE_SIZE * PAGES_PER_EXTEND /\ ExtendSize \in Nat \ {0}
  <1>1. PAGE_SIZE \in Nat \ {0} /\ PAGES_PER_EXTEND \in Nat \ {0}
    BY HeapAssumption DEF NodeSize
  <1>2. PAGE_SIZE * PAGES_PER_EXTEND \in Nat \ {0}
    BY <1>1, SMT
  <1> QED
    BY <1>1, <1>2 DEF ExtendSize

\* Pages are numbered in the order of addresses.
LEMMA PageMonotone ==
  ASSUME NEW a \in Nat, NEW b \in Nat, a <= b
  PROVE  PageOf(a) \in Nat /\ PageOf(b) \in Nat /\ PageOf(a) <= PageOf(b)
  BY Sizes, SMT DEF PageOf

\* The pages extend_heap maps are those of the node it makes, which begins a
\* page behind the end of the heap.
LEMMA NewPages ==
  ASSUME heap_end \in Nat, heap_end % PAGE_SIZE = 0
  PROVE  /\ start_page \in Nat /\ end_page \in Nat
         /\ start_page * PAGE_SIZE = heap_end + PAGE_SIZE
         /\ end_page * PAGE_SIZE + PAGE_SIZE = heap_end + PAGE_SIZE + ExtendSize
         /\ end_page - start_page + 1 = PAGES_PER_EXTEND
         /\ \A u \in heap_end + PAGE_SIZE .. heap_end + PAGE_SIZE + ExtendSize - 1 :
              PageOf(u) \in start_page .. end_page
  <1> DEFINE m == heap_end \div PAGE_SIZE
             P == PAGE_SIZE
             E == PAGES_PER_EXTEND
  <1>1. P \in Nat \ {0} /\ E \in Nat \ {0} /\ ExtendSize = P * E
    BY Sizes
  <1>2. m \in Nat /\ heap_end = m * P
    BY <1>1, SMT
  <1> HIDE DEF m, P, E
  <1>3. heap_end + P = (m + 1) * P /\ heap_end + P * E = (m + E) * P
    BY <1>1, <1>2, SMT
  <1>4. ((m + 1) * P) \div P = m + 1 /\ ((m + E) * P) \div P = m + E
    BY <1>1, <1>2, SMT
  <1>5. start_page = m + 1 /\ end_page = m + E
    BY <1>3, <1>4 DEF start_page, end_page, PageOf, P, E
  <1>6. end_page * P + P = heap_end + P + ExtendSize
    BY <1>1, <1>2, <1>5, SMT
  <1>7. ASSUME NEW u \in heap_end + P .. heap_end + P + ExtendSize - 1
        PROVE  u \div P \in m + 1 .. m + E
    <2>1. u \in Nat /\ (m + 1) * P <= u /\ u < (m + E + 1) * P
      BY <1>1, <1>2, <1>3, <1>5, <1>6, SMT
    <2> QED
      BY <1>1, <1>2, <2>1, SMT
  <1> QED
    BY <1>1, <1>2, <1>3, <1>5, <1>6, <1>7 DEF PageOf, P, E
\* The end of the heap is a number in every state.
LEMMA TopFacts ==
  ASSUME TypeOK
  PROVE  /\ heap_end \in Nat /\ Top \in Nat
         /\ pc # "merge" => Top = heap_end
         /\ pc = "merge" => Top = heap_end + PAGE_SIZE + ExtendSize
  <1>1. heap_end \in Nat
    BY DEF TypeOK
  <1>2. heap_end + PAGE_SIZE + ExtendSize \in Nat
    BY <1>1, Sizes
  <1> QED
    BY <1>1, <1>2 DEF Top
-----------------------------------------------------------------------------
(* The free list *)

\* add_free_node puts a node before the others.
LEMMA Prepended ==
  ASSUME NEW node \in Node, NEW list \in Seq(Node)
  PROVE  /\ add_free_node(node, list) \in Seq(Node)
         /\ DOMAIN add_free_node(node, list) = 1 .. Len(list) + 1
         /\ add_free_node(node, list)[1] = node
         /\ \A i \in 2 .. Len(list) + 1 :
              /\ i - 1 \in DOMAIN list
              /\ add_free_node(node, list)[i] = list[i - 1]
  <1>1. <<node>> \in Seq(Node) /\ Len(<<node>>) = 1 /\ <<node>>[1] = node
    OBVIOUS
  <1>2. Len(list) \in Nat /\ DOMAIN list = 1 .. Len(list)
    BY LenProperties
  <1> DEFINE c == <<node>> \o list
  <1>3. /\ c \in Seq(Node) /\ Len(c) = 1 + Len(list)
        /\ \A i \in 1 .. 1 + Len(list) :
             c[i] = IF i <= 1 THEN <<node>>[i] ELSE list[i - 1]
    BY <1>1, ConcatProperties
  <1>4. DOMAIN c = 1 .. Len(list) + 1
    BY <1>2, <1>3, LenProperties
  <1> HIDE DEF c
  <1>5. c[1] = node
    BY <1>1, <1>2, <1>3
  <1>6. ASSUME NEW i \in 2 .. Len(list) + 1
        PROVE  i - 1 \in DOMAIN list /\ c[i] = list[i - 1]
    BY <1>2, <1>3
  <1> QED
    BY <1>3, <1>4, <1>5, <1>6 DEF add_free_node, c

\* The assertions of add_free_node hold for a node of the size of a Node.
LEMMA OutcomeFacts ==
  ASSUME NEW node \in Node, node.size >= NodeSize
  PROVE  Outcome(node) \in {"no", "page fault"}
  <1>1. ~(node.size < NodeSize)
    BY DEF Node, NodeSize
  <1> QED
    BY <1>1, Zenon DEF Outcome

\* Without the node found, each node comes from another one of the list.
LEMMA WithoutFacts ==
  ASSUME free \in Seq(Node), NEW i \in DOMAIN free
  PROVE  /\ Without(i) \in Seq(Node)
         /\ \E from \in [DOMAIN Without(i) -> DOMAIN free \ {i}] :
              /\ \A j \in DOMAIN Without(i) : Without(i)[j] = free[from[j]]
              /\ \A j, l \in DOMAIN Without(i) : from[j] = from[l] => j = l
  <1> DEFINE n == Len(free)
             a == SubSeq(free, 1, i - 1)
             b == SubSeq(free, i + 1, n)
             from == [j \in 1 .. n - 1 |-> IF j < i THEN j ELSE j + 1]
  <1>1. n \in Nat /\ DOMAIN free = 1 .. n /\ i \in 1 .. n /\ \A j \in 1 .. n : free[j] \in Node
    BY LenProperties, ElementOfSeq
  <1>2. /\ a \in Seq(Node) /\ Len(a) = i - 1
        /\ \A j \in 1 .. i - 1 : a[j] = free[j]
    BY <1>1, SubSeqProperties
  <1>3. /\ b \in Seq(Node) /\ Len(b) = n - i
        /\ \A j \in 1 .. n - i : b[j] = free[i + j]
    BY <1>1, SubSeqProperties
  <1> HIDE DEF a, b, n
  <1>4. /\ a \o b \in Seq(Node) /\ Len(a \o b) = Len(a) + Len(b)
        /\ \A j \in 1 .. Len(a) + Len(b) :
             (a \o b)[j] = IF j <= Len(a) THEN a[j] ELSE b[j - Len(a)]
    BY <1>2, <1>3, ConcatProperties
  <1>5. Len(a) + Len(b) = n - 1
    BY <1>1, <1>2, <1>3
  <1>6. DOMAIN (a \o b) = 1 .. n - 1
    BY <1>4, <1>5, LenProperties
  <1>7. ASSUME NEW j \in 1 .. n - 1
        PROVE  (a \o b)[j] = free[from[j]] /\ from[j] \in 1 .. n /\ from[j] # i
    <2>1. CASE j < i
      BY <1>1, <1>2, <1>4, <1>5, <2>1
    <2>2. CASE ~(j < i)
      <3>1. /\ j - Len(a) \in 1 .. n - i /\ i + (j - Len(a)) = j + 1 /\ ~(j <= Len(a))
            /\ from[j] = j + 1 /\ j + 1 \in 1 .. n /\ j + 1 # i
        BY <1>1, <1>2, <2>2
      <3>2. b[j - Len(a)] = free[j + 1]
        BY <1>3, <3>1
      <3> QED
        BY <1>4, <1>5, <3>1, <3>2
    <2> QED
      BY <2>1, <2>2
  <1>8. \A j, l \in 1 .. n - 1 : from[j] = from[l] => j = l
    BY <1>1
  <1>9. Without(i) = a \o b
    BY DEF Without, a, b, n
  <1>10. from \in [DOMAIN Without(i) -> DOMAIN free \ {i}]
    <2>1. from \in [1 .. n - 1 -> DOMAIN free \ {i}]
      BY <1>1, <1>7
    <2> QED
      BY <1>6, <1>9, <2>1
  <1> HIDE DEF from
  <1>11. /\ \A j \in DOMAIN Without(i) : Without(i)[j] = free[from[j]]
         /\ \A j, l \in DOMAIN Without(i) : from[j] = from[l] => j = l
    BY <1>6, <1>7, <1>8, <1>9
  <1> QED
    BY <1>4, <1>9, <1>10, <1>11, Zenon

\* A node that can hold a request is cut into the block and the rest: both lie
\* in it, they do not overlap, and the rest is empty or a node (Node::can_hold).
LEMMA CutFacts ==
  ASSUME NEW node \in Node, request \in [size : Nat, align : Nat \ {0}],
         can_hold(node, request)
  PROVE  LET addr == Address(node)
             block == [start |-> addr, size |-> request.size, align |-> request.align]
             rest == [start |-> addr + request.size,
                      size |-> End(node) - (addr + request.size)]
         IN /\ block \in Block /\ block.start % block.align = 0
            /\ rest \in Node /\ (rest.size = 0 \/ rest.size >= NodeSize)
            /\ Units(block) \subseteq Units(node) /\ Units(rest) \subseteq Units(node)
            /\ Disjoint(block, rest)
            /\ End(block) <= End(node) /\ End(rest) = End(node)
  <1> DEFINE addr == Address(node)
             end == addr + request.size
  <1>1. /\ node.start \in Nat /\ node.size \in Nat
        /\ request.size \in Nat /\ request.align \in Nat \ {0}
    BY DEF Node
  <1>2. addr \in Nat /\ addr >= node.start /\ addr % request.align = 0
    BY <1>1, AlignUp DEF Address
  <1>3. /\ end <= node.start + node.size
        /\ node.start + node.size - end = 0 \/ node.start + node.size - end >= NodeSize
    BY <1>1, <1>2 DEF can_hold, Address, End
  <1> HIDE DEF addr
  <1>4. end \in Nat /\ node.start + node.size - end \in Nat
    BY <1>1, <1>2, <1>3
  <1> QED
    BY <1>1, <1>2, <1>3, <1>4 DEF Units, End, Disjoint, Node, Block, addr
-----------------------------------------------------------------------------
(* Steps *)

\* One node covers the heap (LinkedListAllocator::init).
LEMMA InitInv == Init => Inv
  <1> SUFFICES ASSUME Init PROVE Inv
    OBVIOUS
  <1> DEFINE node == [start |-> 0, size |-> INIT_HEAP_SIZE]
  <1>1. INIT_HEAP_SIZE \in Nat \ {0} /\ Frames \in Nat /\ INIT_HEAP_SIZE % ExtendSize = 0
    BY HeapAssumption
  <1>2. /\ free = <<node>> /\ node \in Node /\ free \in Seq(Node)
        /\ DOMAIN free = {1} /\ free[1] = node
    BY <1>1 DEF Init, Node, HeapStart
  <1>3. heap_end = INIT_HEAP_SIZE /\ mapped = PageOf(0) .. PageOf(INIT_HEAP_SIZE)
    BY <1>1 DEF Init, HeapStart
  <1>4. \A u \in 0 .. INIT_HEAP_SIZE : PageOf(u) \in mapped /\ PageOf(u) \in Nat
    BY <1>1, <1>3, PageMonotone
  <1>5. mapped \subseteq Nat
    BY <1>1, <1>3, PageMonotone
  <1>6. NoRequest \in [size : Nat, align : Nat \ {0}]
    BY DEF NoRequest
  <1>7. TypeOK
    <2>1. merged \in BOOLEAN
      BY Zenon DEF Init
    <2> QED
      BY <1>1, <1>2, <1>3, <1>5, <1>6, <2>1 DEF Init, TypeOK, Node
  <1>8. heap_end % PAGE_SIZE = 0
    <2>1. INIT_HEAP_SIZE = ExtendSize * (INIT_HEAP_SIZE \div ExtendSize)
          /\ INIT_HEAP_SIZE \div ExtendSize \in Nat
      BY <1>1, Sizes, SMT
    <2> DEFINE q == INIT_HEAP_SIZE \div ExtendSize
    <2>2. q \in Nat /\ INIT_HEAP_SIZE = (PAGES_PER_EXTEND * q) * PAGE_SIZE
      BY <2>1, Sizes, SMT
    <2> HIDE DEF q
    <2>3. PAGES_PER_EXTEND * q \in Nat
      BY <2>2, Sizes, SMT
    <2>4. \A m \in Nat : (m * PAGE_SIZE) % PAGE_SIZE = 0
      BY Sizes, SMT
    <2> QED
      BY <1>3, <2>2, <2>3, <2>4
  <1>9. Parted
    <2>1. Fits(free[1])
      <3>1. End(free[1]) = INIT_HEAP_SIZE /\ Units(free[1]) \subseteq 0 .. INIT_HEAP_SIZE
        BY <1>1, <1>2 DEF End, Units
      <3>2. Top = INIT_HEAP_SIZE
        BY <1>3 DEF Init, Top
      <3> QED
        BY <1>1, <1>4, <3>1, <3>2 DEF Fits, FitsIn
    <2> QED
      BY <1>2, <2>1 DEF Init, Parted
  <1> QED
    BY <1>7, <1>8, <1>9 DEF Init, Inv, NeverPanics, BlocksAligned

\* alloc_mut is entered: size_align makes the request at least a node.
LEMMA AllocInv ==
  ASSUME Inv, NEW l \in Layouts, alloc_mut(l)
  PROVE  Inv'
  <1>1. l.size \in Nat \ {0} /\ l.align \in Nat \ {0}
    BY HeapAssumption
  <1>2. request' = size_align(l) /\ align_up(l.size, l.align) \in Nat
    BY <1>1, AlignUp DEF alloc_mut
  <1>3. request' \in [size : Nat, align : Nat \ {0}] /\ request'.size >= NodeSize
    BY <1>1, <1>2 DEF size_align, NodeSize
  <1>4. TypeOK'
    BY <1>3 DEF alloc_mut, Inv, TypeOK
  <1>5. Parted => Parted'
    <2>1. Top' = Top
      BY DEF alloc_mut, Top
    <2> QED
      BY <2>1 DEF alloc_mut, Parted, Fits
  <1> QED
    BY <1>3, <1>4, <1>5 DEF alloc_mut, Inv, NeverPanics, BlocksAligned

\* find_free_node and alloc_mut cut a block from the first node that holds it.
LEMMA FindInv ==
  ASSUME Inv, FindFreeNode
  PROVE  Inv'
  <1>1. PICK i \in Holding :
          LET addr == Address(free[i])
              rest == [start |-> addr + request.size,
                       size |-> End(free[i]) - (addr + request.size)]
          IN /\ allocated' = allocated \cup
                  {[start |-> addr, size |-> request.size, align |-> request.align]}
             /\ free' = IF rest.size > 0 THEN add_free_node(rest, Without(i))
                        ELSE Without(i)
             /\ halted' = IF rest.size > 0 THEN Outcome(rest) ELSE "no"
    BY DEF FindFreeNode
  <1> DEFINE node == free[i]
             addr == Address(node)
             block == [start |-> addr, size |-> request.size, align |-> request.align]
             rest == [start |-> addr + request.size,
                      size |-> End(node) - (addr + request.size)]
             list == Without(i)
  <1>2. /\ free \in Seq(Node) /\ i \in DOMAIN free /\ node \in Node
        /\ request \in [size : Nat, align : Nat \ {0}] /\ can_hold(node, request)
    <2>1. free \in Seq(Node) /\ request \in [size : Nat, align : Nat \ {0}]
      BY DEF Inv, TypeOK, Node
    <2>2. i \in DOMAIN free /\ can_hold(node, request)
      BY DEF Holding
    <2> QED
      BY <2>1, <2>2, ElementOfSeq, LenProperties
  <1>3. /\ block \in Block /\ block.start % block.align = 0 /\ block.size >= NodeSize
        /\ rest \in Node /\ (rest.size = 0 \/ rest.size >= NodeSize)
        /\ Units(block) \subseteq Units(node) /\ Units(rest) \subseteq Units(node)
        /\ Disjoint(block, rest)
        /\ End(block) <= End(node) /\ End(rest) = End(node)
    <2>1. block.size >= NodeSize
      BY DEF Inv, FindFreeNode
    <2> QED
      BY <1>2, <2>1, CutFacts
  <1>4. allocated' = allocated \cup {block}
    BY <1>1
  <1>5. /\ free' = IF rest.size > 0 THEN add_free_node(rest, list) ELSE list
        /\ halted' = IF rest.size > 0 THEN Outcome(rest) ELSE "no"
    BY <1>1
  <1>6. PICK from \in [DOMAIN list -> DOMAIN free \ {i}] :
          /\ \A j \in DOMAIN list : list[j] = free[from[j]]
          /\ \A j, l \in DOMAIN list : from[j] = from[l] => j = l
    BY <1>2, WithoutFacts
  <1>7. list \in Seq(Node) /\ DOMAIN list = 1 .. Len(list) /\ Len(list) \in Nat
    BY <1>2, WithoutFacts, LenProperties
  <1> HIDE DEF node, addr, block, rest, list
  <1>8. free' \in Seq(Node)
    BY <1>3, <1>5, <1>7, Prepended
  <1>9. halted' \in {"no", "page fault"}
    <2>1. rest.size > 0 => rest.size >= NodeSize
      BY <1>3 DEF Node
    <2> QED
      BY <1>3, <1>5, <2>1, OutcomeFacts
  <1>10. /\ pc' = "idle" /\ request' = NoRequest /\ pc = "find"
         /\ heap_end' = heap_end /\ mapped' = mapped /\ frames' = frames /\ merged' = merged
    BY DEF FindFreeNode
  <1>11. TypeOK'
    <2>1. request' \in [size : Nat, align : Nat \ {0}]
      BY <1>10 DEF NoRequest
    <2>2. allocated' \subseteq Block
      BY <1>3, <1>4 DEF Inv, TypeOK
    <2> QED
      BY <1>8, <1>9, <1>10, <2>1, <2>2 DEF Inv, TypeOK, Node
  <1>12. BlocksAligned'
    BY <1>3, <1>4 DEF Inv, BlocksAligned
  <1>13. ASSUME Parted PROVE Parted'
    <2>1. \A p : Fits(p)' <=> Fits(p)
      BY <1>10 DEF Fits, Top
    <2>2. Fits(node)
      BY <1>2, <1>13 DEF Parted, node
    <2>3. Fits(block) /\ Fits(rest)
      <3>1. End(node) <= Top /\ \A u \in Units(node) : PageOf(u) \in mapped
        BY <2>2 DEF Fits, FitsIn
      <3>2. Top \in Int /\ End(node) \in Int /\ End(block) \in Int
        <4>1. Top \in Int
          BY TopFacts DEF Inv
        <4>2. End(node) \in Int
          BY <1>2 DEF End, Node
        <4>3. End(block) \in Int
          BY <1>3 DEF End, Block
        <4> QED
          BY <4>1, <4>2, <4>3
      <3>3. End(block) <= Top /\ End(rest) <= Top
        BY <1>3, <3>1, <3>2
      <3> QED
        BY <1>3, <3>1, <3>3 DEF Fits, FitsIn
    <2>4. \A j \in DOMAIN list : /\ Fits(list[j]) /\ Disjoint(list[j], node)
                                 /\ \A b \in allocated : Disjoint(b, list[j])
                                 /\ \A l \in DOMAIN list : j # l => Disjoint(list[j], list[l])
      BY <1>2, <1>6, <1>13 DEF Parted, node
    <2>5. \A p : Disjoint(p, node) => Disjoint(p, block) /\ Disjoint(p, rest)
      BY <1>3 DEF Disjoint
    <2>6. \A p, q : Disjoint(p, q) <=> Disjoint(q, p)
      BY DEF Disjoint
    <2>7. \A b \in allocated : Disjoint(b, node)
      BY <1>2, <1>13 DEF Parted, node
    <2>8. \A j \in DOMAIN free' : (rest.size > 0 /\ free'[j] = rest /\ j = 1)
             \/ (\E l \in DOMAIN list : free'[j] = list[l] /\ l = IF rest.size > 0 THEN j - 1 ELSE j)
      <3>1. CASE rest.size > 0
        <4>1. free' = add_free_node(rest, list)
          BY <1>5, <3>1
        <4>2. /\ DOMAIN free' = 1 .. Len(list) + 1 /\ free'[1] = rest
              /\ \A j \in 2 .. Len(list) + 1 :
                   j - 1 \in DOMAIN list /\ free'[j] = list[j - 1]
          <5>1. rest \in Node /\ list \in Seq(Node)
            BY <1>3, <1>7
          <5> QED
            BY <4>1, <5>1, Prepended
        <4>3. \A j \in 1 .. Len(list) + 1 : j = 1 \/ j \in 2 .. Len(list) + 1
          BY <1>7
        <4> QED
          BY <3>1, <4>2, <4>3
      <3>2. CASE ~(rest.size > 0)
        BY <1>5, <3>2
      <3> QED
        BY <3>1, <3>2
    <2>9. \A j \in DOMAIN free' : Fits(free'[j]) /\ Disjoint(free'[j], block)
                                  /\ \A b \in allocated : Disjoint(b, free'[j])
      BY <1>3, <2>3, <2>4, <2>5, <2>6, <2>7, <2>8
    <2>10. \A j, l \in DOMAIN free' : j # l => Disjoint(free'[j], free'[l])
      <3>1. \A j \in DOMAIN free' : j \in Nat
        BY <1>8, LenProperties
      <3> QED
        BY <2>4, <2>5, <2>6, <2>8, <3>1
    <2>11. \A b, c \in allocated' : b # c => Disjoint(b, c)
      BY <1>4, <1>13, <2>5, <2>6, <2>7 DEF Parted
    <2>12. \A b \in allocated' : Fits(b) /\ \A j \in DOMAIN free' : Disjoint(b, free'[j])
      BY <1>4, <1>13, <2>3, <2>6, <2>9 DEF Parted
    <2> QED
      BY <2>1, <2>9, <2>10, <2>11, <2>12 DEF Parted, Disjoint, Units, End
  <1> QED
    BY <1>9, <1>10, <1>11, <1>12, <1>13 DEF Inv, NeverPanics

\* The new node of extend_heap lies behind everything else, in the new pages.
LEMMA ExtendInv ==
  ASSUME Inv, ExtendHeap
  PROVE  Inv'
  <1> DEFINE node == [start |-> start_page * PAGE_SIZE, size |-> ExtendSize]
  <1>1. heap_end \in Nat /\ heap_end % PAGE_SIZE = 0 /\ free \in Seq(Node)
    BY DEF Inv, TypeOK, Node
  <1>2. /\ start_page \in Nat /\ end_page \in Nat
        /\ start_page * PAGE_SIZE = heap_end + PAGE_SIZE
        /\ end_page - start_page + 1 = PAGES_PER_EXTEND
        /\ \A u \in heap_end + PAGE_SIZE .. heap_end + PAGE_SIZE + ExtendSize - 1 :
             PageOf(u) \in start_page .. end_page
    BY <1>1, NewPages
  <1>3. /\ node = [start |-> heap_end + PAGE_SIZE, size |-> ExtendSize]
        /\ node \in Node
    <2>1. node = [start |-> heap_end + PAGE_SIZE, size |-> ExtendSize]
      BY <1>2
    <2>2. heap_end + PAGE_SIZE \in Nat /\ ExtendSize \in Nat
      BY <1>1, Sizes
    <2> QED
      BY <2>1, <2>2 DEF Node
  <1>4. /\ free' = add_free_node(node, free) /\ pc' = "merge" /\ pc # "merge"
        /\ mapped' = mapped \cup (start_page .. end_page)
        /\ frames' = frames - PAGES_PER_EXTEND /\ PAGES_PER_EXTEND <= frames
        /\ UNCHANGED <<allocated, heap_end, request, merged, halted>>
    BY <1>2 DEF ExtendHeap, Extending, EnoughFrames
  <1> HIDE DEF node
  <1>5. /\ free' \in Seq(Node) /\ DOMAIN free' = 1 .. Len(free) + 1 /\ free'[1] = node
        /\ \A i \in 2 .. Len(free) + 1 : i - 1 \in DOMAIN free /\ free'[i] = free[i - 1]
    <2>1. node \in Node /\ free \in Seq(Node) /\ free' = add_free_node(node, free)
      BY <1>1, <1>3, <1>4
    <2> QED
      BY <2>1, Prepended
  <1>6. TypeOK'
    <2>3. frames \in 0 .. Frames /\ mapped \subseteq Nat /\ Frames \in Nat
      BY HeapAssumption DEF Inv, TypeOK
    <2>1. frames' \in 0 .. Frames
      BY <1>4, <2>3, Sizes
    <2>2. mapped' \subseteq Nat
      BY <1>2, <1>4, <2>3
    <2> QED
      BY <1>4, <1>5, <2>1, <2>2 DEF Inv, TypeOK, Node
  <1>7. ASSUME Parted PROVE Parted'
    <2>1. Top = heap_end /\ Top' = heap_end + PAGE_SIZE + ExtendSize
      BY <1>4, TopFacts, Zenon DEF Top, Inv
    <2>2. /\ End(node) = Top'
          /\ Units(node) = heap_end + PAGE_SIZE .. heap_end + PAGE_SIZE + ExtendSize - 1
      BY <1>1, <1>3, <2>1, Sizes DEF End, Units
    <2>3. FitsIn(node, Top', mapped')
      <3>1. \A u \in Units(node) : PageOf(u) \in mapped'
        BY <1>2, <1>4, <2>2
      <3>2. Top' \in Int
        BY <1>1, <2>1, Sizes
      <3>3. End(node) <= Top'
        BY <2>2, <3>2
      <3> QED
        BY <3>1, <3>3 DEF Fits, FitsIn
    <2>4. ASSUME NEW p, End(p) \in Nat, p.start \in Nat, Fits(p)
          PROVE  FitsIn(p, Top', mapped') /\ Disjoint(p, node) /\ Disjoint(node, p)
      <3>1. End(p) <= heap_end /\ \A u \in Units(p) : PageOf(u) \in mapped'
        BY <1>4, <2>1, <2>4 DEF Fits, FitsIn
      <3>2. End(p) <= Top'
        BY <1>1, <2>1, <2>4, <3>1, Sizes
      <3>3. FitsIn(p, Top', mapped')
        BY <3>1, <3>2 DEF Fits, FitsIn
      <3>4. \A u \in Units(p) : u \in Int /\ u < heap_end
        BY <1>1, <2>4, <3>1 DEF Units
      <3>5. \A u \in Units(node) : ~(u < heap_end)
        BY <1>1, <2>2, Sizes
      <3> QED
        BY <3>3, <3>4, <3>5 DEF Disjoint
    <2>5. /\ \A i \in DOMAIN free : End(free[i]) \in Nat /\ free[i].start \in Nat
          /\ \A b \in allocated : End(b) \in Nat /\ b.start \in Nat
      <3>1. \A i \in DOMAIN free : free[i] \in Node
        BY <1>1, ElementOfSeq, LenProperties
      <3>2. \A b \in allocated : b \in Block
        BY DEF Inv, TypeOK
      <3> QED
        BY <3>1, <3>2 DEF End, Node, Block
    <2>6. \A i \in DOMAIN free' : i = 1 \/ (i - 1 \in DOMAIN free /\ free'[i] = free[i - 1])
      <3>1. Len(free) \in Nat
        BY <1>1, LenProperties
      <3>2. \A i \in 1 .. Len(free) + 1 : i = 1 \/ i \in 2 .. Len(free) + 1
        BY <3>1
      <3> QED
        BY <1>5, <3>2
    <2>7. \A i \in DOMAIN free : /\ FitsIn(free[i], Top', mapped')
                                 /\ Disjoint(free[i], node) /\ Disjoint(node, free[i])
      BY <1>7, <2>4, <2>5 DEF Parted
    <2>8. \A b \in allocated : FitsIn(b, Top', mapped') /\ Disjoint(b, node)
      BY <1>7, <2>4, <2>5 DEF Parted
    <2>9. \A i \in DOMAIN free' : FitsIn(free'[i], Top', mapped')
      BY <1>5, <2>3, <2>6, <2>7
    <2>10. \A i, j \in DOMAIN free' : i # j => Disjoint(free'[i], free'[j])
      <3>1. \A i \in DOMAIN free' : i \in Nat
        BY <1>5, LenProperties
      <3> QED
        BY <1>5, <1>7, <2>6, <2>7, <3>1 DEF Parted
    <2>11. \A b \in allocated : \A i \in DOMAIN free' : Disjoint(b, free'[i])
      BY <1>5, <1>7, <2>6, <2>8 DEF Parted
    <2> QED
      BY <1>4, <1>7, <2>8, <2>9, <2>10, <2>11 DEF Parted, Fits
  <1> QED
    BY <1>4, <1>6, <1>7 DEF Inv, NeverPanics, BlocksAligned

\* Without frames extend_heap maps what it can and gives up.
LEMMA ExtendFailsInv ==
  ASSUME Inv, ExtendFails
  PROVE  Inv'
  <1>1. heap_end \in Nat /\ heap_end % PAGE_SIZE = 0 /\ frames \in 0 .. Frames /\ Frames \in Nat
    BY HeapAssumption DEF Inv, TypeOK
  <1>2. start_page \in Nat
    BY <1>1, NewPages
  <1>3. /\ pc' = "idle" /\ pc # "merge" /\ frames' = 0 /\ request' = NoRequest
        /\ mapped' = mapped \cup (start_page .. start_page + frames - 1)
        /\ UNCHANGED <<free, allocated, heap_end, merged, halted>>
    BY DEF ExtendFails, Extending
  <1>4. mapped' \subseteq Nat
    <2>1. mapped \subseteq Nat
      BY DEF Inv, TypeOK
    <2> QED
      BY <1>1, <1>2, <1>3, <2>1
  <1>5. request' \in [size : Nat, align : Nat \ {0}]
    BY <1>3 DEF NoRequest
  <1>6. TypeOK'
    <2>1. frames' \in 0 .. Frames
      BY <1>1, <1>3
    <2> QED
      BY <1>3, <1>4, <1>5, <2>1 DEF Inv, TypeOK
  <1>7. ASSUME Parted PROVE Parted'
    <2>1. Top' = Top /\ mapped \subseteq mapped'
      BY <1>3 DEF Top
    <2>2. \A p : Fits(p) => FitsIn(p, Top', mapped')
      BY <2>1 DEF Fits, FitsIn
    <2> QED
      BY <1>3, <1>7, <2>2 DEF Parted, Fits
  <1> QED
    BY <1>3, <1>6, <1>7 DEF Inv, NeverPanics, BlocksAligned

\* Combining nodes: the list stays a list of nodes, no more is said of it.
LEMMA CombineInv ==
  ASSUME Inv, CombineNodes
  PROVE  Inv'
  <1>1. free \in Seq(Node) /\ Len(free) \in Nat /\ Len(free) >= 2 /\ DOMAIN free = 1 .. Len(free)
    BY LenProperties DEF Inv, TypeOK, Node, CombineNodes, MoreToCombine
  <1>2. \A i \in 1 .. Len(free) : free[i] \in Node
    BY <1>1, ElementOfSeq
  <1> DEFINE node == [free[1] EXCEPT !.size = @ + free[2].size]
  <1>3. node \in Node
    <2>1. free[1] \in Node /\ free[2] \in Node
      BY <1>1, <1>2
    <2> QED
      BY <2>1 DEF Node
  <1>4. SubSeq(free, 3, Len(free)) \in Seq(Node)
    BY <1>1, <1>2, SubSeqProperties
  <1>5. free' \in Seq(Node)
    <2>1. free' = add_free_node(node, SubSeq(free, 3, Len(free)))
      BY DEF CombineNodes, add_free_node
    <2> HIDE DEF node
    <2> QED
      BY <1>3, <1>4, <2>1, Prepended
  <1>6. merged' = TRUE /\ UNCHANGED <<allocated, heap_end, mapped, frames, pc, request, halted>>
    BY DEF CombineNodes
  <1>7. TypeOK'
    BY <1>5, <1>6 DEF Inv, TypeOK, Node
  <1> QED
    BY <1>6, <1>7 DEF Inv, NeverPanics, BlocksAligned

\* extend_heap returns: the heap ends behind the new node.
LEMMA FinishInv ==
  ASSUME Inv, FinishExtend
  PROVE  Inv'
  <1>1. heap_end \in Nat /\ heap_end % PAGE_SIZE = 0
    BY DEF Inv, TypeOK
  <1>2. /\ heap_end' = end_page * PAGE_SIZE + PAGE_SIZE /\ pc = "merge"
        /\ pc' = IF request = NoRequest THEN "idle" ELSE "find"
        /\ UNCHANGED <<free, allocated, mapped, frames, request, merged, halted>>
    BY DEF FinishExtend
  <1>3. end_page \in Nat /\ heap_end' = heap_end + PAGE_SIZE + ExtendSize
    BY <1>1, <1>2, NewPages
  <1>4. heap_end' \in Nat /\ heap_end' % PAGE_SIZE = 0
    <2>1. \A m \in Nat : (m * PAGE_SIZE + PAGE_SIZE) % PAGE_SIZE = 0
      BY Sizes, SMT
    <2> QED
      BY <1>1, <1>2, <1>3, <2>1, Sizes
  <1>5. TypeOK'
    BY <1>2, <1>4 DEF Inv, TypeOK
  <1>6. ASSUME Parted PROVE Parted'
    <2>1. Top' = Top
      BY <1>2, <1>3 DEF Top
    <2> QED
      BY <1>2, <1>6, <2>1 DEF Parted, Fits
  <1>7. pc' = "find" => request'.size >= NodeSize
    BY <1>2 DEF Inv
  <1> QED
    BY <1>2, <1>4, <1>5, <1>6, <1>7 DEF Inv, NeverPanics, BlocksAligned

\* dealloc_mut makes a node of a block.
LEMMA DeallocInv ==
  ASSUME Inv, NEW b \in allocated, dealloc_mut(b)
  PROVE  Inv'
  <1> DEFINE node == [start |-> b.start, size |-> b.size]
  <1>1. b \in Block /\ b.size >= NodeSize /\ free \in Seq(Node)
    BY DEF Inv, TypeOK, BlocksAligned, Node
  <1>2. /\ node \in Node /\ node.size >= NodeSize
        /\ Units(node) = Units(b) /\ End(node) = End(b)
    BY <1>1 DEF Node, Block, Units, End
  <1>3. /\ allocated' = allocated \ {b} /\ free' = add_free_node(node, free)
        /\ halted' = Outcome(node)
        /\ UNCHANGED <<heap_end, mapped, frames, pc, request, merged>>
    BY DEF dealloc_mut
  <1> HIDE DEF node
  <1>4. /\ free' \in Seq(Node) /\ DOMAIN free' = 1 .. Len(free) + 1 /\ free'[1] = node
        /\ \A i \in 2 .. Len(free) + 1 : i - 1 \in DOMAIN free /\ free'[i] = free[i - 1]
    <2>1. node \in Node /\ free \in Seq(Node) /\ free' = add_free_node(node, free)
      BY <1>1, <1>2, <1>3
    <2> QED
      BY <2>1, Prepended
  <1>5. halted' \in {"no", "page fault"}
    BY <1>2, <1>3, OutcomeFacts
  <1>6. TypeOK'
    BY <1>3, <1>4, <1>5 DEF Inv, TypeOK, Node
  <1>7. ASSUME Parted PROVE Parted'
    <2>1. Top' = Top
      BY <1>3 DEF Top
    <2>2. \A i \in DOMAIN free' : i = 1 \/ (i - 1 \in DOMAIN free /\ free'[i] = free[i - 1])
      <3>1. Len(free) \in Nat
        BY <1>1, LenProperties
      <3>2. \A i \in 1 .. Len(free) + 1 : i = 1 \/ i \in 2 .. Len(free) + 1
        BY <3>1
      <3> QED
        BY <1>4, <3>2
    <2>3. Fits(node) /\ \A p : (Disjoint(p, b) <=> Disjoint(p, node))
                             /\ (Disjoint(b, p) <=> Disjoint(node, p))
      BY <1>2, <1>7 DEF Parted, Fits, FitsIn, Disjoint
    <2>4. \A i \in DOMAIN free' : Fits(free'[i])
      BY <1>4, <1>7, <2>2, <2>3 DEF Parted
    <2>5. \A i \in DOMAIN free : Disjoint(node, free[i]) /\ Disjoint(free[i], node)
      BY <1>7, <2>3 DEF Parted, Disjoint
    <2>6. \A i, j \in DOMAIN free' : i # j => Disjoint(free'[i], free'[j])
      <3>1. \A i \in DOMAIN free' : i \in Nat
        BY <1>4, LenProperties
      <3> QED
        BY <1>4, <1>7, <2>2, <2>5, <3>1 DEF Parted
    <2>7. \A c \in allocated' : \A i \in DOMAIN free' : Disjoint(c, free'[i])
      BY <1>3, <1>4, <1>7, <2>2, <2>3 DEF Parted
    <2> QED
      BY <1>3, <1>7, <2>1, <2>4, <2>6, <2>7 DEF Parted, Fits
  <1> QED
    BY <1>3, <1>5, <1>6, <1>7 DEF Inv, NeverPanics, BlocksAligned

\* The invariant holds in every reachable state.
THEOREM Invariance == Spec => []Inv
  <1>1. Inv /\ UNCHANGED vars => Inv'
    <2> SUFFICES ASSUME Inv, UNCHANGED vars PROVE Inv'
      OBVIOUS
    <2>1. TypeOK' /\ NeverPanics' /\ BlocksAligned'
      BY DEF vars, Inv, TypeOK, NeverPanics, BlocksAligned
    <2>2. Parted => Parted'
      BY DEF vars, Parted, Fits, Top
    <2> QED
      BY <2>1, <2>2 DEF vars, Inv
  <1>2. Inv /\ [Next]_vars => Inv'
    BY <1>1, AllocInv, FindInv, ExtendInv, ExtendFailsInv, CombineInv, FinishInv, DeallocInv
    DEF Next
  <1> QED
    BY <1>2, InitInv, PTL DEF Spec
-----------------------------------------------------------------------------
\* Until extend_heap combines nodes, blocks and free nodes never overlap and are
\* in mapped memory.
THEOREM HeapSound == Spec => []Sound
  <1>1. Inv => Sound
    BY DEF Inv, Parted, Sound, NodesDisjoint, NodesMapped, Disjoint, Fits, FitsIn
  <1> QED
    BY <1>1, Invariance, PTL

\* No assertion of add_free_node fires, before and after nodes were combined.
THEOREM NoAssertion == Spec => []NeverPanics
  BY Invariance, PTL DEF Inv

\* alloc_mut returns aligned blocks that can become nodes again.
THEOREM Aligned == Spec => []BlocksAligned
  BY Invariance, PTL DEF Inv
=============================================================================
