----------------------------- MODULE PageProofs -----------------------------
(***************************************************************************)
(* Every usable frame has one use, the pages of the heap keep what was     *)
(* written to them, and the allocator stops only for want of memory, for   *)
(* every depth and size of the tables, every memory and every order of     *)
(* allocations, faults and frees.                                          *)
(***************************************************************************)
EXTENDS PageAlloc, FiniteSetTheorems, WellFoundedInduction, TLAPS

\* Division with remainder.
LEMMA Quotient ==
    ASSUME NEW d \in Nat \ {0}, NEW x \in Nat
    PROVE  \E k \in Nat, r \in 0 .. d - 1 :
              x = k * d + r /\ x % d = r /\ x \div d = k
<1>1. x % d \in 0 .. d - 1
  OBVIOUS
<1>2. x \div d \in Nat
  OBVIOUS
<1>3. ASSUME NEW k \in Nat, NEW r \in Nat, k = x \div d, r = x % d
      PROVE  x = k * d + r
  BY <1>3
<1> QED
  BY <1>1, <1>2, <1>3

\* The quotient and the remainder of a multiple and a rest.
LEMMA Multiple ==
    ASSUME NEW d \in Nat \ {0}, NEW k \in Nat, NEW r \in 0 .. d - 1
    PROVE  (k * d + r) % d = r /\ (k * d + r) \div d = k
  OBVIOUS

\* A set of numbers has a least one.
LEMMA LeastNat ==
    ASSUME NEW S \in SUBSET Nat, S # {}
    PROVE  \E m \in S : \A n \in S : m <= n
<1> DEFINE R == OpToRel(<, Nat)
<1>1. IsWellFoundedOn(R, Nat)
  BY NatLessThanWellFounded, Zenon
<1>2. \A x, y \in Nat : <<x, y>> \in R <=> x < y
  BY DEF OpToRel
<1> HIDE DEF R
<1>3. PICK m \in S : \A n \in S : ~(<<n, m>> \in R)
  BY <1>1, WFMin
<1>4. \A n \in S : n \in Nat /\ ~(n < m)
  BY <1>2, <1>3
<1> QED
  BY <1>4

-----------------------------------------------------------------------------
(* Recursion.                                                              *)

\* Induction over the numbers from lo to hi, for a set P of them.
LEMMA Ascend ==
    ASSUME NEW lo \in Int, NEW hi \in Int, NEW P, lo <= hi => lo \in P,
           \A n \in lo + 1 .. hi : n - 1 \in P => n \in P
    PROVE  lo .. hi \subseteq P
<1> DEFINE Bad == {k \in Nat : lo + k <= hi /\ lo + k \notin P}
<1> SUFFICES ASSUME NEW n \in lo .. hi, n \notin P PROVE FALSE
  OBVIOUS
<1>1. n - lo \in Bad
  <2>1. n - lo \in Nat /\ lo + (n - lo) = n
    OBVIOUS
  <2> QED
    BY <2>1
<1>2. PICK k \in Bad : \A l \in Bad : k <= l
  <2>1. Bad \in SUBSET Nat /\ Bad # {}
    BY <1>1
  <2> HIDE DEF Bad
  <2> QED
    BY <2>1, LeastNat
<1>3. k # 0
  BY <1>2
<1>4. k - 1 \in Nat /\ ~(k - 1 \in Bad)
  BY <1>2, <1>3
<1>5. lo + (k - 1) \in P
  BY <1>2, <1>4
<1>6. lo + k \in lo + 1 .. hi /\ (lo + k) - 1 = lo + (k - 1)
  BY <1>2, <1>3
<1> QED
  BY <1>2, <1>5, <1>6

\* The rounds of the model's loops: of a walk down the tables, over pages,
\* of a free, along the free list and down the tables in use.
Round(kind, p, n, y) ==
    CASE kind = "descend" ->
            Descend(y, Index(p.v, LEVELS - n), p.allocate)
      [] kind = "pages" ->
            Callback(p.name, page_table_get_entry(y, p.root, n - 1, TRUE),
                     n - 1)
      [] kind = "free" -> IF y.halted THEN y ELSE FreePage(y, n - 1)
      [] kind = "nodes" -> IF y = NoFrame THEN NoFrame
                           ELSE phys.mem[y][0].addr
      [] kind = "tables" ->
            {<<phys.mem[ts[1][1]][ts[2]].addr, ts[1][2] * FANOUT + ts[2]>> :
                ts \in {u \in y \X Slot : phys.mem[u[1][1]][u[2]].present}}
      [] kind = "span" -> FANOUT * y

\* f[n] is what the rounds lo + 1 .. n make of a.
Rounds(kind, p, lo, hi, a, f) ==
    f = [n \in lo .. hi |-> IF n = lo THEN a ELSE Round(kind, p, n, f[n - 1])]

\* The function that a recursive definition of rounds means exists.
LEMMA RoundsExist ==
    ASSUME NEW kind, NEW p, NEW lo \in Int, NEW hi \in Int, NEW a, lo <= hi
    PROVE  \E f : Rounds(kind, p, lo, hi, a, f)
<1> DEFINE P == {m \in lo .. hi : \E f : Rounds(kind, p, lo, m, a, f)}
<1>1. lo \in P
  <2>1. Rounds(kind, p, lo, lo, a, [n \in lo .. lo |-> a])
    BY DEF Rounds
  <2> QED
    BY <2>1
<1>2. ASSUME NEW m \in lo + 1 .. hi, m - 1 \in P PROVE m \in P
  <2>1. PICK f : Rounds(kind, p, lo, m - 1, a, f)
    BY <1>2
  <2> DEFINE e == [n \in lo .. m |-> IF n = m THEN Round(kind, p, m, f[m - 1])
                                     ELSE f[n]]
  <2>2. ASSUME NEW n \in lo .. m
        PROVE  e[n] = IF n = lo THEN a ELSE Round(kind, p, n, e[n - 1])
    <3>1. CASE n = m
      <4>1. n # lo /\ m - 1 \in lo .. m /\ m - 1 # m
        BY <1>2, <3>1
      <4>2. e[n] = Round(kind, p, m, f[m - 1]) /\ e[m - 1] = f[m - 1]
        BY <3>1, <4>1
      <4> QED
        BY <3>1, <4>1, <4>2
    <3>2. CASE n # m
      <4>1. n \in lo .. m - 1 /\ (n # lo => n - 1 \in lo .. m /\ n - 1 # m)
        BY <1>2, <3>2
      <4>2. f[n] = IF n = lo THEN a ELSE Round(kind, p, n, f[n - 1])
        BY <2>1, <4>1 DEF Rounds
      <4>3. e[n] = f[n] /\ (n # lo => e[n - 1] = f[n - 1])
        BY <3>2, <4>1
      <4> QED
        BY <4>2, <4>3
    <3> QED
      BY <3>1, <3>2
  <2>3. e = [n \in lo .. m |-> e[n]]
    OBVIOUS
  <2> HIDE DEF e
  <2>4. Rounds(kind, p, lo, m, a, e)
    BY <2>2, <2>3 DEF Rounds
  <2> QED
    BY <1>2, <2>4
<1> HIDE DEF P
<1>3. lo .. hi \subseteq P
  BY <1>1, <1>2, Ascend
<1> QED
  BY <1>3 DEF P

\* The constants in the terms the proofs use.
LEMMA Sizes ==
    /\ FANOUT \in Nat \ {0, 1} /\ LEVELS \in Nat \ {0, 1}
    /\ MaxHeap \in Nat
  BY PageAllocAssumption

\* An entry of a level stands for FANOUT times as many pages as one below.
LEMMA SpanEquation ==
    /\ Span[0] = 1
    /\ \A l \in 1 .. LEVELS : Span[l] = FANOUT * Span[l - 1]
<1> DEFINE f[l \in 0 .. LEVELS] == IF l = 0 THEN 1 ELSE FANOUT * f[l - 1]
<1>1. PICK g : Rounds("span", 0, 0, LEVELS, 1, g)
  BY RoundsExist, Sizes
<1>2. g = [l \in 0 .. LEVELS |-> IF l = 0 THEN 1 ELSE FANOUT * g[l - 1]]
  BY <1>1 DEF Rounds, Round
<1>3. f = [l \in 0 .. LEVELS |-> IF l = 0 THEN 1 ELSE FANOUT * f[l - 1]]
  BY <1>2
<1>4. f = Span
  BY DEF Span
<1> HIDE DEF f
<1>5. \A l \in 0 .. LEVELS : f[l] = IF l = 0 THEN 1 ELSE FANOUT * f[l - 1]
  BY <1>3
<1> QED
  BY <1>4, <1>5, Sizes

\* An entry of any level stands for some pages.
LEMMA SpanType ==
    \A l \in 0 .. LEVELS : Span[l] \in Nat \ {0}
<1> DEFINE P == {l \in 0 .. LEVELS : Span[l] \in Nat \ {0}}
<1>1. 0 \in P
  BY SpanEquation, Sizes
<1>2. ASSUME NEW l \in 0 + 1 .. LEVELS, l - 1 \in P PROVE l \in P
  <2>1. PICK n \in Nat \ {0} : n = Span[l - 1]
    BY <1>2
  <2>2. PICK d \in Nat \ {0} : d = FANOUT
    BY Sizes
  <2>3. d * n \in Nat \ {0}
    OBVIOUS
  <2>4. Span[l] = d * n
    BY <2>1, <2>2, SpanEquation
  <2> QED
    BY <2>3, <2>4
<1> HIDE DEF P
<1>3. 0 .. LEVELS \subseteq P
  BY <1>1, <1>2, Ascend, Sizes
<1> QED
  BY <1>3 DEF P

\* The walk down the tables, from the top level to the lowest.
WalkedDown(x, root, v, allocate, f) ==
    /\ f[LEVELS - 1] = [m |-> x, table |-> root, found |-> TRUE]
    /\ \A l \in 0 .. LEVELS - 2 :
          f[l] = Descend(f[l + 1], Index(v, l + 1), allocate)
    /\ page_table_get_entry(x, root, v, allocate) = f[0]

\* page_table_get_entry: its LET-bound function has the values it defines.
LEMMA WalkDown ==
    ASSUME NEW x, NEW root, NEW v, NEW allocate
    PROVE  \E f : WalkedDown(x, root, v, allocate, f)
<1> DEFINE top == [m |-> x, table |-> root, found |-> TRUE]
           walk[l \in 0 .. LEVELS - 1] ==
              IF l = LEVELS - 1
              THEN [m |-> x, table |-> root, found |-> TRUE]
              ELSE Descend(walk[l + 1], Index(v, l + 1), allocate)
           p == [v |-> v, allocate |-> allocate]
<1>1. PICK g : Rounds("descend", p, 0, LEVELS - 1, top, g)
  <2>1. 0 \in Int /\ LEVELS - 1 \in Int /\ 0 <= LEVELS - 1
    BY Sizes
  <2> HIDE DEF p, top
  <2> QED
    BY <2>1, RoundsExist
<1>2. \A n \in 0 .. LEVELS - 1 :
         g[n] = IF n = 0 THEN top
                ELSE Descend(g[n - 1], Index(v, LEVELS - n), allocate)
  BY <1>1 DEF Rounds, Round
<1> HIDE DEF top
<1> DEFINE h == [l \in 0 .. LEVELS - 1 |-> g[LEVELS - 1 - l]]
<1>3. ASSUME NEW l \in 0 .. LEVELS - 1
      PROVE  h[l] = IF l = LEVELS - 1 THEN top
                    ELSE Descend(h[l + 1], Index(v, l + 1), allocate)
  <2>1. PICK n \in 0 .. LEVELS - 1 : n = LEVELS - 1 - l
    BY Sizes
  <2>2. h[l] = g[n] /\ (n = 0 <=> l = LEVELS - 1) /\ LEVELS - n = l + 1
    BY <2>1, Sizes
  <2>3. n # 0 => l + 1 \in 0 .. LEVELS - 1 /\ LEVELS - 1 - (l + 1) = n - 1
    BY <2>1, Sizes
  <2>4. n # 0 => h[l + 1] = g[n - 1]
    BY <2>3
  <2> HIDE DEF h
  <2> QED
    BY <1>2, <2>1, <2>2, <2>4
<1>4. h = [l \in 0 .. LEVELS - 1 |->
              IF l = LEVELS - 1 THEN top
              ELSE Descend(h[l + 1], Index(v, l + 1), allocate)]
  <2>1. h = [l \in 0 .. LEVELS - 1 |-> h[l]]
    OBVIOUS
  <2> HIDE DEF h
  <2> QED
    BY <1>3, <2>1
<1> HIDE DEF h
<1>5. walk = [l \in 0 .. LEVELS - 1 |->
              IF l = LEVELS - 1 THEN top
              ELSE Descend(walk[l + 1], Index(v, l + 1), allocate)]
  BY <1>4 DEF top
<1>6. page_table_get_entry(x, root, v, allocate) = walk[0]
  BY DEF page_table_get_entry
<1> HIDE DEF walk
<1>7. /\ walk[LEVELS - 1] = top
      /\ \A l \in 0 .. LEVELS - 2 :
            walk[l] = Descend(walk[l + 1], Index(v, l + 1), allocate)
  <2>1. \A l \in 0 .. LEVELS - 1 :
           walk[l] = IF l = LEVELS - 1 THEN top
                     ELSE Descend(walk[l + 1], Index(v, l + 1), allocate)
    BY <1>5
  <2>2. /\ LEVELS - 1 \in 0 .. LEVELS - 1
        /\ \A l \in 0 .. LEVELS - 2 : l \in 0 .. LEVELS - 1 /\ l # LEVELS - 1
    BY Sizes
  <2> QED
    BY <2>1, <2>2
<1> QED
  BY <1>6, <1>7 DEF top, WalkedDown

\* The walk over the pages from start to end.
WalkedOver(x, root, start, end, name, f) ==
    /\ f[start] = x
    /\ \A v \in start .. end - 1 :
          f[v + 1] = Callback(name,
              page_table_get_entry(f[v], root, v, TRUE), v)
    /\ page_table_walk(x, root, start, end, name) = f[end]

\* page_table_walk, the same.
LEMMA WalkPages ==
    ASSUME NEW x, NEW root, NEW start \in Int, NEW end \in Int, NEW name,
           start <= end
    PROVE  \E f : WalkedOver(x, root, start, end, name, f)
<1> DEFINE walk[v \in start .. end] ==
              IF v = start THEN x
              ELSE Callback(name, page_table_get_entry(walk[v - 1], root,
                                                       v - 1, TRUE), v - 1)
           p == [root |-> root, name |-> name]
<1>1. PICK g : Rounds("pages", p, start, end, x, g)
  BY RoundsExist
<1>2. g = [v \in start .. end |->
              IF v = start THEN x
              ELSE Callback(name, page_table_get_entry(g[v - 1], root,
                                                       v - 1, TRUE), v - 1)]
  BY <1>1 DEF Rounds, Round
<1>3. walk = [v \in start .. end |->
              IF v = start THEN x
              ELSE Callback(name, page_table_get_entry(walk[v - 1], root,
                                                       v - 1, TRUE), v - 1)]
  BY <1>2
<1>4. page_table_walk(x, root, start, end, name) = walk[end]
  BY DEF page_table_walk
<1> HIDE DEF walk
<1>5. \A v \in start .. end :
         walk[v] = IF v = start THEN x
                   ELSE Callback(name, page_table_get_entry(walk[v - 1], root,
                                                       v - 1, TRUE), v - 1)
  BY <1>3
<1>6. ASSUME NEW v \in start .. end - 1
      PROVE  walk[v + 1] = Callback(name,
                    page_table_get_entry(walk[v], root, v, TRUE), v)
  <2>1. v + 1 \in start .. end /\ v + 1 # start /\ (v + 1) - 1 = v
    OBVIOUS
  <2> QED
    BY <1>5, <2>1
<1>7. walk[start] = x
  <2>1. start \in start .. end
    OBVIOUS
  <2> QED
    BY <1>5, <2>1
<1> QED
  BY <1>4, <1>6, <1>7 DEF WalkedOver

\* The loop of MMU_free_pages.
FreedOver(a, f) ==
    /\ f[a.base] = phys
    /\ \A v \in a.base .. (a.base + a.num) - 1 :
          f[v + 1] = IF f[v].halted THEN f[v] ELSE FreePage(f[v], v)
    /\ phys' = f[a.base + a.num]

\* MMU_free_pages, the same.
LEMMA FreeLoop ==
    ASSUME NEW a, a.base \in Nat, a.num \in Nat, MMU_free_pages(a)
    PROVE  \E f : FreedOver(a, f)
<1> DEFINE loop[v \in a.base .. a.base + a.num] ==
              IF v = a.base THEN phys
              ELSE IF loop[v - 1].halted THEN loop[v - 1]
              ELSE FreePage(loop[v - 1], v - 1)
<1> HIDE DEF loop
<1>1. PICK g : Rounds("free", 0, a.base, a.base + a.num, phys, g)
  <2>1. /\ a.base \in Int /\ a.base + a.num \in Int
        /\ a.base <= a.base + a.num
    OBVIOUS
  <2> QED
    BY <2>1, RoundsExist
<1>2. g = [v \in a.base .. a.base + a.num |->
              IF v = a.base THEN phys
              ELSE IF g[v - 1].halted THEN g[v - 1]
              ELSE FreePage(g[v - 1], v - 1)]
  BY <1>1 DEF Rounds, Round
<1>3. loop = [v \in a.base .. a.base + a.num |->
              IF v = a.base THEN phys
              ELSE IF loop[v - 1].halted THEN loop[v - 1]
              ELSE FreePage(loop[v - 1], v - 1)]
  BY <1>2, Zenon DEF loop
<1>4. phys' = loop[a.base + a.num]
  BY DEF MMU_free_pages, loop
<1>5. \A v \in a.base .. a.base + a.num :
         loop[v] = IF v = a.base THEN phys
                   ELSE IF loop[v - 1].halted THEN loop[v - 1]
                   ELSE FreePage(loop[v - 1], v - 1)
  BY <1>3
<1>6. ASSUME NEW v \in a.base .. (a.base + a.num) - 1
      PROVE  loop[v + 1] = IF loop[v].halted THEN loop[v]
                           ELSE FreePage(loop[v], v)
  <2>1. /\ v + 1 \in a.base .. a.base + a.num /\ v + 1 # a.base
        /\ (v + 1) - 1 = v
    OBVIOUS
  <2> QED
    BY <1>5, <2>1
<1>7. loop[a.base] = phys
  <2>1. a.base \in a.base .. a.base + a.num
    OBVIOUS
  <2> QED
    BY <1>5, <2>1
<1>8. FreedOver(a, loop)
  BY <1>4, <1>6, <1>7 DEF FreedOver
<1> QED
  BY <1>8

\* The nodes that the free list leads to.
LEMMA NodesWalk ==
    ASSUME MemEnd \in Nat
    PROVE  \E g : /\ g[0] = phys.free_list
                  /\ \A n \in 1 .. MemEnd :
                        g[n] = IF g[n - 1] = NoFrame THEN NoFrame
                               ELSE phys.mem[g[n - 1]][0].addr
                  /\ FreeNodes = {<<g[n], n>> : n \in 0 .. MemEnd}
<1> DEFINE node[n \in 0 .. MemEnd] ==
              IF n = 0 THEN phys.free_list
              ELSE LET last == node[n - 1]
                   IN  IF last = NoFrame THEN NoFrame
                       ELSE phys.mem[last][0].addr
<1> HIDE DEF node
<1>1. PICK g : Rounds("nodes", 0, 0, MemEnd, phys.free_list, g)
  BY RoundsExist
<1>2. g = [n \in 0 .. MemEnd |->
              IF n = 0 THEN phys.free_list
              ELSE LET last == g[n - 1]
                   IN  IF last = NoFrame THEN NoFrame
                       ELSE phys.mem[last][0].addr]
  BY <1>1, Zenon DEF Rounds, Round
<1>3. node = [n \in 0 .. MemEnd |->
              IF n = 0 THEN phys.free_list
              ELSE LET last == node[n - 1]
                   IN  IF last = NoFrame THEN NoFrame
                       ELSE phys.mem[last][0].addr]
  BY <1>2, ZenonT(40) DEF node
<1>4. FreeNodes = {<<node[n], n>> : n \in 0 .. MemEnd}
  BY Zenon DEF FreeNodes, node
<1>5. \A n \in 0 .. MemEnd :
         node[n] = IF n = 0 THEN phys.free_list
                   ELSE IF node[n - 1] = NoFrame THEN NoFrame
                   ELSE phys.mem[node[n - 1]][0].addr
  BY <1>3
<1>6. node[0] = phys.free_list
  BY <1>5
<1>7. ASSUME NEW n \in 1 .. MemEnd
      PROVE  node[n] = IF node[n - 1] = NoFrame THEN NoFrame
                       ELSE phys.mem[node[n - 1]][0].addr
  BY <1>5
<1> QED
  BY <1>4, <1>6, <1>7

\* The entries below a set of tables of a level.
Below(ts) ==
    {<<phys.mem[u[1][1]][u[2]].addr, u[1][2] * FANOUT + u[2]>> :
        u \in {t \in ts \X Slot : phys.mem[t[1][1]][t[2]].present}}

\* The tables in use, the same: level by level from CR3.
LEMMA TablesWalk ==
    \E f : /\ f[LEVELS - 1] = {<<pml4, 0>>}
           /\ \A l \in 0 .. LEVELS - 2 : f[l] = Below(f[l + 1])
           /\ Tables = UNION {{<<t[1], l, t[2]>> : t \in f[l]} :
                                 l \in 0 .. LEVELS - 1}
<1> DEFINE level[l \in 0 .. LEVELS - 1] ==
              IF l = LEVELS - 1 THEN {<<pml4, 0>>}
              ELSE {<<phys.mem[ts[1][1]][ts[2]].addr,
                      ts[1][2] * FANOUT + ts[2]>> :
                       ts \in {u \in level[l + 1] \X Slot :
                                  phys.mem[u[1][1]][u[2]].present}}
<1> HIDE DEF level
<1>1. PICK g : Rounds("tables", 0, 0, LEVELS - 1, {<<pml4, 0>>}, g)
  <2>1. 0 \in Int /\ LEVELS - 1 \in Int /\ 0 <= LEVELS - 1
    BY Sizes
  <2> QED
    BY <2>1, RoundsExist
<1>2. \A n \in 0 .. LEVELS - 1 :
         g[n] = IF n = 0 THEN {<<pml4, 0>>} ELSE Below(g[n - 1])
  BY <1>1, Zenon DEF Rounds, Round, Below
<1> DEFINE h == [l \in 0 .. LEVELS - 1 |-> g[LEVELS - 1 - l]]
<1>3. ASSUME NEW l \in 0 .. LEVELS - 1
      PROVE  h[l] = IF l = LEVELS - 1 THEN {<<pml4, 0>>} ELSE Below(h[l + 1])
  <2>1. PICK n \in 0 .. LEVELS - 1 : n = LEVELS - 1 - l
    BY Sizes
  <2>2. h[l] = g[n] /\ (n = 0 <=> l = LEVELS - 1)
    BY <2>1, Sizes
  <2>3. n # 0 => l + 1 \in 0 .. LEVELS - 1 /\ LEVELS - 1 - (l + 1) = n - 1
    BY <2>1, Sizes
  <2>4. n # 0 => h[l + 1] = g[n - 1]
    BY <2>3
  <2> HIDE DEF h
  <2> QED
    BY <1>2, <2>1, <2>2, <2>4
<1>4. h = [l \in 0 .. LEVELS - 1 |->
              IF l = LEVELS - 1 THEN {<<pml4, 0>>} ELSE Below(h[l + 1])]
  <2>1. h = [l \in 0 .. LEVELS - 1 |-> h[l]]
    OBVIOUS
  <2> HIDE DEF h
  <2> QED
    BY <1>3, <2>1
<1> HIDE DEF h
<1>5. level = [l \in 0 .. LEVELS - 1 |->
              IF l = LEVELS - 1 THEN {<<pml4, 0>>} ELSE Below(level[l + 1])]
  BY <1>4, Zenon DEF Below, level
<1>6. Tables = UNION {{<<t[1], l, t[2]>> : t \in level[l]} :
                         l \in 0 .. LEVELS - 1}
  BY DEF Tables, level
<1>7. /\ level[LEVELS - 1] = {<<pml4, 0>>}
      /\ \A l \in 0 .. LEVELS - 2 : level[l] = Below(level[l + 1])
  <2>1. \A l \in 0 .. LEVELS - 1 :
           level[l] = IF l = LEVELS - 1 THEN {<<pml4, 0>>}
                      ELSE Below(level[l + 1])
    BY <1>5
  <2>2. /\ LEVELS - 1 \in 0 .. LEVELS - 1
        /\ \A l \in 0 .. LEVELS - 2 : l \in 0 .. LEVELS - 1 /\ l # LEVELS - 1
    BY Sizes
  <2> QED
    BY <2>1, <2>2
<1> QED
  BY <1>6, <1>7

-----------------------------------------------------------------------------
(* Places.  Page v is behind entry v \div Span[l] of level l, counted over  *)
(* all tables of the level, which is entry Index(v, l) of its table.        *)

\* A place is the place of the table above and the index in that table.
LEMMA Digits ==
    ASSUME NEW q \in Nat
    PROVE  /\ q \div FANOUT \in Nat /\ q % FANOUT \in Slot
           /\ q = (q \div FANOUT) * FANOUT + (q % FANOUT)
<1>1. PICK d \in Nat \ {0} : d = FANOUT
  BY Sizes
<1>2. PICK k \in Nat, r \in 0 .. d - 1 :
         q = k * d + r /\ q % d = r /\ q \div d = k
  BY Quotient
<1> QED
  BY <1>1, <1>2 DEF Slot

\* Two places with the same table above and the same index are one.
LEMMA SamePlace ==
    ASSUME NEW q \in Nat, NEW o \in Nat, q \div FANOUT = o \div FANOUT,
           q % FANOUT = o % FANOUT
    PROVE  q = o
<1>1. /\ q = (q \div FANOUT) * FANOUT + (q % FANOUT)
      /\ o = (o \div FANOUT) * FANOUT + (o % FANOUT)
  BY Digits
<1> QED
  BY <1>1, Zenon

\* The place of the entry s of the table at place q.
LEMMA ChildPlace ==
    ASSUME NEW q \in Nat, NEW s \in Slot
    PROVE  /\ q * FANOUT + s \in Nat
           /\ (q * FANOUT + s) \div FANOUT = q /\ (q * FANOUT + s) % FANOUT = s
<1>1. PICK d \in Nat \ {0} : d = FANOUT
  BY Sizes
<1>2. s \in 0 .. d - 1 /\ s \in Nat
  BY <1>1 DEF Slot
<1>3. (q * d + s) % d = s /\ (q * d + s) \div d = q
  BY <1>2, Multiple
<1>4. q * d + s \in Nat
  BY <1>2
<1> QED
  BY <1>1, <1>3, <1>4

\* Dividing twice is dividing by the product.
LEMMA DivTwice ==
    ASSUME NEW v \in Nat, NEW s \in Nat \ {0}, NEW d \in Nat \ {0}
    PROVE  (v \div s) \div d = v \div (d * s)
<1>1. PICK k \in Nat, r \in 0 .. s - 1 :
         v = k * s + r /\ v % s = r /\ v \div s = k
  BY Quotient
<1>2. PICK n \in Nat, t \in 0 .. d - 1 :
         k = n * d + t /\ k % d = t /\ k \div d = n
  BY Quotient
<1>3. PICK e \in Nat \ {0} : e = d * s
  OBVIOUS
<1>4. PICK u \in Nat : u = t * s + r
  OBVIOUS
<1>5. u < e
  <2>1. t * s <= (d - 1) * s
    OBVIOUS
  <2>2. (d - 1) * s = d * s - s
    OBVIOUS
  <2>3. t * s \in Nat /\ d * s \in Nat
    OBVIOUS
  <2> QED
    BY <1>3, <1>4, <2>1, <2>2, <2>3
<1>6. v = n * e + u
  <2>1. k * s = n * (d * s) + t * s
    BY <1>2
  <2> QED
    BY <1>1, <1>3, <1>4, <2>1
<1>7. v \div e = n
  BY <1>5, <1>6, Multiple
<1> QED
  BY <1>1, <1>2, <1>3, <1>7

\* The place of the table or page for page v on level l.
Place(v, l) == v \div Span[l]

\* The indices that split_virt_addr cuts a page number into are the digits of
\* its places, from the page itself up to the root.
LEMMA Places ==
    ASSUME NEW v \in Nat
    PROVE  /\ \A l \in 0 .. LEVELS : Place(v, l) \in Nat
           /\ Place(v, 0) = v
           /\ \A l \in 0 .. LEVELS - 1 :
                 /\ Index(v, l) = Place(v, l) % FANOUT
                 /\ Place(v, l) \div FANOUT = Place(v, l + 1)
           /\ v < Span[LEVELS] => Place(v, LEVELS) = 0
<1>1. ASSUME NEW l \in 0 .. LEVELS PROVE Place(v, l) \in Nat
  <2>1. PICK s \in Nat \ {0} : s = Span[l]
    BY SpanType
  <2>2. v \div s \in Nat
    BY Quotient
  <2> QED
    BY <2>1, <2>2 DEF Place
<1>2. Place(v, 0) = v
  <2>1. v \div 1 = v
    OBVIOUS
  <2> QED
    BY <2>1, SpanEquation DEF Place
<1>3. ASSUME NEW l \in 0 .. LEVELS - 1
      PROVE  /\ Index(v, l) = Place(v, l) % FANOUT
             /\ Place(v, l) \div FANOUT = Place(v, l + 1)
  <2>1. PICK s \in Nat \ {0} : s = Span[l]
    BY SpanType, Sizes
  <2>2. Span[l + 1] = FANOUT * s
    <3>1. l + 1 \in 1 .. LEVELS /\ (l + 1) - 1 = l
      BY Sizes
    <3> QED
      BY <2>1, <3>1, SpanEquation
  <2>3. PICK d \in Nat \ {0} : d = FANOUT
    BY Sizes
  <2>4. (v \div s) \div d = v \div (d * s)
    BY DivTwice
  <2> QED
    BY <2>1, <2>2, <2>3, <2>4 DEF Place, Index
<1>4. v < Span[LEVELS] => Place(v, LEVELS) = 0
  <2>1. PICK s \in Nat \ {0} : s = Span[LEVELS]
    BY SpanType, Sizes
  <2>2. v < s => v \div s = 0
    OBVIOUS
  <2> QED
    BY <2>1, <2>2 DEF Place
<1> QED
  BY <1>1, <1>2, <1>3, <1>4

-----------------------------------------------------------------------------
(* The frames in use.  at gives the frame of each node: <<0, v>> is page v  *)
(* of the heap, <<l, q>> for 1 <= l the table of level l - 1 at place q,    *)
(* and <<-1, i>> the i-th node of the free list, from its end.  Memory is   *)
(* mapped directly below page d, the heap is marked available below b, and  *)
(* Z are the pages that were freed.                                         *)

Pos(l, q) == <<l, q>>

Node == (-1 .. LEVELS) \X Nat

\* Nodes are pairs of a level and a place.
LEMMA PosEqual ==
    /\ \A l, q, k, o : Pos(l, q) = Pos(k, o) <=> l = k /\ q = o
    /\ \A l, q : Pos(l, q) \in Node <=> l \in -1 .. LEVELS /\ q \in Nat
    /\ \A n \in Node : \E l \in -1 .. LEVELS, q \in Nat : n = Pos(l, q)
  BY DEF Pos, Node

\* The frames behind region->next, never allocated.
FreshOf(x) ==
    UNION {x.next[r] .. Regions[r].end - 1 : r \in 1 .. Len(Regions)}

Entries == [present : BOOLEAN, avail : BOOLEAN, addr : Nat]

Memory == [mem : [Frame -> [Slot -> Entries]], free_list : Nat,
           next : [1 .. Len(Regions) -> Nat], halted : BOOLEAN]

\* The kernel runs, and each region->next is in its region.
Typed(x) ==
    /\ x \in Memory /\ ~x.halted
    /\ \A r \in 1 .. Len(Regions) : /\ Regions[r].start <= x.next[r]
                                    /\ x.next[r] <= Regions[r].end

\* Each usable frame is fresh, behind one node, or in hand; 0 is no frame.
Owned(x, at, hand) ==
    /\ DOMAIN at \subseteq Node
    /\ \A n \in DOMAIN at : /\ at[n] \in UsableFrames
                            /\ at[n] \notin FreshOf(x) /\ at[n] # hand
    /\ \A n, o \in DOMAIN at : at[n] = at[o] => n = o
    /\ hand # NoFrame => hand \in UsableFrames /\ hand \notin FreshOf(x)
    /\ \A f \in UsableFrames : \/ f \in FreshOf(x) \/ f = hand
                               \/ \E n \in DOMAIN at : at[n] = f

\* free_list leads over n nodes, each of which points to the one before it.
Linked(x, at, n) ==
    /\ \A i \in Nat : Pos(-1, i) \in DOMAIN at <=> i \in 1 .. n
    /\ x.free_list = IF n = 0 THEN NoFrame ELSE at[Pos(-1, n)]
    /\ \A i \in 1 .. n : x.mem[at[Pos(-1, i)]][0].addr =
                            IF i = 1 THEN NoFrame ELSE at[Pos(-1, i - 1)]

FreeList(x, at) == \E n \in Nat : Linked(x, at, n)

\* Below the root every page and table hangs in a table.
Tree(at, root) ==
    /\ Pos(LEVELS, 0) \in DOMAIN at /\ at[Pos(LEVELS, 0)] = root
    /\ \A q \in Nat : Pos(LEVELS, q) \in DOMAIN at => q = 0
    /\ \A l \in 0 .. LEVELS - 1, q \in Nat :
          Pos(l, q) \in DOMAIN at => Pos(l + 1, q \div FANOUT) \in DOMAIN at
    /\ \A q \in Nat : Pos(0, q) \in DOMAIN at => KernelHeap <= q

\* The lowest tables are there for all pages that a walk has been over.
Leaves(at, d, b) ==
    \A v \in Nat : v \in 1 .. d - 1 \/ v \in KernelHeap .. b - 1
                      => Pos(1, v \div FANOUT) \in DOMAIN at

\* The entry for the node Pos(l, q) in the table above it.
Entry(x, at, l, q) == x.mem[at[Pos(l + 1, q \div FANOUT)]][q % FANOUT]

\* An entry maps memory below the heap directly, or is present if there is a
\* node and then points to it; a page never touched has no old address left.
EntryRight(e, at, l, q, d, b, Z) ==
    IF l = 0 /\ q < KernelHeap
    THEN /\ e.present <=> q \in 1 .. d - 1
         /\ e.present => e.addr = q
         /\ ~e.avail
    ELSE /\ e.present <=> Pos(l, q) \in DOMAIN at
         /\ e.present => e.addr = at[Pos(l, q)]
         /\ l = 0 => /\ e.avail <=> q < b
                     /\ ~e.present /\ q \notin Z => e.addr = NoFrame

\* All entries of all tables are right.
Filed(x, at, d, b, Z) ==
    \A l \in 0 .. LEVELS - 1, q \in Nat :
       Pos(l + 1, q \div FANOUT) \in DOMAIN at
          => EntryRight(Entry(x, at, l, q), at, l, q, d, b, Z)

\* The frames, the free list and the tables agree.
Good(x, root, at, hand, d, b, Z) ==
    /\ Typed(x) /\ Owned(x, at, hand) /\ FreeList(x, at)
    /\ Tree(at, root) /\ Leaves(at, d, b) /\ Filed(x, at, d, b, Z)
    /\ d \in Nat /\ b \in Nat

\* The pages that are mapped, and what is in them.
Pages(at, U) == \A v \in Nat : Pos(0, v) \in DOMAIN at <=> v \in U

Contents(x, at, U) == \A v \in U : x.mem[at[Pos(0, v)]] = Data(v)

\* No frame is left.
Full(x) == FreshOf(x) = {} /\ x.free_list = NoFrame

\* Nothing is allocated yet.
Blank(x) ==
    /\ x \in Memory /\ ~x.halted /\ x.free_list = NoFrame
    /\ x.next = [r \in 1 .. Len(Regions) |-> Regions[r].start]

HeldPages == UNION {PagesHeld(a) : a \in allocs}

\* What callers hold.
HeldRight ==
    /\ allocs \subseteq [base : Nat, num : Nat]
    /\ \A a \in allocs : KernelHeap <= a.base /\ a.base + a.num <= page_brk
    /\ \A a, c \in allocs : a # c => PagesHeld(a) \cap PagesHeld(c) = {}
    /\ used \subseteq HeldPages
    /\ page_brk \in Nat /\ KernelHeap <= page_brk
    /\ page_brk <= KernelHeap + MaxHeap

\* The cached translations of pages in use are right.
Cached(at, Z) ==
    /\ \A v \in used : v \in DOMAIN tlb /\ tlb[v] = at[Pos(0, v)]
    /\ DOMAIN tlb \subseteq used \cup Z

\* Before init_page_table nothing is allocated; while the kernel runs, callers
\* hold disjoint ranges, and some at and Z describe memory.
PageInv ==
    /\ untouched \in BOOLEAN
    /\ phys.halted => untouched \/ Full(phys)
    /\ ~phys.halted /\ pml4 = NoFrame =>
          /\ Blank(phys) /\ page_brk = KernelHeap
          /\ tlb = << >> /\ allocs = {} /\ used = {}
    /\ Running =>
          /\ HeldRight
          /\ \E at, Z : /\ Good(phys, pml4, at, NoFrame, MemEnd, page_brk, Z)
                        /\ Pages(at, used) /\ Contents(phys, at, used)
                        /\ Cached(at, Z)
                        /\ Z \cap HeldPages = {}
                        /\ Z \subseteq KernelHeap .. page_brk - 1

-----------------------------------------------------------------------------
(* The regions.                                                            *)

\* The regions are not empty, start behind page 0 and end at MemEnd at most.
LEMMA RegionFacts ==
    /\ Len(Regions) \in Nat \ {0}
    /\ \A r \in 1 .. Len(Regions) :
          /\ Regions[r].start \in Nat \ {0} /\ Regions[r].end \in Nat
          /\ Regions[r].start < Regions[r].end /\ Regions[r].end <= MemEnd
    /\ MemEnd \in Nat /\ 2 <= MemEnd
<1> DEFINE R == [start : Nat \ {0}, end : Nat]
<1>0. Regions \in Seq(R) /\ Regions # <<>>
  BY PageAllocAssumption
<1> HIDE DEF R
<1>1. Len(Regions) \in Nat \ {0}
  BY <1>0
<1>2. \A r \in 1 .. Len(Regions) : Regions[r] \in R
  BY <1>0
<1>3. \A r \in 1 .. Len(Regions) :
         /\ Regions[r].start \in Nat \ {0} /\ Regions[r].end \in Nat
         /\ Regions[r].start < Regions[r].end
  <2>1. \A r \in 1 .. Len(Regions) : Regions[r].start < Regions[r].end
    BY PageAllocAssumption
  <2> QED
    BY <1>2, <2>1 DEF R
<1>4. Len(Regions) \in 1 .. Len(Regions)
  BY <1>1
<1>5. ASSUME NEW r \in 1 .. Len(Regions) PROVE Regions[r].end <= MemEnd
  <2>1. CASE r = Len(Regions)
    BY <1>3, <1>4, <2>1 DEF MemEnd
  <2>2. CASE r # Len(Regions)
    <3>1. r < Len(Regions)
      BY <1>1, <2>2
    <3>2. Regions[r].end <= Regions[Len(Regions)].start
      BY <1>4, <3>1, PageAllocAssumption
    <3> QED
      BY <1>3, <1>4, <3>2 DEF MemEnd
  <2> QED
    BY <2>1, <2>2
<1>6. MemEnd \in Nat /\ 2 <= MemEnd
  BY <1>3, <1>4 DEF MemEnd
<1> QED
  BY <1>1, <1>3, <1>5, <1>6

\* A frame is in one region.
LEMMA InOneRegion ==
    ASSUME NEW r \in 1 .. Len(Regions), NEW s \in 1 .. Len(Regions),
           NEW f \in Nat,
           Regions[r].start <= f, f < Regions[r].end,
           Regions[s].start <= f, f < Regions[s].end
    PROVE  r = s
<1>1. /\ r < s => Regions[r].end <= Regions[s].start
      /\ s < r => Regions[s].end <= Regions[r].start
  BY PageAllocAssumption
<1>2. /\ r \in Nat /\ s \in Nat
      /\ Regions[r].start \in Nat /\ Regions[r].end \in Nat
      /\ Regions[s].start \in Nat /\ Regions[s].end \in Nat
  BY RegionFacts
<1> QED
  BY <1>1, <1>2

\* A usable frame is one of a region, and not 0.
LEMMA UsableFacts ==
    /\ \A f : f \in UsableFrames <=>
                 /\ f \in Nat
                 /\ \E r \in 1 .. Len(Regions) :
                       Regions[r].start <= f /\ f < Regions[r].end
    /\ UsableFrames \subseteq Frame \ {NoFrame}
<1>1. \A f : f \in UsableFrames <=>
                 \E r \in 1 .. Len(Regions) :
                    f \in Regions[r].start .. Regions[r].end - 1
  BY DEF UsableFrames
<1>2. \A f : f \in UsableFrames <=>
                 /\ f \in Nat
                 /\ \E r \in 1 .. Len(Regions) :
                       Regions[r].start <= f /\ f < Regions[r].end
  <2>1. \A f : \A r \in 1 .. Len(Regions) :
           f \in Regions[r].start .. Regions[r].end - 1
              <=> f \in Nat /\ Regions[r].start <= f /\ f < Regions[r].end
    BY RegionFacts
  <2> QED
    BY <1>1, <2>1
<1>3. ASSUME NEW f \in UsableFrames PROVE f \in Frame \ {NoFrame}
  BY <1>2, RegionFacts DEF Frame, NoFrame
<1> QED
  BY <1>2, <1>3

\* A fresh frame is one between the next of a region and its end.
LEMMA FreshFacts ==
    ASSUME NEW x, Typed(x)
    PROVE  /\ \A f : f \in FreshOf(x) <=>
                 /\ f \in Nat
                 /\ \E r \in 1 .. Len(Regions) :
                       x.next[r] <= f /\ f < Regions[r].end
           /\ FreshOf(x) \subseteq UsableFrames
           /\ \A r \in 1 .. Len(Regions) : x.next[r] \in Nat
<1>1. \A r \in 1 .. Len(Regions) : x.next[r] \in Nat
  BY DEF Typed, Memory
<1>2. \A f : f \in FreshOf(x) <=>
                 \E r \in 1 .. Len(Regions) :
                    f \in x.next[r] .. Regions[r].end - 1
  BY DEF FreshOf
<1>3. \A f : f \in FreshOf(x) <=>
                 /\ f \in Nat
                 /\ \E r \in 1 .. Len(Regions) :
                       x.next[r] <= f /\ f < Regions[r].end
  <2>1. \A f : \A r \in 1 .. Len(Regions) :
           f \in x.next[r] .. Regions[r].end - 1
              <=> f \in Nat /\ x.next[r] <= f /\ f < Regions[r].end
    BY <1>1, RegionFacts
  <2> QED
    BY <1>2, <2>1
<1>4. ASSUME NEW f \in FreshOf(x) PROVE f \in UsableFrames
  <2>1. PICK r \in 1 .. Len(Regions) : x.next[r] <= f /\ f < Regions[r].end
    BY <1>3
  <2>2. Regions[r].start <= f
    BY <1>1, <1>3, <2>1, RegionFacts DEF Typed
  <2> QED
    BY <1>3, <2>1, <2>2, UsableFacts
<1> QED
  BY <1>1, <1>3, <1>4

\* The heap starts behind the memory and fits into the page table.
LEMMA HeapFacts ==
    /\ KernelHeap \in Nat \ {0} /\ MemEnd <= KernelHeap
    /\ KernelHeap + MaxHeap <= Span[LEVELS] /\ Span[LEVELS] \in Nat
<1>1. LEVELS - 1 \in 0 .. LEVELS /\ LEVELS \in 1 .. LEVELS
  BY Sizes
<1>2. PICK s \in Nat \ {0} : s = Span[LEVELS - 1]
  BY <1>1, SpanType
<1>3. Span[LEVELS] = FANOUT * s
  BY <1>1, <1>2, SpanEquation
<1>4. PICK d \in Nat \ {0, 1} : d = FANOUT
  BY Sizes
<1>5. s + s <= d * s /\ d * s \in Nat
  OBVIOUS
<1>6. KernelHeap = s
  BY <1>2 DEF KernelHeap
<1>7. MemEnd <= KernelHeap /\ MaxHeap \in Nat /\ MaxHeap <= KernelHeap
  BY PageAllocAssumption
<1> QED
  BY <1>3, <1>4, <1>5, <1>6, <1>7

-----------------------------------------------------------------------------
(* MMU_pf_alloc.                                                           *)

\* at2 differs from at in free nodes only.
Same(at, at2) ==
    \A l \in 0 .. LEVELS, q \in Nat :
       /\ Pos(l, q) \in DOMAIN at <=> Pos(l, q) \in DOMAIN at2
       /\ Pos(l, q) \in DOMAIN at => at2[Pos(l, q)] = at[Pos(l, q)]

\* The head of the free list.
LEMMA AllocFree ==
    ASSUME NEW x, NEW at, Typed(x), Owned(x, at, NoFrame), FreeList(x, at),
           x.free_list # NoFrame
    PROVE  LET new == MMU_pf_alloc(x)
           IN  \E at2 : /\ Typed(new.m) /\ new.m.mem = x.mem
                        /\ Owned(new.m, at2, new.addr)
                        /\ FreeList(new.m, at2) /\ Same(at, at2)
                        /\ new.addr # NoFrame
<1>1. PICK n \in Nat : Linked(x, at, n)
  BY DEF FreeList
<1>2. n # 0 /\ n \in 1 .. n /\ x.free_list = at[Pos(-1, n)]
  <2>1. n # 0 /\ x.free_list = at[Pos(-1, n)]
    BY <1>1 DEF Linked
  <2> QED
    BY <2>1
<1> DEFINE f == x.free_list
           y == [x EXCEPT !.free_list = PopFree(x)]
           S == DOMAIN at \ {Pos(-1, n)}
           at2 == [o \in S |-> at[o]]
<1>3. MMU_pf_alloc(x) = [addr |-> f, m |-> y]
  BY DEF MMU_pf_alloc
<1>4. Pos(-1, n) \in DOMAIN at /\ f \in UsableFrames /\ f \notin FreshOf(x)
  BY <1>1, <1>2 DEF Linked, Owned
<1>5. PopFree(x) = IF n = 1 THEN NoFrame ELSE at[Pos(-1, n - 1)]
  BY <1>1, <1>2 DEF Linked, PopFree
<1>6. PopFree(x) \in Nat
  <2>1. n # 1 => Pos(-1, n - 1) \in DOMAIN at
    BY <1>1, <1>2 DEF Linked
  <2>2. n # 1 => at[Pos(-1, n - 1)] \in Nat
    BY <2>1, UsableFacts DEF Owned
  <2> QED
    BY <1>5, <2>2 DEF NoFrame
<1>7. /\ y \in Memory /\ y.mem = x.mem /\ y.free_list = PopFree(x)
      /\ y.next = x.next /\ y.halted = x.halted
  BY <1>6 DEF Typed, Memory
<1> HIDE DEF y, f
<1>8. Typed(y) /\ FreshOf(y) = FreshOf(x)
  BY <1>7 DEF Typed, FreshOf
<1>9. Owned(y, at2, f)
  <2>1. DOMAIN at2 = S /\ \A o \in S : at2[o] = at[o]
    OBVIOUS
  <2>2. \A o \in DOMAIN at : o \in S \/ at[o] = f
    BY <1>2 DEF f
  <2>3. \A o \in S : at[o] # f
    BY <1>2, <1>4 DEF f, Owned
  <2>4. f # NoFrame
    BY DEF f
  <2>5. S \subseteq DOMAIN at
    OBVIOUS
  <2> HIDE DEF at2, S
  <2>6. \A o \in DOMAIN at2 : /\ at2[o] \in UsableFrames
                              /\ at2[o] \notin FreshOf(y) /\ at2[o] # f
    BY <1>8, <2>1, <2>3, <2>5 DEF Owned
  <2>7. \A o, p \in DOMAIN at2 : at2[o] = at2[p] => o = p
    BY <2>1, <2>5 DEF Owned
  <2>8. ASSUME NEW g \in UsableFrames
        PROVE  g \in FreshOf(y) \/ g = f \/ \E o \in DOMAIN at2 : at2[o] = g
    <3>1. CASE g \in FreshOf(x)
      BY <1>8, <3>1
    <3>2. ASSUME NEW o \in DOMAIN at, at[o] = g
          PROVE  g = f \/ \E p \in DOMAIN at2 : at2[p] = g
      BY <2>1, <2>2, <3>2
    <3>3. g # NoFrame
      BY UsableFacts
    <3> QED
      BY <3>1, <3>2, <3>3 DEF Owned
  <2> QED
    BY <1>4, <1>8, <2>1, <2>5, <2>6, <2>7, <2>8 DEF Owned
<1>10. FreeList(y, at2)
  <2>1. PICK k \in Nat : n = k + 1
    BY <1>2
  <2>2. \A i \in Nat : Pos(-1, i) \in DOMAIN at2 <=> i \in 1 .. k
    <3>1. \A i \in Nat : Pos(-1, i) \in DOMAIN at <=> i \in 1 .. n
      BY <1>1 DEF Linked
    <3>2. \A i \in Nat : Pos(-1, i) \in DOMAIN at2
                            <=> Pos(-1, i) \in DOMAIN at /\ i # n
      BY PosEqual
    <3> HIDE DEF at2
    <3> QED
      BY <2>1, <3>1, <3>2
  <2>3. \A i \in 1 .. k : at2[Pos(-1, i)] = at[Pos(-1, i)]
    BY <2>2
  <2> HIDE DEF at2
  <2>4. y.free_list = IF k = 0 THEN NoFrame ELSE at2[Pos(-1, k)]
    BY <1>5, <1>7, <2>1, <2>3
  <2>5. ASSUME NEW i \in 1 .. k
        PROVE  y.mem[at2[Pos(-1, i)]][0].addr =
                  IF i = 1 THEN NoFrame ELSE at2[Pos(-1, i - 1)]
    <3>1. i \in 1 .. n /\ (i # 1 => i - 1 \in 1 .. k)
      BY <2>1
    <3>2. x.mem[at[Pos(-1, i)]][0].addr =
             IF i = 1 THEN NoFrame ELSE at[Pos(-1, i - 1)]
      BY <1>1, <3>1 DEF Linked
    <3> QED
      BY <1>7, <2>3, <3>1, <3>2
  <2> QED
    BY <2>2, <2>4, <2>5 DEF Linked, FreeList
<1>11. Same(at, at2)
  <2>1. \A l \in 0 .. LEVELS, q \in Nat : Pos(l, q) # Pos(-1, n)
    BY PosEqual
  <2> QED
    BY <2>1 DEF Same
<1> HIDE DEF at2
<1> QED
  BY <1>3, <1>7, <1>8, <1>9, <1>10, <1>11 DEF f

\* The first frame of a region that has one.
LEMMA AllocFresh ==
    ASSUME NEW x, NEW at, Typed(x), Owned(x, at, NoFrame), FreeList(x, at),
           x.free_list = NoFrame, NEW k \in 1 .. Len(Regions), HasNext(x, k)
    PROVE  LET new == MMU_pf_alloc(x)
           IN  /\ Typed(new.m) /\ new.m.mem = x.mem
               /\ Owned(new.m, at, new.addr)
               /\ FreeList(new.m, at) /\ new.addr # NoFrame
<1> DEFINE r == FirstRegion(x)
<1>1. r \in 1 .. Len(Regions) /\ HasNext(x, r)
  <2> DEFINE S == {s \in 1 .. Len(Regions) : HasNext(x, s)}
  <2>1. S \in SUBSET Nat /\ S # {}
    BY RegionFacts
  <2>2. PICK s \in S : \A t \in S : s <= t
    <3> HIDE DEF S
    <3> QED
      BY <2>1, LeastNat
  <2>3. \A t \in 1 .. s - 1 : ~HasNext(x, t)
    BY <2>2, RegionFacts
  <2> QED
    BY <2>2, <2>3 DEF FirstRegion
<1> HIDE DEF r
<1>2. PICK f \in Nat : f = x.next[r]
  BY <1>1, FreshFacts
<1>3. f < Regions[r].end /\ Regions[r].start <= f
  BY <1>1, <1>2 DEF HasNext, Typed
<1> DEFINE y == [x EXCEPT !.next[r] = @ + 1]
<1>4. MMU_pf_alloc(x) = [addr |-> f, m |-> y]
  BY <1>1, <1>2 DEF MMU_pf_alloc, r
<1>5. /\ y \in Memory /\ y.mem = x.mem /\ y.free_list = x.free_list
      /\ y.halted = x.halted
      /\ \A s \in 1 .. Len(Regions) : y.next[s] = IF s = r THEN f + 1
                                                  ELSE x.next[s]
  <2>1. x \in Memory
    BY DEF Typed
  <2>2. x.next \in [1 .. Len(Regions) -> Nat] /\ x.next[r] + 1 = f + 1
    BY <1>2, <2>1 DEF Memory
  <2> DEFINE z == [x.next EXCEPT ![r] = f + 1]
  <2>3. z \in [1 .. Len(Regions) -> Nat]
    <3>1. f + 1 \in Nat
      BY <1>2
    <3> QED
      BY <2>2, <3>1
  <2>4. y = [x EXCEPT !.next = z]
    BY <1>2, Zenon
  <2>5. \A s \in 1 .. Len(Regions) : z[s] = IF s = r THEN f + 1
                                            ELSE x.next[s]
    BY <2>2
  <2> HIDE DEF z, y
  <2>6. y \in Memory
    BY <2>1, <2>3, <2>4 DEF Memory
  <2>7. /\ y.mem = x.mem /\ y.free_list = x.free_list
        /\ y.halted = x.halted /\ y.next = z
    BY <2>1, <2>4 DEF Memory
  <2> QED
    BY <2>5, <2>6, <2>7
<1> HIDE DEF y
<1>6. Typed(y)
  BY <1>1, <1>2, <1>3, <1>5, RegionFacts, SMTT(30) DEF Typed
<1>7. f \in FreshOf(x) /\ f \in UsableFrames /\ f # NoFrame
  BY <1>1, <1>2, <1>3, FreshFacts, UsableFacts
<1>8. \A g : g \in FreshOf(y) <=> g \in FreshOf(x) /\ g # f
  <2>1. ASSUME NEW g \in FreshOf(y) PROVE g \in FreshOf(x) /\ g # f
    <3>1. PICK s \in 1 .. Len(Regions) : y.next[s] <= g /\ g < Regions[s].end
      BY <1>6, FreshFacts
    <3>2. g \in Nat /\ x.next[s] \in Nat /\ f \in Nat
      BY <1>2, <1>6, FreshFacts
    <3>3. x.next[s] <= g
      BY <1>2, <1>5, <3>1, <3>2
    <3>4. CASE s = r
      BY <1>5, <3>1, <3>2, <3>3, <3>4, FreshFacts
    <3>5. CASE s # r
      <4>1. Regions[s].start <= g
        BY <3>2, <3>3, RegionFacts DEF Typed
      <4>2. g # f
        BY <1>1, <1>3, <3>1, <3>2, <3>5, <4>1, InOneRegion
      <4> QED
        BY <3>1, <3>2, <3>3, <4>2, FreshFacts
    <3> QED
      BY <3>4, <3>5
  <2>2. ASSUME NEW g \in FreshOf(x), g # f PROVE g \in FreshOf(y)
    <3>1. PICK s \in 1 .. Len(Regions) : x.next[s] <= g /\ g < Regions[s].end
      BY FreshFacts
    <3>2. g \in Nat /\ x.next[s] \in Nat
      BY FreshFacts
    <3>3. y.next[s] <= g
      BY <1>2, <1>5, <2>2, <3>1, <3>2
    <3> QED
      BY <1>6, <3>1, <3>2, <3>3, FreshFacts
  <2> QED
    BY <2>1, <2>2
<1>9. Owned(y, at, f)
  <2>1. \A n \in DOMAIN at : /\ at[n] \in UsableFrames
                             /\ at[n] \notin FreshOf(y) /\ at[n] # f
    BY <1>7, <1>8 DEF Owned
  <2>2. \A g \in UsableFrames : \/ g \in FreshOf(y) \/ g = f
                                \/ \E n \in DOMAIN at : at[n] = g
    BY <1>8, UsableFacts DEF Owned
  <2> QED
    BY <1>7, <1>8, <2>1, <2>2 DEF Owned
<1>10. FreeList(y, at)
  BY <1>5 DEF FreeList, Linked
<1> QED
  BY <1>4, <1>5, <1>6, <1>7, <1>9, <1>10

\* A frame that had no other use, or none is left.
LEMMA AllocFrame ==
    ASSUME NEW x, NEW at, Typed(x), Owned(x, at, NoFrame), FreeList(x, at)
    PROVE  LET new == MMU_pf_alloc(x)
           IN  \/ new.m.halted /\ Full(new.m)
               \/ \E at2 : /\ Typed(new.m) /\ new.m.mem = x.mem
                           /\ Owned(new.m, at2, new.addr)
                           /\ FreeList(new.m, at2) /\ Same(at, at2)
                           /\ new.addr # NoFrame
<1>1. CASE x.free_list # NoFrame
  BY <1>1, AllocFree
<1>2. ASSUME x.free_list = NoFrame, NEW r \in 1 .. Len(Regions), HasNext(x, r)
      PROVE  \E at2 : /\ Typed(MMU_pf_alloc(x).m)
                      /\ MMU_pf_alloc(x).m.mem = x.mem
                      /\ Owned(MMU_pf_alloc(x).m, at2, MMU_pf_alloc(x).addr)
                      /\ FreeList(MMU_pf_alloc(x).m, at2) /\ Same(at, at2)
                      /\ MMU_pf_alloc(x).addr # NoFrame
  <2>1. Same(at, at)
    BY DEF Same
  <2> QED
    BY <1>2, <2>1, AllocFresh
<1>3. CASE /\ x.free_list = NoFrame
           /\ ~(\E r \in 1 .. Len(Regions) : HasNext(x, r))
  <2> DEFINE y == [x EXCEPT !.halted = TRUE]
  <2>1. MMU_pf_alloc(x).m = y
    BY <1>3 DEF MMU_pf_alloc
  <2>2. y.halted /\ y.free_list = x.free_list /\ y.next = x.next
    BY DEF Typed, Memory
  <2>3. FreshOf(x) = {}
    <3>1. ASSUME NEW f \in FreshOf(x) PROVE FALSE
      <4>1. PICK r \in 1 .. Len(Regions) :
               x.next[r] <= f /\ f < Regions[r].end
        BY FreshFacts
      <4>2. f \in Nat /\ x.next[r] \in Nat /\ Regions[r].end \in Nat
        BY FreshFacts, RegionFacts
      <4> QED
        BY <1>3, <4>1, <4>2 DEF HasNext
    <3> QED
      BY <3>1
  <2> HIDE DEF y
  <2>4. Full(y)
    BY <1>3, <2>2, <2>3 DEF Full, FreshOf
  <2> QED
    BY <2>1, <2>2, <2>4
<1> QED
  BY <1>1, <1>2, <1>3

-----------------------------------------------------------------------------
(* Changes of one entry, and of the nodes.                                 *)

\* A store of one word changes that word.
LEMMA OneWord ==
    ASSUME NEW M \in [Frame -> [Slot -> Entries]], NEW t \in Frame,
           NEW s \in Slot, NEW e \in Entries, NEW K, K = [M EXCEPT ![t][s] = e]
    PROVE  /\ K \in [Frame -> [Slot -> Entries]]
           /\ \A g \in Frame : g # t => K[g] = M[g]
           /\ K[t][s] = e
           /\ \A i \in Slot : i # s => K[t][i] = M[t][i]
<1> DEFINE c == [M[t] EXCEPT ![s] = e]
<1>1. M[t] \in [Slot -> Entries]
  OBVIOUS
<1>2. /\ c \in [Slot -> Entries] /\ c[s] = e
      /\ \A i \in Slot : i # s => c[i] = M[t][i]
  BY <1>1
<1>3. K = [M EXCEPT ![t] = c]
  OBVIOUS
<1> HIDE DEF c
<1> QED
  BY <1>2, <1>3

\* Frames of nodes are frames.
LEMMA NodeFrame ==
    ASSUME NEW x, NEW at, NEW hand, Owned(x, at, hand), NEW n \in DOMAIN at
    PROVE  at[n] \in Frame /\ at[n] \in Nat /\ at[n] # NoFrame
  BY UsableFacts DEF Owned

\* The stores of the code: a word, and a whole frame.
SetWord(x, t, s, e) == [x EXCEPT !.mem[t][s] = e]

SetFrame(x, f, c) == [x EXCEPT !.mem[f] = c]

\* A change of the entry of node <<k, o>> changes no other.
LEMMA EntryChange ==
    ASSUME NEW x, NEW at, NEW hand, NEW k \in 0 .. LEVELS - 1, NEW o \in Nat,
           NEW e \in Entries, Typed(x), Owned(x, at, hand), FreeList(x, at),
           Pos(k + 1, o \div FANOUT) \in DOMAIN at, NEW y,
           y = SetWord(x, at[Pos(k + 1, o \div FANOUT)], o % FANOUT, e)
    PROVE  /\ Typed(y) /\ y.next = x.next /\ y.free_list = x.free_list
           /\ FreshOf(y) = FreshOf(x) /\ FreeList(y, at)
           /\ \A g \in Frame : g # at[Pos(k + 1, o \div FANOUT)]
                                  => y.mem[g] = x.mem[g]
           /\ \A l \in 0 .. LEVELS - 1, q \in Nat :
                 Pos(l + 1, q \div FANOUT) \in DOMAIN at =>
                    Entry(y, at, l, q) = IF l = k /\ q = o THEN e
                                         ELSE Entry(x, at, l, q)
<1> DEFINE t == at[Pos(k + 1, o \div FANOUT)]
           s == o % FANOUT
           K == [x.mem EXCEPT ![t][s] = e]
<1>1. t \in Frame /\ s \in Slot
  BY NodeFrame, Digits
<1>2. x \in Memory /\ x.mem \in [Frame -> [Slot -> Entries]]
  BY DEF Typed, Memory
<1>3. y = [x EXCEPT !.mem = K]
  BY Zenon DEF SetWord
<1> HIDE DEF t, s
<1>4. /\ K \in [Frame -> [Slot -> Entries]]
      /\ \A g \in Frame : g # t => K[g] = x.mem[g]
      /\ K[t][s] = e
      /\ \A i \in Slot : i # s => K[t][i] = x.mem[t][i]
  <2> DEFINE M == x.mem
  <2>1. M \in [Frame -> [Slot -> Entries]] /\ K = [M EXCEPT ![t][s] = e]
    BY <1>2
  <2> HIDE DEF M, K
  <2>2. /\ K \in [Frame -> [Slot -> Entries]]
        /\ \A g \in Frame : g # t => K[g] = M[g]
        /\ K[t][s] = e
        /\ \A i \in Slot : i # s => K[t][i] = M[t][i]
    BY <1>1, <2>1, OneWord
  <2> QED
    BY <2>2 DEF M
<1> HIDE DEF K
<1>5. /\ y \in Memory /\ y.mem = K /\ y.next = x.next
      /\ y.free_list = x.free_list /\ y.halted = x.halted
  BY <1>2, <1>3, <1>4 DEF Memory
<1>6. Typed(y) /\ FreshOf(y) = FreshOf(x)
  BY <1>5 DEF Typed, FreshOf
<1>7. ASSUME NEW l \in 0 .. LEVELS - 1, NEW q \in Nat,
             Pos(l + 1, q \div FANOUT) \in DOMAIN at
      PROVE  Entry(y, at, l, q) = IF l = k /\ q = o THEN e
                                  ELSE Entry(x, at, l, q)
  <2>1. at[Pos(l + 1, q \div FANOUT)] \in Frame /\ q % FANOUT \in Slot
    BY <1>7, NodeFrame, Digits
  <2>2. CASE l = k /\ q = o
    <3>1. Entry(y, at, k, o) = y.mem[t][s]
      BY DEF Entry, t, s
    <3> QED
      BY <1>4, <1>5, <2>2, <3>1
  <2>3. CASE at[Pos(l + 1, q \div FANOUT)] # t
    BY <1>4, <1>5, <2>1, <2>3 DEF Entry, t
  <2>4. CASE at[Pos(l + 1, q \div FANOUT)] = t /\ ~(l = k /\ q = o)
    <3>1. Pos(l + 1, q \div FANOUT) = Pos(k + 1, o \div FANOUT)
      BY <1>7, <2>4 DEF t, Owned
    <3>2. l + 1 = k + 1 /\ q \div FANOUT = o \div FANOUT
      BY <3>1, PosEqual
    <3>3. l = k /\ q # o
      BY <2>4, <3>2, Sizes
    <3>4. q % FANOUT # s
      BY <3>2, <3>3, SamePlace DEF s
    <3>5. K[t][q % FANOUT] = x.mem[t][q % FANOUT]
      BY <1>4, <2>1, <3>4
    <3> QED
      BY <1>5, <2>4, <3>5 DEF Entry
  <2> QED
    BY <2>2, <2>3, <2>4
<1>8. FreeList(y, at)
  <2>1. PICK n \in Nat : Linked(x, at, n)
    BY DEF FreeList
  <2>2. ASSUME NEW i \in 1 .. n
        PROVE  y.mem[at[Pos(-1, i)]] = x.mem[at[Pos(-1, i)]]
    <3>1. Pos(-1, i) \in DOMAIN at
      BY <2>1 DEF Linked
    <3>2. Pos(-1, i) # Pos(k + 1, o \div FANOUT)
      <4>1. -1 # k + 1
        BY Sizes
      <4> QED
        BY <4>1, PosEqual
    <3>3. at[Pos(-1, i)] # t
      BY <3>1, <3>2 DEF t, Owned
    <3>4. at[Pos(-1, i)] \in Frame
      BY <3>1, NodeFrame
    <3> QED
      BY <1>4, <1>5, <3>3, <3>4
  <2>3. Linked(y, at, n)
    BY <1>5, <2>1, <2>2 DEF Linked
  <2> QED
    BY <2>3 DEF FreeList
<1> QED
  BY <1>4, <1>5, <1>6, <1>7, <1>8 DEF t

\* One more node.
Extend(at, p, f) == [n \in DOMAIN at \cup {p} |-> IF n = p THEN f ELSE at[n]]

\* The frame in hand goes behind a node.
LEMMA Adopt ==
    ASSUME NEW x, NEW at, NEW f, NEW p \in Node, Owned(x, at, f),
           f # NoFrame, p \notin DOMAIN at
    PROVE  Owned(x, Extend(at, p, f), NoFrame)
<1> DEFINE at2 == Extend(at, p, f)
<1>1. /\ DOMAIN at2 = DOMAIN at \cup {p} /\ at2[p] = f
      /\ \A n \in DOMAIN at : at2[n] = at[n]
  BY DEF Extend
<1> HIDE DEF at2
<1>2. DOMAIN at2 \subseteq Node
  BY <1>1 DEF Owned
<1>3. \A n \in DOMAIN at2 : /\ at2[n] \in UsableFrames
                            /\ at2[n] \notin FreshOf(x) /\ at2[n] # NoFrame
  BY <1>1, UsableFacts DEF Owned
<1>4. \A n, o \in DOMAIN at2 : at2[n] = at2[o] => n = o
  BY <1>1 DEF Owned
<1>5. \A g \in UsableFrames : \/ g \in FreshOf(x) \/ g = NoFrame
                              \/ \E n \in DOMAIN at2 : at2[n] = g
  BY <1>1 DEF Owned
<1> QED
  BY <1>2, <1>3, <1>4, <1>5 DEF Owned, at2

\* The others stay.
LEMMA ExtendFacts ==
    ASSUME NEW at, NEW k, NEW o, NEW f
    PROVE  LET at2 == Extend(at, Pos(k, o), f)
           IN  /\ \A l, q : Pos(l, q) \in DOMAIN at2
                               <=> Pos(l, q) \in DOMAIN at \/ (l = k /\ q = o)
               /\ \A l, q : Pos(l, q) \in DOMAIN at /\ ~(l = k /\ q = o)
                               => at2[Pos(l, q)] = at[Pos(l, q)]
               /\ at2[Pos(k, o)] = f
  BY PosEqual DEF Extend

\* What is said of tables and pages does not depend on the free list.
LEMMA SameTree ==
    ASSUME NEW x, NEW y, NEW at, NEW at2, NEW root, NEW d, NEW b, NEW Z,
           Same(at, at2), y.mem = x.mem,
           Tree(at, root), Leaves(at, d, b), Filed(x, at, d, b, Z)
    PROVE  Tree(at2, root) /\ Leaves(at2, d, b) /\ Filed(y, at2, d, b, Z)
<1>1. /\ 0 \in 0 .. LEVELS /\ 1 \in 0 .. LEVELS /\ LEVELS \in 0 .. LEVELS
      /\ 0 \in Nat
  BY Sizes
<1>2. \A l \in 0 .. LEVELS - 1 : l \in 0 .. LEVELS /\ l + 1 \in 0 .. LEVELS
  BY Sizes
<1>3. \A q \in Nat : q \div FANOUT \in Nat
  BY Digits
<1>4. Tree(at2, root)
  <2>1. Pos(LEVELS, 0) \in DOMAIN at2 /\ at2[Pos(LEVELS, 0)] = root
    BY <1>1 DEF Same, Tree
  <2>2. \A q \in Nat : Pos(LEVELS, q) \in DOMAIN at2 => q = 0
    BY <1>1 DEF Same, Tree
  <2>3. \A l \in 0 .. LEVELS - 1, q \in Nat :
           Pos(l, q) \in DOMAIN at2 => Pos(l + 1, q \div FANOUT) \in DOMAIN at2
    BY <1>2, <1>3 DEF Same, Tree
  <2>4. \A q \in Nat : Pos(0, q) \in DOMAIN at2 => KernelHeap <= q
    BY <1>1 DEF Same, Tree
  <2> QED
    BY <2>1, <2>2, <2>3, <2>4 DEF Tree
<1>5. Leaves(at2, d, b)
  BY <1>1, <1>3 DEF Same, Leaves
<1>6. ASSUME NEW l \in 0 .. LEVELS - 1, NEW q \in Nat,
             Pos(l + 1, q \div FANOUT) \in DOMAIN at2
      PROVE  EntryRight(Entry(y, at2, l, q), at2, l, q, d, b, Z)
  <2>1. Pos(l + 1, q \div FANOUT) \in DOMAIN at
    BY <1>2, <1>3, <1>6 DEF Same
  <2>2. at2[Pos(l + 1, q \div FANOUT)] = at[Pos(l + 1, q \div FANOUT)]
    BY <1>2, <1>3, <2>1 DEF Same
  <2>3. Entry(y, at2, l, q) = Entry(x, at, l, q)
    BY <2>2 DEF Entry
  <2>4. EntryRight(Entry(x, at, l, q), at, l, q, d, b, Z)
    BY <2>1 DEF Filed
  <2>5. /\ Pos(l, q) \in DOMAIN at <=> Pos(l, q) \in DOMAIN at2
        /\ Pos(l, q) \in DOMAIN at => at2[Pos(l, q)] = at[Pos(l, q)]
    BY <1>2 DEF Same
  <2> QED
    BY <2>3, <2>4, <2>5 DEF EntryRight
<1> QED
  BY <1>4, <1>5, <1>6 DEF Filed

\* Frame f that has no node gets new contents.
LEMMA FrameChange ==
    ASSUME NEW x, NEW at, NEW hand, NEW f \in Frame,
           NEW c \in [Slot -> Entries],
           Typed(x), Owned(x, at, hand), FreeList(x, at),
           NEW y, y = SetFrame(x, f, c),
           \A i \in Nat : Pos(-1, i) \in DOMAIN at => at[Pos(-1, i)] # f
    PROVE  /\ Typed(y) /\ y.next = x.next /\ y.free_list = x.free_list
           /\ FreshOf(y) = FreshOf(x) /\ FreeList(y, at)
           /\ y.mem[f] = c /\ \A g \in Frame : g # f => y.mem[g] = x.mem[g]
<1>1. x \in Memory /\ x.mem \in [Frame -> [Slot -> Entries]]
  BY DEF Typed, Memory
<1> DEFINE K == [x.mem EXCEPT ![f] = c]
<1>2. y = [x EXCEPT !.mem = K]
  BY Zenon DEF SetFrame
<1>3. /\ K \in [Frame -> [Slot -> Entries]] /\ K[f] = c
      /\ \A g \in Frame : g # f => K[g] = x.mem[g]
  BY <1>1
<1> HIDE DEF K
<1>4. /\ y \in Memory /\ y.mem = K /\ y.next = x.next
      /\ y.free_list = x.free_list /\ y.halted = x.halted
  BY <1>1, <1>2, <1>3 DEF Memory
<1>5. Typed(y) /\ FreshOf(y) = FreshOf(x)
  BY <1>4 DEF Typed, FreshOf
<1>6. FreeList(y, at)
  <2>1. PICK n \in Nat : Linked(x, at, n)
    BY DEF FreeList
  <2>2. ASSUME NEW i \in 1 .. n
        PROVE  y.mem[at[Pos(-1, i)]] = x.mem[at[Pos(-1, i)]]
    <3>1. Pos(-1, i) \in DOMAIN at /\ i \in Nat
      BY <2>1 DEF Linked
    <3>2. at[Pos(-1, i)] \in Frame /\ at[Pos(-1, i)] # f
      BY <3>1, NodeFrame
    <3> QED
      BY <1>3, <1>4, <3>2
  <2>3. Linked(y, at, n)
    BY <1>4, <2>1, <2>2 DEF Linked
  <2> QED
    BY <2>3 DEF FreeList
<1> QED
  BY <1>3, <1>4, <1>5, <1>6

\* The free list has no part in nodes of tables and pages.
LEMMA ListExtended ==
    ASSUME NEW x, NEW at, FreeList(x, at), NEW k \in 0 .. LEVELS, NEW o, NEW f
    PROVE  FreeList(x, Extend(at, Pos(k, o), f))
<1> DEFINE at2 == Extend(at, Pos(k, o), f)
<1>1. PICK n \in Nat : Linked(x, at, n)
  BY DEF FreeList
<1>2. \A i \in Nat : /\ Pos(-1, i) \in DOMAIN at2 <=> Pos(-1, i) \in DOMAIN at
                     /\ Pos(-1, i) \in DOMAIN at
                           => at2[Pos(-1, i)] = at[Pos(-1, i)]
  <2>1. k # -1
    BY Sizes
  <2> QED
    BY <2>1, ExtendFacts
<1> HIDE DEF at2
<1>3. \A i \in 1 .. n : Pos(-1, i) \in DOMAIN at /\ i \in Nat
  BY <1>1 DEF Linked
<1>4. \A i \in 1 .. n : at2[Pos(-1, i)] = at[Pos(-1, i)]
  BY <1>2, <1>3
<1>5. x.free_list = IF n = 0 THEN NoFrame ELSE at2[Pos(-1, n)]
  <2>1. n # 0 => n \in 1 .. n
    OBVIOUS
  <2> QED
    BY <1>1, <1>4, <2>1 DEF Linked
<1>6. ASSUME NEW i \in 1 .. n
      PROVE  x.mem[at2[Pos(-1, i)]][0].addr =
                IF i = 1 THEN NoFrame ELSE at2[Pos(-1, i - 1)]
  <2>1. i # 1 => i - 1 \in 1 .. n
    OBVIOUS
  <2>2. x.mem[at[Pos(-1, i)]][0].addr =
           IF i = 1 THEN NoFrame ELSE at[Pos(-1, i - 1)]
    BY <1>1 DEF Linked
  <2> QED
    BY <1>4, <2>1, <2>2
<1>7. \A i \in Nat : Pos(-1, i) \in DOMAIN at2 <=> i \in 1 .. n
  BY <1>1, <1>2 DEF Linked
<1>8. Linked(x, at2, n)
  BY <1>5, <1>6, <1>7 DEF Linked
<1> QED
  BY <1>8 DEF FreeList, at2

\* Pages keep their frames and their contents.
Keeps(x, at, y, at2) ==
    \A q \in Nat :
       /\ Pos(0, q) \in DOMAIN at <=> Pos(0, q) \in DOMAIN at2
       /\ Pos(0, q) \in DOMAIN at =>
             /\ at2[Pos(0, q)] = at[Pos(0, q)]
             /\ y.mem[at[Pos(0, q)]] = x.mem[at[Pos(0, q)]]

\* The entry that points to the new frame f.
Filling(e, f) == [e EXCEPT !.present = TRUE, !.addr = f]

\* It is present, and keeps its other flags.
LEMMA FillingType ==
    ASSUME NEW e \in Entries, NEW f \in Nat
    PROVE  /\ Filling(e, f) \in Entries /\ Filling(e, f).present
           /\ Filling(e, f).addr = f /\ Filling(e, f).avail = e.avail
  BY Zenon DEF Filling, Entries

\* A table that memset has cleared has no entry present.
LEMMA BlankTable ==
    /\ NewTable \in [Slot -> Entries]
    /\ \A s \in Slot : /\ ~NewTable[s].present /\ ~NewTable[s].avail
                       /\ NewTable[s].addr = NoFrame
  BY DEF NewTable, Filled, Pointer, Word, Entries, NoFrame

\* A new table below a table.
LEMMA TableAdded ==
    ASSUME NEW x, NEW root, NEW at, NEW f, NEW d, NEW b, NEW Z,
           Good(x, root, at, f, d, b, Z), f # NoFrame,
           NEW k \in 1 .. LEVELS - 1, NEW o \in Nat, Pos(k, o) \notin DOMAIN at,
           Pos(k + 1, o \div FANOUT) \in DOMAIN at, NEW y, NEW z, NEW t, NEW s,
           t = at[Pos(k + 1, o \div FANOUT)], s = o % FANOUT,
           z = SetFrame(x, f, NewTable),
           y = SetWord(z, t, s, Filling(x.mem[t][s], f))
    PROVE  /\ Good(y, root, Extend(at, Pos(k, o), f), NoFrame, d, b, Z)
           /\ Keeps(x, at, y, Extend(at, Pos(k, o), f))
<1>0. /\ Typed(x) /\ Owned(x, at, f) /\ FreeList(x, at)
      /\ Tree(at, root) /\ Leaves(at, d, b) /\ Filed(x, at, d, b, Z)
      /\ d \in Nat /\ b \in Nat
  BY DEF Good
<1> USE <1>0
<1> DEFINE at2 == Extend(at, Pos(k, o), f)
           e == Filling(x.mem[t][s], f)
<1>1. f \in Frame /\ f \in Nat
  BY UsableFacts DEF Owned
<1>2. t \in Frame /\ t # f
  BY NodeFrame DEF Owned
<1>3. \A n \in DOMAIN at : at[n] # f
  BY DEF Owned
<1>4. /\ Typed(z) /\ z.next = x.next /\ z.free_list = x.free_list
      /\ FreshOf(z) = FreshOf(x) /\ FreeList(z, at)
      /\ z.mem[f] = NewTable /\ \A g \in Frame : g # f => z.mem[g] = x.mem[g]
  <2>1. \A i \in Nat : Pos(-1, i) \in DOMAIN at => at[Pos(-1, i)] # f
    BY <1>3
  <2>2. NewTable \in [Slot -> Entries]
    BY BlankTable
  <2> QED
    BY <1>1, <2>1, <2>2, FrameChange
<1>5. y = SetWord(z, t, s, e)
  OBVIOUS
<1>6. x.mem[t][s] \in Entries /\ s \in Slot /\ k \in 0 .. LEVELS - 1
  <2>1. s \in Slot /\ k \in 0 .. LEVELS - 1
    BY Digits
  <2>2. x.mem \in [Frame -> [Slot -> Entries]]
    BY DEF Typed, Memory
  <2> QED
    BY <1>2, <2>1, <2>2
<1>7. /\ e \in Entries /\ e.present /\ e.addr = f
      /\ e.avail = x.mem[t][s].avail
  BY <1>1, <1>6, FillingType
<1> HIDE DEF e
<1>8. Owned(z, at, f)
  BY <1>4 DEF Owned
<1>9. /\ Typed(y) /\ y.next = z.next /\ y.free_list = z.free_list
      /\ FreshOf(y) = FreshOf(z) /\ FreeList(y, at)
      /\ \A g \in Frame : g # t => y.mem[g] = z.mem[g]
      /\ \A l \in 0 .. LEVELS - 1, q \in Nat :
            Pos(l + 1, q \div FANOUT) \in DOMAIN at =>
               Entry(y, at, l, q) = IF l = k /\ q = o THEN e
                                    ELSE Entry(z, at, l, q)
  BY <1>4, <1>5, <1>6, <1>7, <1>8, EntryChange
<1>10. Owned(y, at2, NoFrame)
  <2>1. Pos(k, o) \in Node
    BY PosEqual, Sizes, SMTT(30)
  <2>2. Owned(y, at, f)
    BY <1>8, <1>9 DEF Owned
  <2> QED
    BY <2>1, <2>2, Adopt
<1>11. FreeList(y, at2)
  BY <1>9, ListExtended, Sizes
<1>12. /\ \A l, q : Pos(l, q) \in DOMAIN at2
                       <=> Pos(l, q) \in DOMAIN at \/ (l = k /\ q = o)
       /\ \A l, q : Pos(l, q) \in DOMAIN at => at2[Pos(l, q)] = at[Pos(l, q)]
       /\ at2[Pos(k, o)] = f
  <2>1. \A l, q : Pos(l, q) \in DOMAIN at => ~(l = k /\ q = o)
    OBVIOUS
  <2> QED
    BY <2>1, ExtendFacts
<1> HIDE DEF at2
<1>13. Tree(at2, root)
  <2>1. Pos(LEVELS, 0) \in DOMAIN at2 /\ at2[Pos(LEVELS, 0)] = root
    BY <1>12 DEF Tree
  <2>2. \A q \in Nat : Pos(LEVELS, q) \in DOMAIN at2 => q = 0
    BY <1>12, Sizes DEF Tree
  <2>3. \A l \in 0 .. LEVELS - 1, q \in Nat :
           Pos(l, q) \in DOMAIN at2 => Pos(l + 1, q \div FANOUT) \in DOMAIN at2
    BY <1>12 DEF Tree
  <2>4. \A q \in Nat : Pos(0, q) \in DOMAIN at2 => KernelHeap <= q
    BY <1>12 DEF Tree
  <2> QED
    BY <2>1, <2>2, <2>3, <2>4 DEF Tree
<1>14. Leaves(at2, d, b)
  BY <1>12 DEF Leaves
<1>15. ASSUME NEW l \in 0 .. LEVELS - 1, NEW q \in Nat,
              Pos(l + 1, q \div FANOUT) \in DOMAIN at
       PROVE  EntryRight(Entry(y, at2, l, q), at2, l, q, d, b, Z)
  <2>1. Entry(y, at2, l, q) = Entry(y, at, l, q)
    BY <1>12, <1>15 DEF Entry
  <2>2. Entry(z, at, l, q) = Entry(x, at, l, q)
    BY <1>3, <1>4, <1>15, NodeFrame DEF Entry
  <2>3. EntryRight(Entry(x, at, l, q), at, l, q, d, b, Z)
    BY <1>15 DEF Filed
  <2>4. CASE l = k /\ q = o
    <3>1. Entry(y, at2, l, q) = e
      BY <1>9, <1>15, <2>1, <2>4
    <3>2. Pos(l, q) \in DOMAIN at2 /\ at2[Pos(l, q)] = f /\ l # 0
      BY <1>12, <2>4
    <3> QED
      BY <1>7, <3>1, <3>2, SMTT(30) DEF EntryRight
  <2>5. CASE ~(l = k /\ q = o)
    <3>1. Entry(y, at2, l, q) = Entry(x, at, l, q)
      BY <1>9, <1>15, <2>1, <2>2, <2>5
    <3>2. /\ Pos(l, q) \in DOMAIN at2 <=> Pos(l, q) \in DOMAIN at
          /\ Pos(l, q) \in DOMAIN at => at2[Pos(l, q)] = at[Pos(l, q)]
      BY <1>12, <2>5
    <3> QED
      BY <2>3, <3>1, <3>2, SMTT(30) DEF EntryRight
  <2> QED
    BY <2>4, <2>5
<1>16. ASSUME NEW l \in 0 .. LEVELS - 1, NEW q \in Nat,
              l + 1 = k, q \div FANOUT = o
       PROVE  EntryRight(Entry(y, at2, l, q), at2, l, q, d, b, Z)
  <2>1. Entry(y, at2, l, q) = NewTable[q % FANOUT]
    <3>1. at2[Pos(l + 1, q \div FANOUT)] = f
      BY <1>12, <1>16, SMTT(30)
    <3>2. y.mem[f] = NewTable
      BY <1>1, <1>2, <1>4, <1>9
    <3> QED
      BY <3>1, <3>2 DEF Entry
  <2>2. q % FANOUT \in Slot
    BY Digits
  <2>3. Pos(l, q) \notin DOMAIN at
    BY <1>16 DEF Tree
  <2>4. Pos(l, q) \notin DOMAIN at2
    BY <1>12, <1>16, <2>3
  <2>5. l = 0 => ~(q \in 1 .. d - 1) /\ ~(q \in KernelHeap .. b - 1)
    BY <1>16 DEF Leaves
  <2>6. /\ ~NewTable[q % FANOUT].present /\ ~NewTable[q % FANOUT].avail
        /\ NewTable[q % FANOUT].addr = NoFrame
    BY <2>2, BlankTable
  <2>7. CASE l = 0 /\ q < KernelHeap
    BY <2>1, <2>5, <2>6, <2>7 DEF EntryRight
  <2>8. CASE ~(l = 0 /\ q < KernelHeap)
    <3>1. l = 0 => ~(q < b)
      BY <2>5, <2>8, HeapFacts
    <3> QED
      BY <2>1, <2>4, <2>6, <2>8, <3>1 DEF EntryRight
  <2> QED
    BY <2>7, <2>8
<1>17. Filed(y, at2, d, b, Z)
  <2>1. ASSUME NEW l \in 0 .. LEVELS - 1, NEW q \in Nat,
               Pos(l + 1, q \div FANOUT) \in DOMAIN at2
        PROVE  EntryRight(Entry(y, at2, l, q), at2, l, q, d, b, Z)
    BY <1>12, <1>15, <1>16, <2>1
  <2> QED
    BY <2>1 DEF Filed
<1>18. Keeps(x, at, y, at2)
  <2>1. ASSUME NEW q \in Nat, Pos(0, q) \in DOMAIN at
        PROVE  y.mem[at[Pos(0, q)]] = x.mem[at[Pos(0, q)]]
    <3>1. at[Pos(0, q)] \in Frame /\ at[Pos(0, q)] # f
      BY <1>3, <2>1, NodeFrame
    <3>2. Pos(0, q) # Pos(k + 1, o \div FANOUT)
      BY PosEqual
    <3>3. at[Pos(0, q)] # t
      BY <2>1, <3>2 DEF Owned
    <3> QED
      BY <1>4, <1>9, <3>1, <3>3
  <2>2. \A q \in Nat : /\ Pos(0, q) \in DOMAIN at <=> Pos(0, q) \in DOMAIN at2
                       /\ Pos(0, q) \in DOMAIN at
                             => at2[Pos(0, q)] = at[Pos(0, q)]
    BY <1>12
  <2> QED
    BY <2>1, <2>2, SMTT(30) DEF Keeps
<1> QED
  BY <1>9, <1>10, <1>11, <1>13, <1>14, <1>17, <1>18, Zenon DEF at2, Good

-----------------------------------------------------------------------------
(* page_table_get_entry.                                                   *)

\* Induction down from hi to lo, for a set P of numbers.
LEMMA Downward ==
    ASSUME NEW lo \in Int, NEW hi \in Int, NEW P, hi \in P,
           \A n \in lo .. hi - 1 : n + 1 \in P => n \in P
    PROVE  lo .. hi \subseteq P
<1> DEFINE Q == {k \in 0 .. hi - lo : hi - k \in P}
<1>1. 0 <= hi - lo => 0 \in Q
  OBVIOUS
<1>2. ASSUME NEW k \in 0 + 1 .. hi - lo, k - 1 \in Q PROVE k \in Q
  <2>1. hi - k \in lo .. hi - 1 /\ (hi - k) + 1 = hi - (k - 1)
    OBVIOUS
  <2>2. hi - (k - 1) \in P
    BY <1>2
  <2>3. hi - k \in P
    BY <2>1, <2>2
  <2> QED
    BY <2>3
<1>3. 0 \in Int /\ hi - lo \in Int
  OBVIOUS
<1> HIDE DEF Q
<1>4. 0 .. hi - lo \subseteq Q
  BY <1>1, <1>2, <1>3, Ascend
<1>5. ASSUME NEW n \in lo .. hi PROVE n \in P
  <2>1. hi - n \in 0 .. hi - lo /\ hi - (hi - n) = n
    OBVIOUS
  <2> QED
    BY <1>4, <2>1 DEF Q
<1> QED
  BY <1>5

\* The tables above a table are there.
LEMMA Ancestors ==
    ASSUME NEW at, NEW root, Tree(at, root), NEW v \in Nat,
           Pos(1, v \div FANOUT) \in DOMAIN at
    PROVE  \A l \in 1 .. LEVELS : Pos(l, Place(v, l)) \in DOMAIN at
<1> DEFINE P == {l \in 1 .. LEVELS : Pos(l, Place(v, l)) \in DOMAIN at}
<1>1. v \div FANOUT = Place(v, 1)
  <2>1. 0 \in 0 .. LEVELS - 1 /\ 0 + 1 = 1
    BY Sizes
  <2> QED
    BY <2>1, Places
<1>2. 1 \in P
  BY <1>1, Sizes
<1>3. ASSUME NEW l \in 1 + 1 .. LEVELS, l - 1 \in P PROVE l \in P
  <2>1. PICK k \in 0 .. LEVELS - 1 : k = l - 1
    BY Sizes
  <2>2. l = k + 1 /\ k \in 0 .. LEVELS
    BY <2>1, Sizes
  <2>3. Place(v, k) \in Nat /\ Place(v, k) \div FANOUT = Place(v, l)
    BY <2>2, Places
  <2>4. Pos(k, Place(v, k)) \in DOMAIN at
    BY <1>3, <2>1
  <2>5. Pos(l, Place(v, l)) \in DOMAIN at
    BY <2>2, <2>3, <2>4 DEF Tree
  <2> QED
    BY <2>5
<1>4. 1 \in Int /\ LEVELS \in Int
  BY Sizes
<1> HIDE DEF P
<1>5. 1 .. LEVELS \subseteq P
  BY <1>2, <1>3, <1>4, Ascend
<1> QED
  BY <1>5 DEF P

\* A walk that allocates no table finds the lowest table if it is there.
LEMMA Lookup ==
    ASSUME NEW x, NEW root, NEW at, NEW hand, NEW d, NEW b, NEW Z,
           Good(x, root, at, hand, d, b, Z), NEW v \in Nat, v < Span[LEVELS],
           NEW allocate \in BOOLEAN,
           allocate = FALSE \/ Pos(1, v \div FANOUT) \in DOMAIN at
    PROVE  IF Pos(1, v \div FANOUT) \in DOMAIN at
           THEN page_table_get_entry(x, root, v, allocate)
                   = [m |-> x, table |-> at[Pos(1, v \div FANOUT)],
                      found |-> TRUE]
           ELSE \E t : page_table_get_entry(x, root, v, allocate)
                          = [m |-> x, table |-> t, found |-> FALSE]
<1>1. Typed(x) /\ Tree(at, root) /\ Filed(x, at, d, b, Z)
  BY DEF Good
<1>0. PICK f : WalkedDown(x, root, v, allocate, f)
  BY WalkDown
<1>2. /\ f[LEVELS - 1] = [m |-> x, table |-> root, found |-> TRUE]
      /\ \A l \in 0 .. LEVELS - 2 :
            f[l] = Descend(f[l + 1], Index(v, l + 1), allocate)
      /\ page_table_get_entry(x, root, v, allocate) = f[0]
  BY <1>0 DEF WalkedDown
<1> DEFINE N(l) == Pos(l + 1, Place(v, l + 1))
           P == {l \in 0 .. LEVELS - 1 :
                    IF N(l) \in DOMAIN at
                    THEN f[l] = [m |-> x, table |-> at[N(l)], found |-> TRUE]
                    ELSE \E t : f[l] = [m |-> x, table |-> t, found |-> FALSE]}
<1>3. LEVELS - 1 \in P
  <2>1. (LEVELS - 1) + 1 = LEVELS /\ LEVELS - 1 \in 0 .. LEVELS - 1
    BY Sizes
  <2>2. N(LEVELS - 1) = Pos(LEVELS, 0)
    <3>1. Place(v, LEVELS) = 0
      BY Places
    <3> QED
      BY <2>1, <3>1
  <2>3. N(LEVELS - 1) \in DOMAIN at /\ at[N(LEVELS - 1)] = root
    BY <1>1, <2>2 DEF Tree
  <2> HIDE DEF N
  <2> QED
    BY <1>2, <2>1, <2>3
<1>4. ASSUME NEW l \in 0 .. (LEVELS - 1) - 1, l + 1 \in P PROVE l \in P
  <2>1. PICK k \in 1 .. LEVELS - 1 : k = l + 1
    BY Sizes
  <2>2. /\ l \in 0 .. LEVELS - 2 /\ l \in 0 .. LEVELS - 1
        /\ k \in 0 .. LEVELS - 1
    BY <2>1, Sizes
  <2>3. f[l] = Descend(f[k], Index(v, k), allocate)
    BY <1>2, <2>1, <2>2
  <2>4. N(l) = Pos(k, Place(v, k)) /\ N(k) = Pos(k + 1, Place(v, k + 1))
    BY <2>1
  <2>5. PICK q \in Nat : q = Place(v, k)
    <3>1. k \in 0 .. LEVELS
      BY Sizes
    <3> QED
      BY <3>1, Places
  <2>6. /\ Index(v, k) = q % FANOUT /\ Place(v, k + 1) = q \div FANOUT
        /\ N(k) = Pos(k + 1, q \div FANOUT)
    BY <2>2, <2>4, <2>5, Places
  <2>7. CASE N(k) \notin DOMAIN at
    <3>1. N(l) \notin DOMAIN at
      BY <1>1, <2>2, <2>4, <2>5, <2>6, <2>7 DEF Tree
    <3>2. PICK t : f[k] = [m |-> x, table |-> t, found |-> FALSE]
      BY <1>4, <2>1, <2>7
    <3>3. f[l] = f[k]
      BY <2>3, <3>2 DEF Descend
    <3> HIDE DEF N
    <3> QED
      BY <2>2, <3>1, <3>2, <3>3
  <2>8. CASE N(k) \in DOMAIN at
    <3>1. f[k] = [m |-> x, table |-> at[N(k)], found |-> TRUE]
      BY <1>4, <2>1, <2>8
    <3> DEFINE e == x.mem[at[N(k)]][q % FANOUT]
    <3>2. e = Entry(x, at, k, q)
      BY <2>6 DEF Entry
    <3>3. EntryRight(Entry(x, at, k, q), at, k, q, d, b, Z)
      BY <1>1, <2>2, <2>6, <2>8 DEF Filed
    <3>4. /\ e.present <=> Pos(k, q) \in DOMAIN at
          /\ e.present => e.addr = at[Pos(k, q)]
      BY <2>1, <3>2, <3>3 DEF EntryRight
    <3>5. /\ ~f[k].m.halted /\ f[k].found
          /\ f[k].m.mem[f[k].table][q % FANOUT] = e
          /\ f[l] = Descend(f[k], q % FANOUT, allocate)
      BY <1>1, <2>3, <2>6, <3>1 DEF Typed
    <3> HIDE DEF e
    <3>6. CASE Pos(k, q) \in DOMAIN at
      <4>1. f[l] = [f[k] EXCEPT !.table = e.addr]
        BY <3>4, <3>5, <3>6 DEF Descend
      <4>2. e.addr = at[N(l)] /\ N(l) \in DOMAIN at
        BY <2>4, <2>5, <3>4, <3>6
      <4> HIDE DEF N
      <4>3. f[l] = [m |-> x, table |-> at[N(l)], found |-> TRUE]
        <5>1. PICK w, t, u, g :
                 w = f[k] /\ t = at[N(k)] /\ u = at[N(l)] /\ g = f[l]
          OBVIOUS
        <5>2. w = [m |-> x, table |-> t, found |-> TRUE]
          BY <3>1, <5>1
        <5>3. g = [w EXCEPT !.table = u]
          BY <4>1, <4>2, <5>1
        <5>4. g = [m |-> x, table |-> u, found |-> TRUE]
          BY <5>2, <5>3
        <5> QED
          BY <5>1, <5>4
      <4> QED
        BY <2>2, <4>2, <4>3
    <3>7. CASE Pos(k, q) \notin DOMAIN at
      <4>1. allocate = FALSE
        <5>1. k \in 1 .. LEVELS
          BY <2>1, Sizes
        <5> QED
          BY <1>1, <2>5, <3>7, <5>1, Ancestors
      <4>2. f[l] = [f[k] EXCEPT !.found = FALSE]
        BY <3>4, <3>5, <3>7, <4>1 DEF Descend
      <4>3. N(l) \notin DOMAIN at
        BY <2>4, <2>5, <3>7
      <4> HIDE DEF N
      <4>4. f[l] = [m |-> x, table |-> at[N(k)], found |-> FALSE]
        <5>1. PICK w, t, g : w = f[k] /\ t = at[N(k)] /\ g = f[l]
          OBVIOUS
        <5>2. w = [m |-> x, table |-> t, found |-> TRUE]
          BY <3>1, <5>1
        <5>3. g = [w EXCEPT !.found = FALSE]
          BY <4>2, <5>1
        <5>4. g = [m |-> x, table |-> t, found |-> FALSE]
          BY <5>2, <5>3
        <5> QED
          BY <5>1, <5>4
      <4> QED
        BY <2>2, <4>3, <4>4
    <3> QED
      BY <3>6, <3>7
  <2> QED
    BY <2>7, <2>8
<1>5. 0 \in Int /\ LEVELS - 1 \in Int /\ 0 \in 0 .. LEVELS - 1
  BY Sizes
<1> HIDE DEF P
<1>6. 0 .. LEVELS - 1 \subseteq P
  BY <1>3, <1>4, <1>5, Downward
<1>7. N(0) = Pos(1, v \div FANOUT)
  BY <1>5, Places
<1> HIDE DEF N
<1> QED
  BY <1>2, <1>5, <1>6, <1>7 DEF P

\* Two stretches that keep the pages keep them together.
LEMMA KeepsChain ==
    ASSUME NEW x, NEW at, NEW y, NEW at2, NEW z, NEW at3,
           Keeps(x, at, y, at2), Keeps(y, at2, z, at3)
    PROVE  Keeps(x, at, z, at3)
  BY DEF Keeps

\* A change of the free list alone keeps the pages.
LEMMA SameKeeps ==
    ASSUME NEW x, NEW at, NEW y, NEW at2, Same(at, at2), y.mem = x.mem
    PROVE  Keeps(x, at, y, at2)
<1>1. 0 \in 0 .. LEVELS
  BY Sizes
<1> QED
  BY <1>1 DEF Same, Keeps

\* A walk that has come to the table above node <<l, q>>, or has stopped for
\* want of memory, is at a table.
Reached(w, x, at, root, d, b, Z, l, q) ==
    \/ w.m.halted /\ Full(w.m)
    \/ \E y, at2 : /\ w = [m |-> y, table |-> at2[Pos(l, q)], found |-> TRUE]
                   /\ Pos(l, q) \in DOMAIN at2
                   /\ Good(y, root, at2, NoFrame, d, b, Z)
                   /\ Keeps(x, at, y, at2)

\* A round of page_table_get_entry finds the table below or adds it.
LEMMA DescendStep ==
    ASSUME NEW x, NEW root, NEW at, NEW d, NEW b, NEW Z,
           Good(x, root, at, NoFrame, d, b, Z),
           NEW l \in 1 .. LEVELS - 1, NEW q \in Nat,
           Pos(l + 1, q \div FANOUT) \in DOMAIN at, NEW w,
           w = [m |-> x, table |-> at[Pos(l + 1, q \div FANOUT)],
                found |-> TRUE]
    PROVE  Reached(Descend(w, q % FANOUT, TRUE), x, at, root, d, b, Z, l, q)
<1> DEFINE t == at[Pos(l + 1, q \div FANOUT)]
           e == x.mem[t][q % FANOUT]
           r == Descend(w, q % FANOUT, TRUE)
           new == MMU_pf_alloc(x)
<1>1. /\ Typed(x) /\ Owned(x, at, NoFrame) /\ FreeList(x, at)
      /\ Tree(at, root) /\ Leaves(at, d, b) /\ Filed(x, at, d, b, Z)
      /\ d \in Nat /\ b \in Nat
  BY DEF Good
<1>2. /\ e.present <=> Pos(l, q) \in DOMAIN at
      /\ e.present => e.addr = at[Pos(l, q)]
  <2>1. e = Entry(x, at, l, q) /\ l \in 0 .. LEVELS - 1 /\ l # 0
    BY DEF Entry
  <2>2. EntryRight(Entry(x, at, l, q), at, l, q, d, b, Z)
    BY <1>1, <2>1 DEF Filed
  <2> HIDE DEF e
  <2> QED
    BY <2>1, <2>2 DEF EntryRight
<1>3. /\ w.m = x /\ w.table = t /\ w.found /\ ~x.halted
  BY <1>1 DEF Typed
<1> HIDE DEF t
<1>4. w.m.mem[w.table][q % FANOUT] = e
  BY <1>3
<1> HIDE DEF e
<1>5. CASE Pos(l, q) \in DOMAIN at
  <2>1. r = [w EXCEPT !.table = e.addr]
    BY <1>2, <1>3, <1>4, <1>5 DEF Descend
  <2> HIDE DEF r
  <2>2. r = [m |-> x, table |-> e.addr, found |-> TRUE]
    BY <2>1
  <2>3. Keeps(x, at, x, at)
    BY DEF Keeps
  <2>4. r = [m |-> x, table |-> at[Pos(l, q)], found |-> TRUE]
    BY <1>2, <1>5, <2>2
  <2> QED
    BY <1>5, <2>3, <2>4 DEF Reached, r
<1>6. CASE Pos(l, q) \notin DOMAIN at /\ new.m.halted /\ Full(new.m)
  <2>1. r = [w EXCEPT !.m = new.m]
    BY <1>2, <1>3, <1>4, <1>6 DEF Descend
  <2> HIDE DEF r, new
  <2>2. r = [m |-> new.m, table |-> t, found |-> TRUE]
    BY <2>1 DEF t
  <2>3. r.m = new.m
    BY <2>2
  <2> QED
    BY <1>6, <2>3 DEF Reached, r
<1>7. ASSUME Pos(l, q) \notin DOMAIN at, NEW at2, Typed(new.m),
             new.m.mem = x.mem, Owned(new.m, at2, new.addr),
             FreeList(new.m, at2), Same(at, at2), new.addr # NoFrame
      PROVE  Reached(r, x, at, root, d, b, Z, l, q)
  <2> DEFINE z == SetFrame(new.m, new.addr, NewTable)
             i == q % FANOUT
             y == SetWord(z, t, i, Filling(z.mem[t][i], new.addr))
             at3 == Extend(at2, Pos(l, q), new.addr)
  <2>1. ~new.m.halted
    BY <1>7 DEF Typed
  <2>2. r = [w EXCEPT !.table = new.addr, !.m = y]
    BY <1>2, <1>3, <1>4, <1>7, <2>1 DEF Descend, SetFrame, SetWord, Filling
  <2> HIDE DEF r, new, y, z
  <2>3. r = [m |-> y, table |-> new.addr, found |-> TRUE]
    BY <2>2
  <2>4. Good(new.m, root, at2, new.addr, d, b, Z)
    BY <1>1, <1>7, SameTree DEF Good
  <2>5. l \in 0 .. LEVELS /\ l + 1 \in 0 .. LEVELS /\ q \div FANOUT \in Nat
    BY Digits, Sizes
  <2>6. /\ Pos(l, q) \notin DOMAIN at2
        /\ Pos(l + 1, q \div FANOUT) \in DOMAIN at2
        /\ t = at2[Pos(l + 1, q \div FANOUT)]
    BY <1>7, <2>5 DEF Same, t
  <2>7. z.mem[t][i] = new.m.mem[t][i]
    <3>1. t # new.addr
      BY <1>7, <2>6 DEF Owned
    <3>2. t \in DOMAIN new.m.mem
      <4>1. t \in Frame
        BY <1>7, <2>6, NodeFrame
      <4> QED
        BY <1>7, <4>1 DEF Typed, Memory
    <3> QED
      BY <3>1, <3>2 DEF z, SetFrame
  <2>8. /\ Good(y, root, at3, NoFrame, d, b, Z)
        /\ Keeps(new.m, at2, y, at3)
    BY <1>7, <2>4, <2>6, <2>7, TableAdded DEF y, z
  <2>9. Keeps(x, at, new.m, at2)
    BY <1>7, SameKeeps
  <2>10. Keeps(x, at, y, at3)
    BY <2>8, <2>9, KeepsChain
  <2>11. Pos(l, q) \in DOMAIN at3 /\ at3[Pos(l, q)] = new.addr
    BY ExtendFacts
  <2> HIDE DEF at3
  <2>12. r = [m |-> y, table |-> at3[Pos(l, q)], found |-> TRUE]
    BY <2>3, <2>11
  <2> QED
    BY <2>8, <2>10, <2>11, <2>12 DEF Reached
<1>8. \/ new.m.halted /\ Full(new.m)
      \/ \E at2 : /\ Typed(new.m) /\ new.m.mem = x.mem
                  /\ Owned(new.m, at2, new.addr)
                  /\ FreeList(new.m, at2) /\ Same(at, at2)
                  /\ new.addr # NoFrame
  BY <1>1, AllocFrame
<1> QED
  BY <1>5, <1>6, <1>7, <1>8

\* A walk that allocates tables comes to the lowest table of the page.
LEMMA Fetch ==
    ASSUME NEW x, NEW root, NEW at, NEW d, NEW b, NEW Z,
           Good(x, root, at, NoFrame, d, b, Z), NEW v \in Nat,
           v < Span[LEVELS]
    PROVE  Reached(page_table_get_entry(x, root, v, TRUE),
                   x, at, root, d, b, Z, 1, v \div FANOUT)
<1>0. PICK f : WalkedDown(x, root, v, TRUE, f)
  BY WalkDown, Zenon
<1>1. /\ f[LEVELS - 1] = [m |-> x, table |-> root, found |-> TRUE]
      /\ \A l \in 0 .. LEVELS - 2 :
            f[l] = Descend(f[l + 1], Index(v, l + 1), TRUE)
      /\ page_table_get_entry(x, root, v, TRUE) = f[0]
  BY <1>0 DEF WalkedDown
<1> DEFINE P == {l \in 0 .. LEVELS - 1 :
                    Reached(f[l], x, at, root, d, b, Z, l + 1, Place(v, l + 1))}
<1>2. LEVELS - 1 \in P
  <2>1. (LEVELS - 1) + 1 = LEVELS /\ LEVELS - 1 \in 0 .. LEVELS - 1
    BY Sizes
  <2>2. Place(v, LEVELS) = 0
    BY Places
  <2>3. Pos(LEVELS, 0) \in DOMAIN at /\ at[Pos(LEVELS, 0)] = root
    BY DEF Good, Tree
  <2>4. Keeps(x, at, x, at)
    BY DEF Keeps
  <2>5. f[LEVELS - 1] = [m |-> x, table |-> at[Pos(LEVELS, 0)], found |-> TRUE]
    BY <1>1, <2>3
  <2>6. Reached(f[LEVELS - 1], x, at, root, d, b, Z, LEVELS, 0)
    BY <2>3, <2>4, <2>5 DEF Reached
  <2> QED
    BY <2>1, <2>2, <2>6
<1>3. ASSUME NEW l \in 0 .. (LEVELS - 1) - 1, l + 1 \in P PROVE l \in P
  <2>1. PICK k \in 1 .. LEVELS - 1 : k = l + 1
    BY Sizes
  <2>2. /\ l \in 0 .. LEVELS - 2 /\ l \in 0 .. LEVELS - 1
        /\ k \in 0 .. LEVELS - 1
    BY <2>1, Sizes
  <2>3. PICK q \in Nat : q = Place(v, k)
    <3>1. k \in 0 .. LEVELS
      BY Sizes
    <3> QED
      BY <3>1, Places
  <2>4. Index(v, k) = q % FANOUT /\ Place(v, k + 1) = q \div FANOUT
    BY <2>2, <2>3, Places
  <2>5. f[l] = Descend(f[k], q % FANOUT, TRUE)
    BY <1>1, <2>1, <2>2, <2>4
  <2>6. Reached(f[k], x, at, root, d, b, Z, k + 1, q \div FANOUT)
    BY <1>3, <2>1, <2>4
  <2>7. CASE f[k].m.halted /\ Full(f[k].m)
    <3>1. f[l] = f[k]
      BY <2>5, <2>7 DEF Descend
    <3>2. Reached(f[l], x, at, root, d, b, Z, k, q)
      BY <2>7, <3>1 DEF Reached
    <3> QED
      BY <2>1, <2>2, <2>3, <3>2
  <2>8. ASSUME NEW y, NEW at2,
               f[k] = [m |-> y, table |-> at2[Pos(k + 1, q \div FANOUT)],
                       found |-> TRUE],
               Pos(k + 1, q \div FANOUT) \in DOMAIN at2,
               Good(y, root, at2, NoFrame, d, b, Z), Keeps(x, at, y, at2)
        PROVE  l \in P
    <3>1. Reached(f[l], y, at2, root, d, b, Z, k, q)
      BY <2>5, <2>8, DescendStep
    <3>2. Reached(f[l], x, at, root, d, b, Z, k, q)
      BY <2>8, <3>1, KeepsChain DEF Reached
    <3> QED
      BY <2>1, <2>2, <2>3, <3>2
  <2> HIDE DEF P
  <2> QED
    BY <2>6, <2>7, <2>8 DEF Reached
<1>4. 0 \in Int /\ LEVELS - 1 \in Int /\ 0 \in 0 .. LEVELS - 1 /\ 0 + 1 = 1
  BY Sizes
<1> HIDE DEF P
<1>5. 0 .. LEVELS - 1 \subseteq P
  BY <1>2, <1>3, <1>4, Downward
<1>6. Place(v, 1) = v \div FANOUT
  BY <1>4, Places
<1>7. Reached(f[0], x, at, root, d, b, Z, 0 + 1, Place(v, 0 + 1))
  BY <1>4, <1>5 DEF P
<1> QED
  BY <1>1, <1>4, <1>6, <1>7

\* Once the kernel has stopped a walk changes nothing.
LEMMA StoppedWalk ==
    ASSUME NEW x, NEW root, NEW v, x.halted
    PROVE  page_table_get_entry(x, root, v, TRUE).m = x
<1>0. PICK f : WalkedDown(x, root, v, TRUE, f)
  BY WalkDown, Zenon
<1>1. /\ f[LEVELS - 1] = [m |-> x, table |-> root, found |-> TRUE]
      /\ \A l \in 0 .. LEVELS - 2 :
            f[l] = Descend(f[l + 1], Index(v, l + 1), TRUE)
      /\ page_table_get_entry(x, root, v, TRUE) = f[0]
  BY <1>0 DEF WalkedDown
<1> DEFINE P == {l \in 0 .. LEVELS - 1 : f[l].m = x}
<1>2. LEVELS - 1 \in P
  BY <1>1, Sizes
<1>3. ASSUME NEW l \in 0 .. (LEVELS - 1) - 1, l + 1 \in P PROVE l \in P
  <2>1. l \in 0 .. LEVELS - 2 /\ l \in 0 .. LEVELS - 1
    BY Sizes
  <2>2. f[l] = f[l + 1]
    BY <1>1, <1>3, <2>1, Zenon DEF Descend
  <2> QED
    BY <1>3, <2>1, <2>2
<1>4. 0 \in Int /\ LEVELS - 1 \in Int /\ 0 \in 0 .. LEVELS - 1
  BY Sizes
<1> HIDE DEF P
<1>5. 0 .. LEVELS - 1 \subseteq P
  BY <1>2, <1>3, <1>4, Downward
<1> QED
  BY <1>1, <1>4, <1>5 DEF P

-----------------------------------------------------------------------------
(* The entry of a page.                                                    *)

\* Tables and pages other than v are what they were.
Elsewhere(x, at, y, at2, v) ==
    \A l \in 0 .. LEVELS, q \in Nat :
       ~(l = 0 /\ q = v) =>
          /\ Pos(l, q) \in DOMAIN at <=> Pos(l, q) \in DOMAIN at2
          /\ Pos(l, q) \in DOMAIN at =>
                /\ at2[Pos(l, q)] = at[Pos(l, q)]
                /\ y.mem[at[Pos(l, q)]] = x.mem[at[Pos(l, q)]]

\* The same is asked of the entries of pages other than v.
Agree(d, b, Z, d2, b2, Z2, v) ==
    \A q \in Nat : q # v => /\ q < KernelHeap => (q \in 1 .. d - 1
                                                     <=> q \in 1 .. d2 - 1)
                            /\ KernelHeap <= q => (q < b <=> q < b2)
                            /\ q \in Z => q \in Z2

\* The entry of page v is rewritten to fit the new use of its frame.
LEMMA Rewritten ==
    ASSUME NEW x, NEW root, NEW at, NEW hand, NEW d, NEW b, NEW Z,
           Good(x, root, at, hand, d, b, Z), NEW v \in Nat,
           Pos(1, v \div FANOUT) \in DOMAIN at,
           NEW z, NEW at2, NEW hand2, Typed(z), Owned(z, at2, hand2),
           FreeList(z, at2), Elsewhere(x, at, z, at2, v),
           NEW d2 \in 0 .. KernelHeap, NEW b2 \in Nat, NEW Z2,
           Agree(d, b, Z, d2, b2, Z2, v),
           NEW e \in Entries, EntryRight(e, at2, 0, v, d2, b2, Z2),
           Pos(0, v) \in DOMAIN at2 => KernelHeap <= v,
           NEW y, y = SetWord(z, at[Pos(1, v \div FANOUT)], v % FANOUT, e)
    PROVE  /\ Good(y, root, at2, hand2, d2, b2, Z2)
           /\ \A q \in Nat : Pos(0, q) \in DOMAIN at2 =>
                 y.mem[at2[Pos(0, q)]] = z.mem[at2[Pos(0, q)]]
<1>0. /\ Tree(at, root) /\ Leaves(at, d, b) /\ Filed(x, at, d, b, Z)
      /\ d \in Nat /\ b \in Nat
  BY DEF Good
<1>1. /\ 0 \in 0 .. LEVELS - 1 /\ 0 + 1 = 1 /\ 0 \in 0 .. LEVELS
      /\ 1 \in 0 .. LEVELS /\ LEVELS \in 0 .. LEVELS /\ LEVELS # 0
      /\ \A l \in 0 .. LEVELS - 1 : /\ l \in 0 .. LEVELS /\ l + 1 # 0
                                    /\ l + 1 \in 0 .. LEVELS
  BY Sizes
<1>2. \A q \in Nat : q \div FANOUT \in Nat /\ q % FANOUT \in Slot
  BY Digits
<1>3. /\ Pos(1, v \div FANOUT) \in DOMAIN at2
      /\ at2[Pos(1, v \div FANOUT)] = at[Pos(1, v \div FANOUT)]
  BY <1>1, <1>2 DEF Elsewhere
<1>4. /\ Typed(y) /\ y.next = z.next /\ y.free_list = z.free_list
      /\ FreshOf(y) = FreshOf(z) /\ FreeList(y, at2)
      /\ \A g \in Frame : g # at2[Pos(1, v \div FANOUT)]
                             => y.mem[g] = z.mem[g]
      /\ \A l \in 0 .. LEVELS - 1, q \in Nat :
            Pos(l + 1, q \div FANOUT) \in DOMAIN at2 =>
               Entry(y, at2, l, q) = IF l = 0 /\ q = v THEN e
                                     ELSE Entry(z, at2, l, q)
  <2> DEFINE k == 0
  <2>1. k \in 0 .. LEVELS - 1 /\ k + 1 = 1 /\ k = 0
    BY <1>1
  <2> HIDE DEF k
  <2>2. /\ Pos(k + 1, v \div FANOUT) \in DOMAIN at2
        /\ y = SetWord(z, at2[Pos(k + 1, v \div FANOUT)], v % FANOUT, e)
    BY <1>3, <2>1
  <2>3. /\ Typed(y) /\ y.next = z.next /\ y.free_list = z.free_list
        /\ FreshOf(y) = FreshOf(z) /\ FreeList(y, at2)
        /\ \A g \in Frame : g # at2[Pos(k + 1, v \div FANOUT)]
                               => y.mem[g] = z.mem[g]
        /\ \A l \in 0 .. LEVELS - 1, q \in Nat :
              Pos(l + 1, q \div FANOUT) \in DOMAIN at2 =>
                 Entry(y, at2, l, q) = IF l = k /\ q = v THEN e
                                       ELSE Entry(z, at2, l, q)
    BY <2>1, <2>2, EntryChange
  <2> QED
    BY <2>1, <2>3
<1>5. Owned(y, at2, hand2)
  BY <1>4 DEF Owned
<1>6. Tree(at2, root)
  <2>1. Pos(LEVELS, 0) \in DOMAIN at2 /\ at2[Pos(LEVELS, 0)] = root
    BY <1>0, <1>1 DEF Elsewhere, Tree
  <2>2. \A q \in Nat : Pos(LEVELS, q) \in DOMAIN at2 => q = 0
    BY <1>0, <1>1 DEF Elsewhere, Tree
  <2>3. ASSUME NEW l \in 0 .. LEVELS - 1, NEW q \in Nat,
               Pos(l, q) \in DOMAIN at2
        PROVE  Pos(l + 1, q \div FANOUT) \in DOMAIN at2
    <3>1. CASE l = 0 /\ q = v
      BY <1>1, <1>3, <3>1
    <3>2. CASE ~(l = 0 /\ q = v)
      <4>1. Pos(l, q) \in DOMAIN at
        BY <1>1, <2>3, <3>2 DEF Elsewhere
      <4>2. Pos(l + 1, q \div FANOUT) \in DOMAIN at
        BY <1>0, <4>1 DEF Tree
      <4> QED
        BY <1>1, <1>2, <4>2 DEF Elsewhere
    <3> QED
      BY <3>1, <3>2
  <2>4. ASSUME NEW q \in Nat, Pos(0, q) \in DOMAIN at2 PROVE KernelHeap <= q
    BY <1>0, <1>1, <2>4 DEF Elsewhere, Tree
  <2> QED
    BY <2>1, <2>2, <2>3, <2>4 DEF Tree
<1>7. Leaves(at2, d2, b2)
  <2>1. ASSUME NEW q \in Nat, q \in 1 .. d2 - 1 \/ q \in KernelHeap .. b2 - 1,
               q # v
        PROVE  Pos(1, q \div FANOUT) \in DOMAIN at2
    <3>1. CASE q < KernelHeap
      <4>1. q \in 1 .. d2 - 1
        BY <2>1, <3>1, HeapFacts
      <4>2. q \in 1 .. d - 1
        BY <2>1, <3>1, <4>1 DEF Agree
      <4> QED
        BY <1>0, <1>1, <1>2, <4>2 DEF Leaves, Elsewhere
    <3>2. CASE KernelHeap <= q /\ q < b2
      <4>1. q \in KernelHeap .. b - 1
        BY <1>0, <2>1, <3>2, HeapFacts DEF Agree
      <4> QED
        BY <1>0, <1>1, <1>2, <4>1 DEF Leaves, Elsewhere
    <3> QED
      BY <2>1, <3>1, <3>2, HeapFacts
  <2> QED
    BY <1>3, <2>1 DEF Leaves
<1>8. ASSUME NEW l \in 0 .. LEVELS - 1, NEW q \in Nat,
             Pos(l + 1, q \div FANOUT) \in DOMAIN at2, ~(l = 0 /\ q = v)
      PROVE  EntryRight(Entry(y, at2, l, q), at2, l, q, d2, b2, Z2)
  <2>1. ~(l + 1 = 0 /\ q \div FANOUT = v)
    BY <1>1
  <2>2. Pos(l + 1, q \div FANOUT) \in DOMAIN at
    BY <1>1, <1>2, <1>8, <2>1 DEF Elsewhere
  <2>3. /\ at2[Pos(l + 1, q \div FANOUT)] = at[Pos(l + 1, q \div FANOUT)]
        /\ z.mem[at[Pos(l + 1, q \div FANOUT)]]
              = x.mem[at[Pos(l + 1, q \div FANOUT)]]
    BY <1>1, <1>2, <2>1, <2>2 DEF Elsewhere
  <2>4. Entry(y, at2, l, q) = Entry(x, at, l, q)
    <3>1. Entry(y, at2, l, q) = Entry(z, at2, l, q)
      BY <1>4, <1>8
    <3> QED
      BY <2>3, <3>1 DEF Entry
  <2>5. EntryRight(Entry(x, at, l, q), at, l, q, d, b, Z)
    BY <1>0, <2>2 DEF Filed
  <2>6. /\ Pos(l, q) \in DOMAIN at <=> Pos(l, q) \in DOMAIN at2
        /\ Pos(l, q) \in DOMAIN at => at2[Pos(l, q)] = at[Pos(l, q)]
    BY <1>1, <1>8 DEF Elsewhere
  <2>7. CASE l = 0 /\ q < KernelHeap
    <3>1. q \in 1 .. d - 1 <=> q \in 1 .. d2 - 1
      BY <1>8, <2>7 DEF Agree
    <3> QED
      BY <2>4, <2>5, <2>7, <3>1 DEF EntryRight
  <2>8. CASE l # 0
    BY <2>4, <2>5, <2>6, <2>8 DEF EntryRight
  <2>9. CASE l = 0 /\ ~(q < KernelHeap)
    <3>1. (q < b <=> q < b2) /\ (q \in Z => q \in Z2)
      BY <1>8, <2>9, HeapFacts DEF Agree
    <3> QED
      BY <2>4, <2>5, <2>6, <2>9, <3>1 DEF EntryRight
  <2> QED
    BY <2>7, <2>8, <2>9
<1>9. Filed(y, at2, d2, b2, Z2)
  <2>1. Entry(y, at2, 0, v) = e
    BY <1>1, <1>3, <1>4
  <2>2. ASSUME NEW l \in 0 .. LEVELS - 1, NEW q \in Nat,
               Pos(l + 1, q \div FANOUT) \in DOMAIN at2
        PROVE  EntryRight(Entry(y, at2, l, q), at2, l, q, d2, b2, Z2)
    BY <1>8, <2>1, <2>2
  <2> QED
    BY <2>2 DEF Filed
<1>10. ASSUME NEW q \in Nat, Pos(0, q) \in DOMAIN at2
       PROVE  y.mem[at2[Pos(0, q)]] = z.mem[at2[Pos(0, q)]]
  <2>1. Pos(0, q) # Pos(1, v \div FANOUT)
    BY PosEqual
  <2>2. at2[Pos(0, q)] # at2[Pos(1, v \div FANOUT)]
    BY <1>3, <1>10, <2>1 DEF Owned
  <2>3. at2[Pos(0, q)] \in Frame
    BY <1>10, NodeFrame
  <2> QED
    BY <1>4, <2>2, <2>3
<1>11. d2 \in Nat
  BY HeapFacts
<1> QED
  BY <1>4, <1>5, <1>6, <1>7, <1>9, <1>10, <1>11 DEF Good

\* The entry that a walk has found is the one of the page.
LEMMA FoundEntry ==
    ASSUME NEW x, NEW root, NEW at, NEW hand, NEW d, NEW b, NEW Z,
           Good(x, root, at, hand, d, b, Z), NEW v \in Nat,
           Pos(1, v \div FANOUT) \in DOMAIN at, NEW w,
           w = [m |-> x, table |-> at[Pos(1, v \div FANOUT)], found |-> TRUE]
    PROVE  /\ EntryOf(w, v) = Entry(x, at, 0, v) /\ EntryOf(w, v) \in Entries
           /\ EntryRight(EntryOf(w, v), at, 0, v, d, b, Z)
           /\ Index(v, 0) = v % FANOUT
<1>1. 0 \in 0 .. LEVELS - 1 /\ 0 + 1 = 1
  BY Sizes
<1>2. Index(v, 0) = v % FANOUT
  BY <1>1, Places
<1>3. EntryOf(w, v) = Entry(x, at, 0, v)
  BY <1>1, <1>2 DEF EntryOf, Entry
<1>4. EntryRight(Entry(x, at, 0, v), at, 0, v, d, b, Z)
  BY <1>1 DEF Good, Filed
<1>5. Entry(x, at, 0, v) \in Entries
  <2>1. at[Pos(1, v \div FANOUT)] \in Frame /\ v % FANOUT \in Slot
    BY NodeFrame, Digits DEF Good
  <2>2. x.mem \in [Frame -> [Slot -> Entries]]
    BY DEF Good, Typed, Memory
  <2> QED
    BY <1>1, <2>1, <2>2 DEF Entry
<1> QED
  BY <1>2, <1>3, <1>4, <1>5

\* The walk over pages has come to page v; c is the bound that it leaves.
Marked(name, x, root, at, v, c, Z) ==
    IF name = "direct_map" THEN Good(x, root, at, NoFrame, v, c, Z)
    ELSE Good(x, root, at, NoFrame, c, v, Z)

\* The pages each of the two walks is for.
Ranges(name, v) ==
    IF name = "direct_map" THEN 1 <= v /\ v < KernelHeap
    ELSE KernelHeap <= v

\* The entry that mark_available_callback leaves.
SetAvail(e) == [e EXCEPT !.avail = TRUE]

\* direct_map_callback maps page v to frame v.
LEMMA DirectMapped ==
    ASSUME NEW x, NEW root, NEW at, NEW v \in Nat, NEW b, NEW Z,
           Good(x, root, at, NoFrame, v, b, Z),
           1 <= v, v < KernelHeap, Pos(1, v \div FANOUT) \in DOMAIN at, NEW w,
           w = [m |-> x, table |-> at[Pos(1, v \div FANOUT)], found |-> TRUE]
    PROVE  /\ Good(direct_map_callback(w, v), root, at, NoFrame, v + 1, b, Z)
           /\ Keeps(x, at, direct_map_callback(w, v), at)
<1> DEFINE e == EntryOf(w, v)
           y == direct_map_callback(w, v)
<1>1. /\ e \in Entries /\ EntryRight(e, at, 0, v, v, b, Z)
      /\ Index(v, 0) = v % FANOUT
  BY FoundEntry
<1>2. Typed(x) /\ Owned(x, at, NoFrame) /\ FreeList(x, at) /\ b \in Nat
  BY DEF Good
<1>3. y = SetWord(x, at[Pos(1, v \div FANOUT)], v % FANOUT, Filling(e, v))
  BY <1>1, <1>2 DEF direct_map_callback, SetEntry, SetWord, Filling, Typed
<1> HIDE DEF e, y
<1>4. /\ Filling(e, v) \in Entries /\ Filling(e, v).present
      /\ Filling(e, v).addr = v /\ Filling(e, v).avail = e.avail
  BY <1>1, FillingType
<1>5. EntryRight(Filling(e, v), at, 0, v, v + 1, b, Z)
  BY <1>1, <1>4, HeapFacts DEF EntryRight
<1>6. Agree(v, b, Z, v + 1, b, Z, v)
  BY HeapFacts DEF Agree
<1>7. Elsewhere(x, at, x, at, v)
  BY DEF Elsewhere
<1>8. Pos(0, v) \in DOMAIN at => KernelHeap <= v
  BY DEF Good, Tree
<1>9. v + 1 \in 0 .. KernelHeap
  BY HeapFacts
<1>10. /\ Good(y, root, at, NoFrame, v + 1, b, Z)
       /\ \A q \in Nat : Pos(0, q) \in DOMAIN at =>
             y.mem[at[Pos(0, q)]] = x.mem[at[Pos(0, q)]]
  <2>1. PICK u \in 0 .. KernelHeap : u = v + 1
    BY <1>9
  <2>2. /\ Agree(v, b, Z, u, b, Z, v)
        /\ EntryRight(Filling(e, v), at, 0, v, u, b, Z)
    BY <1>5, <1>6, <2>1
  <2>3. /\ Good(y, root, at, NoFrame, u, b, Z)
        /\ \A q \in Nat : Pos(0, q) \in DOMAIN at =>
              y.mem[at[Pos(0, q)]] = x.mem[at[Pos(0, q)]]
    BY <1>2, <1>3, <1>4, <1>7, <1>8, <2>2, Rewritten
  <2> QED
    BY <2>1, <2>3
<1> QED
  BY <1>10 DEF y, Keeps

\* mark_available_callback makes page v one that a fault may map.
LEMMA MarkedAvailable ==
    ASSUME NEW x, NEW root, NEW at, NEW v \in Nat, NEW d \in 0 .. KernelHeap,
           NEW Z, Good(x, root, at, NoFrame, d, v, Z),
           KernelHeap <= v, Pos(1, v \div FANOUT) \in DOMAIN at, NEW w,
           w = [m |-> x, table |-> at[Pos(1, v \div FANOUT)], found |-> TRUE]
    PROVE  /\ Good(mark_available_callback(w, v), root, at, NoFrame,
                   d, v + 1, Z)
           /\ Keeps(x, at, mark_available_callback(w, v), at)
<1> DEFINE e == EntryOf(w, v)
           y == mark_available_callback(w, v)
<1>1. /\ e \in Entries /\ EntryRight(e, at, 0, v, d, v, Z)
      /\ Index(v, 0) = v % FANOUT
  BY FoundEntry
<1>2. Typed(x) /\ Owned(x, at, NoFrame) /\ FreeList(x, at)
  BY DEF Good
<1>3. y = SetWord(x, at[Pos(1, v \div FANOUT)], v % FANOUT, SetAvail(e))
  BY <1>1, <1>2 DEF mark_available_callback, SetEntry, SetWord, SetAvail, Typed
<1> HIDE DEF e, y
<1>4. /\ SetAvail(e) \in Entries /\ SetAvail(e).present = e.present
      /\ SetAvail(e).addr = e.addr /\ SetAvail(e).avail
  BY <1>1 DEF SetAvail, Entries
<1>5. EntryRight(SetAvail(e), at, 0, v, d, v + 1, Z)
  BY <1>1, <1>4, HeapFacts DEF EntryRight
<1>6. Agree(d, v, Z, d, v + 1, Z, v)
  BY HeapFacts DEF Agree
<1>7. Elsewhere(x, at, x, at, v)
  BY DEF Elsewhere
<1>8. /\ Good(y, root, at, NoFrame, d, v + 1, Z)
      /\ \A q \in Nat : Pos(0, q) \in DOMAIN at =>
            y.mem[at[Pos(0, q)]] = x.mem[at[Pos(0, q)]]
  <2>1. PICK u \in Nat : u = v + 1
    OBVIOUS
  <2>2. /\ Agree(d, v, Z, d, u, Z, v)
        /\ EntryRight(SetAvail(e), at, 0, v, d, u, Z)
    BY <1>5, <1>6, <2>1
  <2>3. /\ Good(y, root, at, NoFrame, d, u, Z)
        /\ \A q \in Nat : Pos(0, q) \in DOMAIN at =>
              y.mem[at[Pos(0, q)]] = x.mem[at[Pos(0, q)]]
    BY <1>2, <1>3, <1>4, <1>7, <2>2, Rewritten
  <2> QED
    BY <2>1, <2>3
<1> QED
  BY <1>8 DEF y, Keeps

-----------------------------------------------------------------------------
(* page_table_walk.                                                        *)

\* The walk over pages stands at page v, or has stopped for want of memory.
WalkedTo(name, y, x, root, at, v, c, Z) ==
    \/ y.halted /\ Full(y)
    \/ \E at2 : Marked(name, y, root, at2, v, c, Z) /\ Keeps(x, at, y, at2)

\* One page of page_table_walk, the entry and the callback.
LEMMA WalkStep ==
    ASSUME NEW name \in {"direct_map", "available"}, NEW x, NEW root, NEW at,
           NEW v \in Nat, v < Span[LEVELS], NEW c \in 0 .. KernelHeap, NEW Z,
           Ranges(name, v), Marked(name, x, root, at, v, c, Z)
    PROVE  WalkedTo(name,
                    Callback(name, page_table_get_entry(x, root, v, TRUE), v),
                    x, root, at, v + 1, c, Z)
<1> DEFINE w == page_table_get_entry(x, root, v, TRUE)
           y == Callback(name, w, v)
           d == IF name = "direct_map" THEN v ELSE c
           b == IF name = "direct_map" THEN c ELSE v
<1>1. Good(x, root, at, NoFrame, d, b, Z)
  BY DEF Marked
<1> HIDE DEF w, d, b
<1>2. Reached(w, x, at, root, d, b, Z, 1, v \div FANOUT)
  BY <1>1, Fetch DEF w
<1>3. ASSUME w.m.halted, Full(w.m)
      PROVE  WalkedTo(name, y, x, root, at, v + 1, c, Z)
  <2>1. y = w.m
    BY <1>3 DEF Callback, direct_map_callback, mark_available_callback, SetEntry
  <2> QED
    BY <1>3, <2>1 DEF WalkedTo
<1>4. ASSUME NEW z, NEW at2,
             w = [m |-> z, table |-> at2[Pos(1, v \div FANOUT)],
                  found |-> TRUE],
             Pos(1, v \div FANOUT) \in DOMAIN at2,
             Good(z, root, at2, NoFrame, d, b, Z), Keeps(x, at, z, at2)
      PROVE  WalkedTo(name, y, x, root, at, v + 1, c, Z)
  <2>1. CASE name = "direct_map"
    <3>1. y = direct_map_callback(w, v)
      BY <2>1 DEF Callback
    <3>2. d = v /\ b = c /\ 1 <= v /\ v < KernelHeap
      BY <2>1 DEF d, b, Ranges
    <3> HIDE DEF y
    <3>3. Good(y, root, at2, NoFrame, v + 1, c, Z) /\ Keeps(z, at2, y, at2)
      BY <1>4, <3>1, <3>2, DirectMapped
    <3>4. Keeps(x, at, y, at2)
      BY <1>4, <3>3, KeepsChain
    <3> QED
      BY <2>1, <3>3, <3>4 DEF WalkedTo, Marked
  <2>2. CASE name # "direct_map"
    <3>1. y = mark_available_callback(w, v)
      BY <2>2 DEF Callback
    <3>2. d = c /\ b = v /\ KernelHeap <= v
      BY <2>2 DEF d, b, Ranges
    <3> HIDE DEF y
    <3>3. Good(y, root, at2, NoFrame, c, v + 1, Z) /\ Keeps(z, at2, y, at2)
      BY <1>4, <3>1, <3>2, MarkedAvailable
    <3>4. Keeps(x, at, y, at2)
      BY <1>4, <3>3, KeepsChain
    <3> QED
      BY <2>2, <3>3, <3>4 DEF WalkedTo, Marked
  <2> QED
    BY <2>1, <2>2
<1> HIDE DEF y
<1>5. WalkedTo(name, y, x, root, at, v + 1, c, Z)
  BY <1>2, <1>3, <1>4 DEF Reached
<1> QED
  BY <1>5 DEF y, w

\* page_table_walk marks all pages from start to end, or stops.
LEMMA WalkedPages ==
    ASSUME NEW name \in {"direct_map", "available"}, NEW x, NEW root, NEW at,
           NEW start \in Nat, NEW end \in Nat, start <= end,
           end <= Span[LEVELS], NEW c \in 0 .. KernelHeap, NEW Z,
           \A v \in start .. end - 1 : Ranges(name, v),
           Marked(name, x, root, at, start, c, Z)
    PROVE  WalkedTo(name, page_table_walk(x, root, start, end, name),
                    x, root, at, end, c, Z)
<1>0. PICK f : WalkedOver(x, root, start, end, name, f)
  BY WalkPages
<1>1. /\ f[start] = x
      /\ \A v \in start .. end - 1 :
            f[v + 1] = Callback(name,
                page_table_get_entry(f[v], root, v, TRUE), v)
      /\ page_table_walk(x, root, start, end, name) = f[end]
  BY <1>0 DEF WalkedOver
<1> DEFINE P == {v \in start .. end :
                    WalkedTo(name, f[v], x, root, at, v, c, Z)}
<1>2. start \in P
  <2>1. Keeps(x, at, x, at)
    BY DEF Keeps
  <2>2. WalkedTo(name, f[start], x, root, at, start, c, Z)
    BY <1>1, <2>1 DEF WalkedTo
  <2> QED
    BY <2>2
<1>3. ASSUME NEW n \in start + 1 .. end, n - 1 \in P PROVE n \in P
  <2>1. PICK v \in start .. end - 1 : v = n - 1
    OBVIOUS
  <2>2. n = v + 1 /\ v \in Nat /\ v < Span[LEVELS] /\ n \in start .. end
    BY <2>1, HeapFacts
  <2>3. f[n] = Callback(name, page_table_get_entry(f[v], root, v, TRUE), v)
    BY <1>1, <2>2
  <2>4. WalkedTo(name, f[v], x, root, at, v, c, Z)
    BY <1>3, <2>1
  <2>5. CASE f[v].halted /\ Full(f[v])
    <3>1. page_table_get_entry(f[v], root, v, TRUE).m = f[v]
      BY <2>5, StoppedWalk
    <3>2. f[n] = f[v]
      BY <2>3, <2>5, <3>1
         DEF Callback, direct_map_callback, mark_available_callback, SetEntry
    <3>3. WalkedTo(name, f[n], x, root, at, n, c, Z)
      BY <2>5, <3>2 DEF WalkedTo
    <3> QED
      BY <2>2, <3>3
  <2>6. ASSUME NEW at2, Marked(name, f[v], root, at2, v, c, Z),
               Keeps(x, at, f[v], at2)
        PROVE  n \in P
    <3>1. Ranges(name, v)
      OBVIOUS
    <3>2. WalkedTo(name, f[n], f[v], root, at2, v + 1, c, Z)
      BY <2>2, <2>3, <2>6, <3>1, WalkStep
    <3>3. WalkedTo(name, f[n], x, root, at, n, c, Z)
      BY <2>2, <2>6, <3>2, KeepsChain DEF WalkedTo
    <3> QED
      BY <2>2, <3>3
  <2> HIDE DEF P
  <2> QED
    BY <2>4, <2>5, <2>6 DEF WalkedTo
<1> HIDE DEF P
<1>4. start .. end \subseteq P
  BY <1>2, <1>3, Ascend
<1>5. end \in start .. end
  OBVIOUS
<1> QED
  BY <1>1, <1>4, <1>5 DEF P

-----------------------------------------------------------------------------
(* init_page_table and MMU_alloc_pages.                                    *)

\* The first frame becomes the root of an empty tree.
LEMMA RootBuilt ==
    ASSUME NEW x, Blank(x)
    PROVE  LET root == MMU_pf_alloc(x)
           IN  /\ root.addr # NoFrame
               /\ \E at : /\ Good(SetFrame(root.m, root.addr, NewTable),
                                  root.addr, at, NoFrame, 1, KernelHeap, {})
                          /\ \A q \in Nat : Pos(0, q) \notin DOMAIN at
<1> DEFINE at == [n \in {} |-> NoFrame]
           new == MMU_pf_alloc(x)
<1>1. /\ x \in Memory /\ ~x.halted /\ x.free_list = NoFrame
      /\ \A r \in 1 .. Len(Regions) : x.next[r] = Regions[r].start
  BY DEF Blank
<1>2. Typed(x)
  BY <1>1, RegionFacts DEF Typed
<1>3. DOMAIN at = {}
  OBVIOUS
<1> HIDE DEF at, new
<1>4. Owned(x, at, NoFrame)
  <2>1. UsableFrames \subseteq FreshOf(x)
    BY <1>1, <1>2, FreshFacts, UsableFacts
  <2> QED
    BY <1>3, <2>1 DEF Owned
<1>5. FreeList(x, at)
  <2>1. Linked(x, at, 0)
    BY <1>1, <1>3 DEF Linked
  <2> QED
    BY <2>1 DEF FreeList
<1>6. /\ Typed(new.m) /\ new.m.mem = x.mem /\ Owned(new.m, at, new.addr)
      /\ FreeList(new.m, at) /\ new.addr # NoFrame
  <2>1. 1 \in 1 .. Len(Regions)
    BY RegionFacts
  <2>2. HasNext(x, 1)
    BY <1>1, <2>1, RegionFacts DEF HasNext
  <2> QED
    BY <1>1, <1>2, <1>4, <1>5, <2>1, <2>2, AllocFresh DEF new
<1> DEFINE f == new.addr
           z == SetFrame(new.m, f, NewTable)
           at2 == Extend(at, Pos(LEVELS, 0), f)
<1>7. f \in Frame
  BY <1>6, UsableFacts DEF Owned
<1> HIDE DEF f, z
<1>8. /\ Typed(z) /\ FreshOf(z) = FreshOf(new.m) /\ FreeList(z, at)
      /\ z.mem[f] = NewTable
  <2>1. NewTable \in [Slot -> Entries]
    BY BlankTable
  <2>2. \A i \in Nat : Pos(-1, i) \in DOMAIN at => at[Pos(-1, i)] # f
    BY <1>3
  <2> QED
    BY <1>6, <1>7, <2>1, <2>2, FrameChange DEF z
<1>9. Owned(z, at, f)
  BY <1>6, <1>8 DEF Owned, f
<1>10. Pos(LEVELS, 0) \in Node /\ LEVELS \in 0 .. LEVELS
  <2>1. LEVELS \in -1 .. LEVELS /\ 0 \in Nat /\ LEVELS \in 0 .. LEVELS
    BY Sizes
  <2> QED
    BY <2>1, PosEqual
<1>11. Owned(z, at2, NoFrame)
  BY <1>3, <1>6, <1>9, <1>10, Adopt DEF f
<1>12. FreeList(z, at2)
  BY <1>8, <1>10, ListExtended
<1>13. /\ \A l, q : Pos(l, q) \in DOMAIN at2 <=> l = LEVELS /\ q = 0
       /\ at2[Pos(LEVELS, 0)] = f
  BY <1>3, ExtendFacts
<1> HIDE DEF at2
<1>14. Tree(at2, f)
  <2>1. \A l \in 0 .. LEVELS - 1 : l # LEVELS
    BY Sizes
  <2>2. 0 # LEVELS
    BY Sizes
  <2> QED
    BY <1>13, <2>1, <2>2 DEF Tree
<1>15. Leaves(at2, 1, KernelHeap)
  <2>1. \A v \in Nat : /\ ~(v \in 1 .. 1 - 1)
                       /\ ~(v \in KernelHeap .. KernelHeap - 1)
    BY HeapFacts
  <2> QED
    BY <2>1 DEF Leaves
<1>16. Filed(z, at2, 1, KernelHeap, {})
  <2>1. ASSUME NEW l \in 0 .. LEVELS - 1, NEW q \in Nat,
               Pos(l + 1, q \div FANOUT) \in DOMAIN at2
        PROVE  EntryRight(Entry(z, at2, l, q), at2, l, q, 1, KernelHeap, {})
    <3>1. l # 0 /\ l # LEVELS /\ q % FANOUT \in Slot
      BY <1>13, <2>1, Digits, Sizes
    <3>2. Entry(z, at2, l, q) = NewTable[q % FANOUT]
      BY <1>8, <1>13, <2>1 DEF Entry
    <3>3. ~NewTable[q % FANOUT].present
      BY <3>1, BlankTable
    <3>4. Pos(l, q) \notin DOMAIN at2
      BY <1>13, <3>1
    <3> QED
      BY <3>1, <3>2, <3>3, <3>4 DEF EntryRight
  <2> QED
    BY <2>1 DEF Filed
<1>17. Good(z, f, at2, NoFrame, 1, KernelHeap, {})
  BY <1>8, <1>11, <1>12, <1>14, <1>15, <1>16, HeapFacts DEF Good
<1>18. \A q \in Nat : Pos(0, q) \notin DOMAIN at2
  BY <1>13, Sizes
<1> QED
  BY <1>6, <1>17, <1>18 DEF f, z, new

\* init_page_table builds the root and the direct map.
LEMMA InitStep ==
    ASSUME PageInv, init_page_table
    PROVE  PageInv'
<1> DEFINE root == MMU_pf_alloc(phys)
           z == SetFrame(root.m, root.addr, NewTable)
<1>1. /\ Blank(phys) /\ page_brk = KernelHeap /\ tlb = << >>
      /\ allocs = {} /\ used = {}
  BY DEF PageInv, init_page_table
<1>2. /\ pml4' = root.addr
      /\ phys' = page_table_walk(z, root.addr, 1, MemEnd, "direct_map")
      /\ page_brk' = page_brk /\ tlb' = tlb /\ allocs' = allocs
      /\ used' = used /\ untouched' = untouched
  BY DEF init_page_table, SetFrame
<1>3. /\ root.addr # NoFrame
      /\ \E at : /\ Good(z, root.addr, at, NoFrame, 1, KernelHeap, {})
                 /\ \A q \in Nat : Pos(0, q) \notin DOMAIN at
  BY <1>1, RootBuilt
<1> HIDE DEF root, z
<1>4. PICK at : /\ Good(z, root.addr, at, NoFrame, 1, KernelHeap, {})
                /\ \A q \in Nat : Pos(0, q) \notin DOMAIN at
  BY <1>3
<1>5. WalkedTo("direct_map", phys', z, root.addr, at, MemEnd, KernelHeap, {})
  <2>1. Marked("direct_map", z, root.addr, at, 1, KernelHeap, {})
    BY <1>4 DEF Marked
  <2>2. /\ 1 \in Nat /\ MemEnd \in Nat /\ 1 <= MemEnd
        /\ MemEnd <= Span[LEVELS] /\ KernelHeap \in 0 .. KernelHeap
    BY RegionFacts, HeapFacts, Sizes
  <2>3. \A v \in 1 .. MemEnd - 1 : Ranges("direct_map", v)
    BY RegionFacts, HeapFacts DEF Ranges
  <2>4. PICK name \in {"direct_map", "available"} : name = "direct_map"
    OBVIOUS
  <2>5. WalkedTo(name, page_table_walk(z, root.addr, 1, MemEnd, name),
                 z, root.addr, at, MemEnd, KernelHeap, {})
    BY <2>1, <2>2, <2>3, <2>4, WalkedPages
  <2> QED
    BY <1>2, <2>4, <2>5
<1>6. untouched' \in BOOLEAN
  BY <1>2 DEF PageInv
<1>7. CASE phys'.halted /\ Full(phys')
  BY <1>2, <1>3, <1>6, <1>7 DEF PageInv, Running, Full, FreshOf
<1>8. ASSUME NEW at2,
             Good(phys', root.addr, at2, NoFrame, MemEnd, KernelHeap, {}),
             Keeps(z, at, phys', at2)
      PROVE  PageInv'
  <2>1. ~phys'.halted
    BY <1>8 DEF Good, Typed
  <2>2. Pages(at2, {})
    BY <1>4, <1>8 DEF Pages, Keeps
  <2>3. HeldRight'
    BY <1>1, <1>2, HeapFacts, Sizes DEF HeldRight, HeldPages
  <2>4. Contents(phys', at2, {})
    BY DEF Contents
  <2>5. Cached(at2, {})'
    BY <1>1, <1>2 DEF Cached
  <2>6. HeldPages' = {}
    BY <1>1, <1>2 DEF HeldPages
  <2> QED
    BY <1>1, <1>2, <1>3, <1>6, <1>8, <2>1, <2>2, <2>3, <2>4, <2>5, <2>6
       DEF PageInv
<1> QED
  BY <1>5, <1>7, <1>8 DEF WalkedTo, Marked

\* The pages that callers hold, in the terms the proofs use.
LEMMA HeldFacts ==
    ASSUME HeldRight
    PROVE  /\ \A a \in allocs : /\ a.base \in Nat /\ a.num \in Nat
                                /\ PagesHeld(a) \subseteq HeldPages
           /\ HeldPages \subseteq KernelHeap .. page_brk - 1
           /\ used \subseteq HeldPages
           /\ \A v \in HeldPages : /\ v \in Nat /\ KernelHeap <= v
                                   /\ v < page_brk /\ v < Span[LEVELS]
<1>1. \A a \in allocs : a.base \in Nat /\ a.num \in Nat
  BY DEF HeldRight
<1>2. ASSUME NEW a \in allocs, NEW v \in PagesHeld(a)
      PROVE  v \in KernelHeap .. page_brk - 1
  BY <1>1, <1>2, HeapFacts DEF HeldRight, PagesHeld
<1>3. HeldPages \subseteq KernelHeap .. page_brk - 1
  BY <1>2 DEF HeldPages
<1>4. \A a \in allocs : PagesHeld(a) \subseteq HeldPages
  BY DEF HeldPages
<1>5. ASSUME NEW v \in HeldPages
      PROVE  v \in Nat /\ KernelHeap <= v /\ v < page_brk /\ v < Span[LEVELS]
  <2>1. v \in KernelHeap .. page_brk - 1
    BY <1>3
  <2>2. page_brk \in Nat /\ page_brk <= KernelHeap + MaxHeap
    BY DEF HeldRight
  <2> QED
    BY <2>1, <2>2, HeapFacts, Sizes
<1> QED
  BY <1>1, <1>3, <1>4, <1>5 DEF HeldRight

\* MMU_alloc_pages marks the pages behind brk.
LEMMA AllocStep ==
    ASSUME PageInv, NEW num \in PageSizes, MMU_alloc_pages(num)
    PROVE  PageInv'
<1>1. /\ Running /\ page_brk + num <= KernelHeap + MaxHeap
      /\ phys' = page_table_walk(phys, pml4, page_brk, page_brk + num,
                                 "available")
      /\ page_brk' = page_brk + num
      /\ allocs' = allocs \cup {[base |-> page_brk, num |-> num]}
      /\ pml4' = pml4 /\ tlb' = tlb /\ used' = used /\ untouched' = untouched
  BY DEF MMU_alloc_pages
<1>2. /\ HeldRight
      /\ \E at, Z : /\ Good(phys, pml4, at, NoFrame, MemEnd, page_brk, Z)
                    /\ Pages(at, used) /\ Contents(phys, at, used)
                    /\ Cached(at, Z)
                    /\ Z \cap HeldPages = {}
                    /\ Z \subseteq KernelHeap .. page_brk - 1
  BY <1>1 DEF PageInv
<1>3. PICK at, Z : /\ Good(phys, pml4, at, NoFrame, MemEnd, page_brk, Z)
                   /\ Pages(at, used) /\ Contents(phys, at, used)
                   /\ Cached(at, Z)
                   /\ Z \cap HeldPages = {}
                   /\ Z \subseteq KernelHeap .. page_brk - 1
  BY <1>2
<1>4. /\ num \in Nat \ {0} /\ page_brk \in Nat /\ KernelHeap <= page_brk
      /\ KernelHeap \in Nat /\ page_brk + num \in Nat
      /\ page_brk + num <= Span[LEVELS]
  <2>1. num \in Nat \ {0}
    BY PageAllocAssumption
  <2> QED
    BY <1>1, <1>2, <2>1, HeapFacts, Sizes DEF HeldRight
<1>5. WalkedTo("available", phys', phys, pml4, at, page_brk + num, MemEnd, Z)
  <2>1. PICK name \in {"direct_map", "available"} : name = "available"
    OBVIOUS
  <2>2. Marked(name, phys, pml4, at, page_brk, MemEnd, Z)
    BY <1>3, <2>1 DEF Marked
  <2>3. MemEnd \in 0 .. KernelHeap
    BY RegionFacts, HeapFacts
  <2>4. \A v \in page_brk .. (page_brk + num) - 1 : Ranges(name, v)
    BY <1>4, <2>1, HeapFacts DEF Ranges
  <2>5. page_brk <= page_brk + num
    BY <1>4
  <2>6. WalkedTo(name, page_table_walk(phys, pml4, page_brk, page_brk + num,
                                       name),
                 phys, pml4, at, page_brk + num, MemEnd, Z)
    BY <1>4, <2>2, <2>3, <2>4, <2>5, WalkedPages
  <2> QED
    BY <1>1, <2>1, <2>6
<1>6. untouched' \in BOOLEAN
  BY <1>1 DEF PageInv
<1>7. CASE phys'.halted /\ Full(phys')
  BY <1>1, <1>6, <1>7 DEF PageInv, Running, Full, FreshOf
<1>8. ASSUME NEW at2,
             Good(phys', pml4, at2, NoFrame, MemEnd, page_brk + num, Z),
             Keeps(phys, at, phys', at2)
      PROVE  PageInv'
  <2>1. ~phys'.halted
    BY <1>8 DEF Good, Typed
  <2>2. used \subseteq Nat /\ HeldPages \subseteq KernelHeap .. page_brk - 1
    BY <1>2, HeldFacts
  <2>3. Pages(at2, used)
    BY <1>3, <1>8 DEF Pages, Keeps
  <2>4. Contents(phys', at2, used)
    BY <1>3, <1>8, <2>2 DEF Pages, Keeps, Contents
  <2>5. Cached(at2, Z)'
    BY <1>1, <1>3, <1>8, <2>2 DEF Cached, Pages, Keeps
  <2> DEFINE new == [base |-> page_brk, num |-> num]
  <2>6. PagesHeld(new) = page_brk .. (page_brk + num) - 1
    <3>1. new.base = page_brk /\ new.num = num
      OBVIOUS
    <3> HIDE DEF new
    <3> QED
      BY <1>4, <3>1 DEF PagesHeld
  <2>7. HeldPages' = HeldPages \cup PagesHeld(new)
    BY <1>1 DEF HeldPages
  <2>8. HeldRight'
    <3>1. allocs' \subseteq [base : Nat, num : Nat]
      BY <1>1, <1>2, <1>4 DEF HeldRight
    <3>2. new.base = page_brk /\ new.num = num
      OBVIOUS
    <3> HIDE DEF new
    <3>3. ASSUME NEW a \in allocs'
          PROVE  KernelHeap <= a.base /\ a.base + a.num <= page_brk'
      <4>1. CASE a = new
        BY <1>1, <1>4, <3>2, <4>1
      <4>2. CASE a \in allocs
        <5>1. /\ a.base \in Nat /\ a.num \in Nat /\ KernelHeap <= a.base
              /\ a.base + a.num <= page_brk
          BY <1>2, <4>2, HeldFacts DEF HeldRight
        <5> QED
          BY <1>1, <1>4, <5>1
      <4> QED
        BY <1>1, <4>1, <4>2 DEF new
    <3>4. ASSUME NEW a \in allocs PROVE PagesHeld(a) \cap PagesHeld(new) = {}
      <4>1. PagesHeld(a) \subseteq KernelHeap .. page_brk - 1
        BY <1>2, HeldFacts
      <4> QED
        BY <1>4, <2>6, <4>1
    <3>5. \A a, c \in allocs' : a # c => PagesHeld(a) \cap PagesHeld(c) = {}
      BY <1>1, <1>2, <3>4 DEF HeldRight, new
    <3>6. used' \subseteq HeldPages'
      BY <1>1, <1>2, <2>7 DEF HeldRight
    <3>7. /\ page_brk' \in Nat /\ KernelHeap <= page_brk'
          /\ page_brk' <= KernelHeap + MaxHeap
      BY <1>1, <1>4
    <3> QED
      BY <3>1, <3>3, <3>5, <3>6, <3>7 DEF HeldRight
  <2> HIDE DEF new
  <2>9. Z \cap HeldPages' = {}
    BY <1>3, <1>4, <2>6, <2>7
  <2>10. Z \subseteq KernelHeap .. page_brk' - 1
    BY <1>1, <1>3, <1>4
  <2> QED
    BY <1>1, <1>6, <1>8, <2>1, <2>3, <2>4, <2>5, <2>8, <2>9, <2>10
       DEF PageInv, Running
<1>9. "available" # "direct_map"
  OBVIOUS
<1> QED
  BY <1>5, <1>7, <1>8, <1>9 DEF WalkedTo, Marked

-----------------------------------------------------------------------------
(* Page faults.                                                            *)

\* What a page is mapped to.
LEMMA MappedFacts ==
    ASSUME NEW x, NEW at, NEW hand, NEW d, NEW b, NEW Z,
           Good(x, pml4, at, hand, d, b, Z), NEW v \in Nat, v < Span[LEVELS]
    PROVE  /\ Mapped(x, v) <=> IF v < KernelHeap THEN v \in 1 .. d - 1
                               ELSE Pos(0, v) \in DOMAIN at
           /\ Mapped(x, v) => EntryOf(Walk(x, v), v).addr =
                                 IF v < KernelHeap THEN v ELSE at[Pos(0, v)]
<1>1. Tree(at, pml4) /\ Leaves(at, d, b) /\ d \in Nat
  BY DEF Good
<1> DEFINE w == Walk(x, v)
<1>2. IF Pos(1, v \div FANOUT) \in DOMAIN at
      THEN w = [m |-> x, table |-> at[Pos(1, v \div FANOUT)], found |-> TRUE]
      ELSE \E t : w = [m |-> x, table |-> t, found |-> FALSE]
  <2>1. PICK allocate \in BOOLEAN : allocate = FALSE
    OBVIOUS
  <2>2. w = page_table_get_entry(x, pml4, v, allocate)
    BY <2>1 DEF Walk
  <2> HIDE DEF w
  <2> QED
    BY <2>1, <2>2, Lookup
<1> HIDE DEF w
<1>3. Mapped(x, v) <=> w.found /\ EntryOf(w, v).present
  BY DEF Mapped, w
<1>4. CASE Pos(1, v \div FANOUT) \notin DOMAIN at
  <2>1. ~w.found
    BY <1>2, <1>4
  <2>2. Pos(0, v) \notin DOMAIN at
    <3>1. 0 \in 0 .. LEVELS - 1 /\ 0 + 1 = 1
      BY Sizes
    <3> QED
      BY <1>1, <1>4, <3>1 DEF Tree
  <2>3. ~(v \in 1 .. d - 1)
    BY <1>1, <1>4 DEF Leaves
  <2> QED
    BY <1>3, <2>1, <2>2, <2>3
<1>5. CASE Pos(1, v \div FANOUT) \in DOMAIN at
  <2>1. w = [m |-> x, table |-> at[Pos(1, v \div FANOUT)], found |-> TRUE]
    BY <1>2, <1>5
  <2>2. EntryRight(EntryOf(w, v), at, 0, v, d, b, Z)
    BY <1>5, <2>1, FoundEntry
  <2>3. Mapped(x, v) <=> EntryOf(w, v).present
    BY <1>3, <2>1
  <2> QED
    BY <2>2, <2>3 DEF EntryRight, w
<1> QED
  BY <1>4, <1>5

\* Pages other than v keep their frames and their contents.
KeepsBut(x, at, y, at2, v) ==
    \A q \in Nat : q # v =>
       /\ Pos(0, q) \in DOMAIN at <=> Pos(0, q) \in DOMAIN at2
       /\ Pos(0, q) \in DOMAIN at =>
             /\ at2[Pos(0, q)] = at[Pos(0, q)]
             /\ y.mem[at[Pos(0, q)]] = x.mem[at[Pos(0, q)]]

\* page_fault_handler maps the page, or stops the kernel for want of memory.
LEMMA Faulted ==
    ASSUME NEW x, NEW at, NEW d \in 0 .. KernelHeap, NEW b, NEW Z,
           Good(x, pml4, at, NoFrame, d, b, Z),
           NEW v \in Nat, v < Span[LEVELS], KernelHeap <= v, v < b,
           Pos(0, v) \notin DOMAIN at
    PROVE  LET y == page_fault_handler(x, v)
           IN  \/ y.halted /\ Full(y)
               \/ \E at2 : /\ Good(y, pml4, at2, NoFrame, d, b, Z)
                           /\ Pos(0, v) \in DOMAIN at2
                           /\ KeepsBut(x, at, y, at2, v)
<1>1. /\ Typed(x) /\ Owned(x, at, NoFrame) /\ FreeList(x, at)
      /\ Tree(at, pml4) /\ Leaves(at, d, b) /\ b \in Nat
  BY DEF Good
<1>2. Pos(1, v \div FANOUT) \in DOMAIN at
  <2>1. v \in KernelHeap .. b - 1
    BY <1>1, HeapFacts
  <2> QED
    BY <1>1, <2>1 DEF Leaves
<1> DEFINE w == page_table_get_entry(x, pml4, v, FALSE)
           t == at[Pos(1, v \div FANOUT)]
           e == EntryOf(w, v)
           new == MMU_pf_alloc(x)
           y == page_fault_handler(x, v)
<1>3. w = [m |-> x, table |-> t, found |-> TRUE]
  <2>1. PICK allocate \in BOOLEAN : allocate = FALSE
    OBVIOUS
  <2>2. w = page_table_get_entry(x, pml4, v, allocate)
    BY <2>1
  <2> HIDE DEF w
  <2> QED
    BY <1>2, <2>1, <2>2, Lookup
<1>4. /\ e \in Entries /\ EntryRight(e, at, 0, v, d, b, Z)
      /\ Index(v, 0) = v % FANOUT
  <2> HIDE DEF w
  <2>1. w = [m |-> x, table |-> at[Pos(1, v \div FANOUT)], found |-> TRUE]
    BY <1>3
  <2>2. /\ EntryOf(w, v) \in Entries
        /\ EntryRight(EntryOf(w, v), at, 0, v, d, b, Z)
        /\ Index(v, 0) = v % FANOUT
    BY <1>2, <2>1, FoundEntry
  <2> QED
    BY <2>2
<1>5. e.avail
  <2>1. ~(v < KernelHeap)
    BY HeapFacts
  <2> HIDE DEF e
  <2> QED
    BY <1>4, <2>1 DEF EntryRight
<1>6. y = SetEntry([w EXCEPT !.m = new.m], v,
                   [e EXCEPT !.addr = new.addr, !.present = TRUE])
  <2>1. w.m = x /\ w.found
    <3> HIDE DEF w
    <3> QED
      BY <1>3
  <2> QED
    BY <1>5, <2>1 DEF page_fault_handler
<1> HIDE DEF w, e, new, y
<1>7. [w EXCEPT !.m = new.m] = [m |-> new.m, table |-> t, found |-> TRUE]
  <2>1. PICK g, u, r, h : /\ g = w /\ u = new.m /\ r = t
                          /\ h = [w EXCEPT !.m = new.m]
    OBVIOUS
  <2>2. g = [m |-> x, table |-> r, found |-> TRUE]
    BY <1>3, <2>1
  <2>3. h = [g EXCEPT !.m = u]
    BY <2>1
  <2>4. h = [m |-> u, table |-> r, found |-> TRUE]
    BY <2>2, <2>3
  <2> QED
    BY <2>1, <2>4
<1>8. [e EXCEPT !.addr = new.addr, !.present = TRUE] = Filling(e, new.addr)
  BY <1>4 DEF Filling, Entries
<1>9. y = IF new.m.halted THEN new.m
          ELSE SetWord(new.m, t, v % FANOUT, Filling(e, new.addr))
  BY <1>4, <1>6, <1>7, <1>8 DEF SetEntry, SetWord
<1>10. CASE new.m.halted /\ Full(new.m)
  BY <1>9, <1>10 DEF y
<1>11. ASSUME NEW at2, Typed(new.m), new.m.mem = x.mem,
              Owned(new.m, at2, new.addr), FreeList(new.m, at2),
              Same(at, at2), new.addr # NoFrame
       PROVE  \E at3 : /\ Good(y, pml4, at3, NoFrame, d, b, Z)
                       /\ Pos(0, v) \in DOMAIN at3
                       /\ KeepsBut(x, at, y, at3, v)
  <2> DEFINE f == new.addr
             at3 == Extend(at2, Pos(0, v), f)
  <2>1. y = SetWord(new.m, t, v % FANOUT, Filling(e, f))
    BY <1>9, <1>11 DEF Typed
  <2>2. f \in Nat /\ f # NoFrame
    BY <1>11, UsableFacts DEF Owned, Frame
  <2>3. 0 \in 0 .. LEVELS /\ Pos(0, v) \in Node
    BY PosEqual, Sizes
  <2>4. Pos(0, v) \notin DOMAIN at2
    BY <1>11, <2>3 DEF Same
  <2>5. Owned(new.m, at3, NoFrame) /\ FreeList(new.m, at3)
    BY <1>11, <2>2, <2>3, <2>4, Adopt, ListExtended
  <2>6. /\ \A l, q : Pos(l, q) \in DOMAIN at3
                        <=> Pos(l, q) \in DOMAIN at2 \/ (l = 0 /\ q = v)
        /\ \A l, q : Pos(l, q) \in DOMAIN at2 /\ ~(l = 0 /\ q = v)
                        => at3[Pos(l, q)] = at2[Pos(l, q)]
        /\ at3[Pos(0, v)] = f
    BY ExtendFacts
  <2> HIDE DEF f, at3
  <2>7. Elsewhere(x, at, new.m, at3, v)
    BY <1>11, <2>6 DEF Same, Elsewhere
  <2>8. /\ Filling(e, f) \in Entries /\ Filling(e, f).present
        /\ Filling(e, f).addr = f /\ Filling(e, f).avail = e.avail
    BY <1>4, <2>2, FillingType
  <2>9. EntryRight(Filling(e, f), at3, 0, v, d, b, Z)
    BY <1>5, <2>6, <2>8, HeapFacts DEF EntryRight
  <2>10. Agree(d, b, Z, d, b, Z, v)
    BY DEF Agree
  <2>11. /\ Good(y, pml4, at3, NoFrame, d, b, Z)
         /\ \A q \in Nat : Pos(0, q) \in DOMAIN at3 =>
               y.mem[at3[Pos(0, q)]] = new.m.mem[at3[Pos(0, q)]]
    BY <1>1, <1>2, <1>11, <2>1, <2>5, <2>7, <2>8, <2>9, <2>10, Rewritten DEF t
  <2>12. KeepsBut(x, at, y, at3, v)
    BY <2>3, <2>7, <2>11 DEF KeepsBut, Elsewhere
  <2>13. Pos(0, v) \in DOMAIN at3
    BY <2>6
  <2> QED
    BY <2>11, <2>12, <2>13
<1>12. \/ new.m.halted /\ Full(new.m)
       \/ \E at2 : /\ Typed(new.m) /\ new.m.mem = x.mem
                   /\ Owned(new.m, at2, new.addr)
                   /\ FreeList(new.m, at2) /\ Same(at, at2)
                   /\ new.addr # NoFrame
  BY <1>1, AllocFrame DEF new
<1> QED
  BY <1>10, <1>11, <1>12 DEF y

\* The frame of a page gets new contents.
LEMMA PageWritten ==
    ASSUME NEW x, NEW root, NEW at, NEW d, NEW b, NEW Z,
           Good(x, root, at, NoFrame, d, b, Z), NEW v \in Nat,
           Pos(0, v) \in DOMAIN at, NEW c \in [Slot -> Entries],
           NEW y, y = SetFrame(x, at[Pos(0, v)], c)
    PROVE  /\ Good(y, root, at, NoFrame, d, b, Z)
           /\ y.mem[at[Pos(0, v)]] = c /\ KeepsBut(x, at, y, at, v)
<1>1. /\ Typed(x) /\ Owned(x, at, NoFrame) /\ FreeList(x, at)
      /\ Tree(at, root) /\ Leaves(at, d, b) /\ Filed(x, at, d, b, Z)
      /\ d \in Nat /\ b \in Nat
  BY DEF Good
<1>2. PICK f \in Frame : f = at[Pos(0, v)]
  BY <1>1, NodeFrame
<1>3. ASSUME NEW l, NEW q, Pos(l, q) \in DOMAIN at, ~(l = 0 /\ q = v)
      PROVE  at[Pos(l, q)] # f /\ at[Pos(l, q)] \in Frame
  <2>1. Pos(l, q) # Pos(0, v)
    BY <1>3, PosEqual
  <2> QED
    BY <1>1, <1>2, <1>3, <2>1, NodeFrame DEF Owned
<1>4. /\ Typed(y) /\ FreshOf(y) = FreshOf(x) /\ FreeList(y, at)
      /\ y.mem[f] = c /\ \A g \in Frame : g # f => y.mem[g] = x.mem[g]
  <2>1. \A i \in Nat : Pos(-1, i) \in DOMAIN at => at[Pos(-1, i)] # f
    BY <1>3
  <2> QED
    BY <1>1, <1>2, <2>1, FrameChange
<1>5. Owned(y, at, NoFrame)
  BY <1>1, <1>4 DEF Owned
<1>6. Filed(y, at, d, b, Z)
  <2>1. ASSUME NEW l \in 0 .. LEVELS - 1, NEW q \in Nat,
               Pos(l + 1, q \div FANOUT) \in DOMAIN at
        PROVE  EntryRight(Entry(y, at, l, q), at, l, q, d, b, Z)
    <3>1. ~(l + 1 = 0 /\ q \div FANOUT = v)
      BY Sizes
    <3>2. y.mem[at[Pos(l + 1, q \div FANOUT)]]
             = x.mem[at[Pos(l + 1, q \div FANOUT)]]
      BY <1>3, <1>4, <2>1, <3>1
    <3>3. Entry(y, at, l, q) = Entry(x, at, l, q)
      BY <3>2 DEF Entry
    <3> QED
      BY <1>1, <2>1, <3>3 DEF Filed
  <2> QED
    BY <2>1 DEF Filed
<1>7. KeepsBut(x, at, y, at, v)
  BY <1>3, <1>4 DEF KeepsBut
<1> QED
  BY <1>1, <1>2, <1>4, <1>5, <1>6, <1>7 DEF Good

\* An access of a holder, with the fault that it may cause.
LEMMA WriteStep ==
    ASSUME PageInv, NEW a \in allocs, NEW v \in PagesHeld(a), Write(a, v)
    PROVE  PageInv'
<1> DEFINE x == IF v \in DOMAIN tlb THEN phys ELSE Access(phys, v)
           y == [x EXCEPT !.mem[FrameOf(x, v)] = Data(v)]
<1>1. /\ Running /\ pml4' = pml4 /\ page_brk' = page_brk
      /\ allocs' = allocs /\ untouched' = untouched
  BY DEF Write
<1>2. \/ x.halted /\ phys' = x
      \/ /\ ~x.halted /\ phys' = y
         /\ tlb' = [p \in DOMAIN tlb \cup {v} |->
                      IF p = v THEN FrameOf(x, v) ELSE tlb[p]]
         /\ used' = used \cup {v}
  BY DEF Write
<1>3. /\ HeldRight
      /\ \E at, Z : /\ Good(phys, pml4, at, NoFrame, MemEnd, page_brk, Z)
                    /\ Pages(at, used) /\ Contents(phys, at, used)
                    /\ Cached(at, Z)
                    /\ Z \cap HeldPages = {}
                    /\ Z \subseteq KernelHeap .. page_brk - 1
  BY <1>1 DEF PageInv
<1>4. PICK at, Z : /\ Good(phys, pml4, at, NoFrame, MemEnd, page_brk, Z)
                   /\ Pages(at, used) /\ Contents(phys, at, used)
                   /\ Cached(at, Z)
                   /\ Z \cap HeldPages = {}
                   /\ Z \subseteq KernelHeap .. page_brk - 1
  BY <1>3
<1>5. /\ v \in HeldPages /\ v \in Nat /\ KernelHeap <= v
      /\ v < page_brk /\ v < Span[LEVELS] /\ used \subseteq Nat
  <2>1. v \in HeldPages
    BY <1>3, HeldFacts
  <2> QED
    BY <1>3, <2>1, HeldFacts
<1>6. untouched' \in BOOLEAN
  BY <1>1 DEF PageInv
<1> HIDE DEF x, y
<1>7. CASE x.halted /\ Full(x) /\ phys' = x
  BY <1>1, <1>6, <1>7 DEF PageInv, Running, Full, FreshOf
<1>8. ASSUME NEW at2, Good(x, pml4, at2, NoFrame, MemEnd, page_brk, Z),
             Pos(0, v) \in DOMAIN at2, KeepsBut(phys, at, x, at2, v),
             FrameOf(x, v) = at2[Pos(0, v)]
      PROVE  PageInv'
  <2>1. /\ phys' = y /\ used' = used \cup {v}
        /\ tlb' = [p \in DOMAIN tlb \cup {v} |->
                      IF p = v THEN FrameOf(x, v) ELSE tlb[p]]
    BY <1>2, <1>8 DEF Good, Typed
  <2>2. y = SetFrame(x, at2[Pos(0, v)], Data(v))
    BY <1>8 DEF y, SetFrame
  <2>3. Data(v) \in [Slot -> Entries]
    BY <1>5 DEF Data, Filled, Word, Entries
  <2>4. /\ Good(y, pml4, at2, NoFrame, MemEnd, page_brk, Z)
        /\ y.mem[at2[Pos(0, v)]] = Data(v) /\ KeepsBut(x, at2, y, at2, v)
    BY <1>5, <1>8, <2>2, <2>3, PageWritten
  <2>5. ~y.halted
    BY <2>4 DEF Good, Typed
  <2>6. Pages(at2, used \cup {v})
    BY <1>4, <1>8 DEF Pages, KeepsBut
  <2>7. Contents(y, at2, used \cup {v})
    <3>1. ASSUME NEW q \in used, q # v PROVE y.mem[at2[Pos(0, q)]] = Data(q)
      <4>1. Pos(0, q) \in DOMAIN at /\ q \in Nat
        BY <1>4, <1>5 DEF Pages
      <4>2. Pos(0, q) \in DOMAIN at2 /\ at2[Pos(0, q)] = at[Pos(0, q)]
        BY <1>8, <3>1, <4>1 DEF KeepsBut
      <4>3. y.mem[at2[Pos(0, q)]] = phys.mem[at[Pos(0, q)]]
        BY <1>8, <2>4, <3>1, <4>1, <4>2 DEF KeepsBut
      <4> QED
        BY <1>4, <4>3 DEF Contents
    <3> QED
      BY <2>4, <3>1 DEF Contents
  <2>8. Cached(at2, Z)'
    <3>1. DOMAIN tlb' = DOMAIN tlb \cup {v} /\ tlb'[v] = at2[Pos(0, v)]
      BY <1>8, <2>1
    <3>2. ASSUME NEW q \in used, q # v
          PROVE  q \in DOMAIN tlb' /\ tlb'[q] = at2[Pos(0, q)]
      <4>1. q \in DOMAIN tlb /\ tlb[q] = at[Pos(0, q)]
        BY <1>4 DEF Cached
      <4>2. Pos(0, q) \in DOMAIN at /\ q \in Nat
        BY <1>4, <1>5 DEF Pages
      <4>3. at2[Pos(0, q)] = at[Pos(0, q)]
        BY <1>8, <3>2, <4>2 DEF KeepsBut
      <4> QED
        BY <2>1, <3>2, <4>1, <4>3
    <3> QED
      BY <1>4, <2>1, <3>1, <3>2 DEF Cached
  <2>9. HeldPages' = HeldPages
    BY <1>1 DEF HeldPages
  <2>10. HeldRight'
    BY <1>1, <1>3, <1>5, <2>1, <2>9 DEF HeldRight
  <2> QED
    BY <1>1, <1>4, <1>6, <2>1, <2>4, <2>5, <2>6, <2>7, <2>8, <2>9, <2>10
       DEF PageInv, Running
<1>9. CASE v \in DOMAIN tlb
  <2>1. x = phys /\ FrameOf(x, v) = tlb[v]
    BY <1>9 DEF x, FrameOf
  <2>2. v \in used /\ tlb[v] = at[Pos(0, v)]
    BY <1>4, <1>5, <1>9 DEF Cached
  <2>3. Pos(0, v) \in DOMAIN at
    BY <1>4, <1>5, <2>2 DEF Pages
  <2>4. KeepsBut(phys, at, phys, at, v)
    BY DEF KeepsBut
  <2> QED
    BY <1>4, <1>8, <2>1, <2>2, <2>3, <2>4
<1>10. CASE v \notin DOMAIN tlb
  <2>1. v \notin used /\ Pos(0, v) \notin DOMAIN at
    BY <1>4, <1>5, <1>10 DEF Cached, Pages
  <2>2. ~(v < KernelHeap)
    BY <1>5, HeapFacts
  <2>3. ~Mapped(phys, v)
    BY <1>4, <1>5, <2>1, <2>2, MappedFacts
  <2>4. x = page_fault_handler(phys, v)
    BY <1>10, <2>3 DEF x, Access
  <2>5. MemEnd \in 0 .. KernelHeap
    BY RegionFacts, HeapFacts
  <2>6. \/ x.halted /\ Full(x)
        \/ \E at2 : /\ Good(x, pml4, at2, NoFrame, MemEnd, page_brk, Z)
                    /\ Pos(0, v) \in DOMAIN at2
                    /\ KeepsBut(phys, at, x, at2, v)
    BY <1>4, <1>5, <2>1, <2>4, <2>5, Faulted
  <2>7. CASE x.halted /\ Full(x)
    BY <1>2, <1>7, <2>7
  <2>8. ASSUME NEW at2, Good(x, pml4, at2, NoFrame, MemEnd, page_brk, Z),
               Pos(0, v) \in DOMAIN at2, KeepsBut(phys, at, x, at2, v)
        PROVE  PageInv'
    <3>1. Mapped(x, v) /\ EntryOf(Walk(x, v), v).addr = at2[Pos(0, v)]
      BY <1>5, <2>2, <2>8, MappedFacts
    <3>2. FrameOf(x, v) = at2[Pos(0, v)]
      BY <1>10, <3>1 DEF FrameOf
    <3> QED
      BY <1>8, <2>8, <3>2
  <2> QED
    BY <2>6, <2>7, <2>8
<1> QED
  BY <1>9, <1>10

-----------------------------------------------------------------------------
(* MMU_free_page.                                                          *)

\* MMU_pf_free: the frame becomes the first free node.
PushFree(x, f) == [x EXCEPT !.mem[f][0] = Pointer(x.free_list),
                            !.free_list = f]

\* It points to the one that was first.
LEMMA PushFacts ==
    ASSUME NEW x, Typed(x), NEW f \in Frame, NEW z, z = PushFree(x, f)
    PROVE  /\ Typed(z) /\ FreshOf(z) = FreshOf(x) /\ z.free_list = f
           /\ z.mem[f][0].addr = x.free_list
           /\ \A g \in Frame : g # f => z.mem[g] = x.mem[g]
<1>1. x \in Memory /\ x.mem \in [Frame -> [Slot -> Entries]]
  BY DEF Typed, Memory
<1>2. PICK p \in Entries : p = Pointer(x.free_list) /\ p.addr = x.free_list
  <2>1. PICK g \in Nat : g = x.free_list
    BY <1>1 DEF Memory
  <2>2. Pointer(g) \in Entries /\ Pointer(g).addr = g
    BY DEF Pointer, Word, Entries
  <2> QED
    BY <2>1, <2>2
<1>3. 0 \in Slot /\ f \in Nat
  BY Sizes, RegionFacts DEF Slot, Frame
<1> DEFINE M == x.mem
           K == [M EXCEPT ![f][0] = p]
<1>4. z = [[x EXCEPT !.mem = K] EXCEPT !.free_list = f]
  BY <1>2, Zenon DEF PushFree
<1>5. /\ K \in [Frame -> [Slot -> Entries]]
      /\ \A g \in Frame : g # f => K[g] = M[g]
      /\ K[f][0] = p
  <2>1. K = [M EXCEPT ![f][0] = p] /\ M \in [Frame -> [Slot -> Entries]]
    BY <1>1
  <2> HIDE DEF K, M
  <2> QED
    BY <1>3, <2>1, OneWord
<1> HIDE DEF K
<1>6. /\ z \in Memory /\ z.mem = K /\ z.next = x.next
      /\ z.free_list = f /\ z.halted = x.halted
  BY <1>1, <1>3, <1>4, <1>5 DEF Memory
<1>7. Typed(z) /\ FreshOf(z) = FreshOf(x)
  BY <1>6 DEF Typed, FreshOf
<1> QED
  BY <1>2, <1>5, <1>6, <1>7

\* The frame of page v goes to the head of the free list.
LEMMA Pushed ==
    ASSUME NEW x, NEW at, Typed(x), Owned(x, at, NoFrame), FreeList(x, at),
           NEW v \in Nat, Pos(0, v) \in DOMAIN at,
           NEW z, z = PushFree(x, at[Pos(0, v)])
    PROVE  \E at2 : /\ Typed(z) /\ Owned(z, at2, NoFrame) /\ FreeList(z, at2)
                    /\ Elsewhere(x, at, z, at2, v)
                    /\ Pos(0, v) \notin DOMAIN at2
<1>1. PICK n \in Nat : Linked(x, at, n)
  BY DEF FreeList
<1>2. PICK f \in Frame : f = at[Pos(0, v)]
  BY NodeFrame
<1>3. PICK k \in Nat \ {0} : k = n + 1
  OBVIOUS
<1>4. /\ Typed(z) /\ FreshOf(z) = FreshOf(x) /\ z.free_list = f
      /\ z.mem[f][0].addr = x.free_list
      /\ \A g \in Frame : g # f => z.mem[g] = x.mem[g]
  BY <1>2, PushFacts
<1> DEFINE S == (DOMAIN at \ {Pos(0, v)}) \cup {Pos(-1, k)}
           at2 == [o \in S |-> IF o = Pos(-1, k) THEN f ELSE at[o]]
<1>5. Pos(-1, k) \notin DOMAIN at
  BY <1>1, <1>3 DEF Linked
<1>6. /\ DOMAIN at2 = S /\ at2[Pos(-1, k)] = f
      /\ \A o \in S : o # Pos(-1, k) => at2[o] = at[o]
  OBVIOUS
<1> HIDE DEF at2
<1>7. /\ \A l, q : Pos(l, q) \in DOMAIN at2
                      <=> \/ Pos(l, q) \in DOMAIN at /\ ~(l = 0 /\ q = v)
                          \/ l = -1 /\ q = k
      /\ \A l, q : Pos(l, q) \in DOMAIN at /\ ~(l = 0 /\ q = v)
                      => at2[Pos(l, q)] = at[Pos(l, q)]
  <2>1. \A l, q : /\ Pos(l, q) = Pos(0, v) <=> l = 0 /\ q = v
                  /\ Pos(l, q) = Pos(-1, k) <=> l = -1 /\ q = k
    BY PosEqual
  <2> QED
    BY <1>5, <1>6, <2>1
<1>8. ASSUME NEW l, NEW q, Pos(l, q) \in DOMAIN at, ~(l = 0 /\ q = v)
      PROVE  at[Pos(l, q)] # f /\ at[Pos(l, q)] \in Frame
  <2>1. Pos(l, q) # Pos(0, v)
    BY <1>8, PosEqual
  <2> QED
    BY <1>2, <1>8, <2>1, NodeFrame DEF Owned
<1>9. Owned(z, at2, NoFrame)
  <2>1. DOMAIN at2 \subseteq Node
    <3>1. Pos(-1, k) \in Node
      BY PosEqual, Sizes
    <3> QED
      BY <1>6, <3>1 DEF Owned
  <2>2. \A o \in DOMAIN at2 : /\ at2[o] \in UsableFrames
                              /\ at2[o] \notin FreshOf(z) /\ at2[o] # NoFrame
    BY <1>2, <1>4, <1>6 DEF Owned
  <2>3. ASSUME NEW o \in DOMAIN at2, NEW p \in DOMAIN at2, at2[o] = at2[p]
        PROVE  o = p
    <3>1. ASSUME NEW r \in DOMAIN at, r # Pos(0, v) PROVE at[r] # f
      BY <1>2, <3>1 DEF Owned
    <3>2. \A r \in S : r # Pos(-1, k) => /\ r \in DOMAIN at
                                         /\ r # Pos(0, v) /\ at2[r] = at[r]
      BY <1>6
    <3> HIDE DEF S
    <3> QED
      BY <1>6, <2>3, <3>1, <3>2 DEF Owned
  <2>4. ASSUME NEW g \in UsableFrames
        PROVE  g \in FreshOf(z) \/ \E o \in DOMAIN at2 : at2[o] = g
    <3>1. CASE g \in FreshOf(x)
      BY <1>4, <3>1
    <3>2. ASSUME NEW o \in DOMAIN at, at[o] = g
          PROVE  \E p \in DOMAIN at2 : at2[p] = g
      <4>1. CASE o = Pos(0, v)
        BY <1>2, <1>6, <3>2, <4>1
      <4>2. CASE o # Pos(0, v)
        BY <1>5, <1>6, <3>2, <4>2
      <4> QED
        BY <4>1, <4>2
    <3>3. g # NoFrame
      BY UsableFacts
    <3> QED
      BY <3>1, <3>2, <3>3 DEF Owned
  <2> QED
    BY <2>1, <2>2, <2>3, <2>4 DEF Owned
<1>10. FreeList(z, at2)
  <2>1. /\ \A i \in Nat : Pos(-1, i) \in DOMAIN at <=> i \in 1 .. n
        /\ x.free_list = IF n = 0 THEN NoFrame ELSE at[Pos(-1, n)]
        /\ \A i \in 1 .. n : x.mem[at[Pos(-1, i)]][0].addr =
                               IF i = 1 THEN NoFrame ELSE at[Pos(-1, i - 1)]
    BY <1>1 DEF Linked
  <2>2. \A i \in Nat : Pos(-1, i) \in DOMAIN at2 <=> i \in 1 .. k
    <3>1. \A i \in Nat : Pos(-1, i) \in DOMAIN at2
                            <=> Pos(-1, i) \in DOMAIN at \/ i = k
      BY <1>7
    <3> QED
      BY <1>3, <2>1, <3>1
  <2>3. \A i \in 1 .. n : /\ at2[Pos(-1, i)] = at[Pos(-1, i)]
                          /\ z.mem[at[Pos(-1, i)]] = x.mem[at[Pos(-1, i)]]
    <3>1. \A i \in 1 .. n : Pos(-1, i) \in DOMAIN at
      BY <2>1
    <3> QED
      BY <1>4, <1>7, <1>8, <3>1
  <2>4. z.free_list = at2[Pos(-1, k)]
    BY <1>4, <1>6
  <2>5. ASSUME NEW i \in 1 .. k
        PROVE  z.mem[at2[Pos(-1, i)]][0].addr =
                  IF i = 1 THEN NoFrame ELSE at2[Pos(-1, i - 1)]
    <3>1. CASE i = k
      <4>1. z.mem[at2[Pos(-1, i)]][0].addr = x.free_list
        BY <1>4, <1>6, <3>1
      <4>2. CASE n = 0
        BY <1>3, <2>1, <3>1, <4>1, <4>2
      <4>3. CASE n # 0
        <5>1. n \in 1 .. n /\ i - 1 = n /\ i # 1
          BY <1>3, <3>1, <4>3
        <5> QED
          BY <2>1, <2>3, <4>1, <4>3, <5>1
      <4> QED
        BY <4>2, <4>3
    <3>2. CASE i # k
      <4>1. i \in 1 .. n /\ (i # 1 => i - 1 \in 1 .. n)
        BY <1>3, <3>2
      <4> QED
        BY <2>1, <2>3, <4>1
    <3> QED
      BY <3>1, <3>2
  <2>6. Linked(z, at2, k)
    BY <2>2, <2>4, <2>5 DEF Linked
  <2> QED
    BY <2>6 DEF FreeList
<1>11. Elsewhere(x, at, z, at2, v)
  <2>1. \A l \in 0 .. LEVELS : l # -1
    BY Sizes
  <2> QED
    BY <1>4, <1>7, <1>8, <2>1 DEF Elsewhere
<1>12. Pos(0, v) \notin DOMAIN at2
  BY <1>7
<1> QED
  BY <1>4, <1>9, <1>10, <1>11, <1>12

\* The entry that MMU_free_page leaves.
Emptied(e) == [e EXCEPT !.present = FALSE]

\* The walk of a free finds the entry of the page.
LEMMA FreeFinds ==
    ASSUME NEW x, NEW at, NEW d, NEW b, NEW Z,
           Good(x, pml4, at, NoFrame, d, b, Z), NEW v \in Nat,
           v < Span[LEVELS], KernelHeap <= v, v < b
    PROVE  LET w == page_table_get_entry(x, pml4, v, TRUE)
           IN  /\ Pos(1, v \div FANOUT) \in DOMAIN at
               /\ w = [m |-> x, table |-> at[Pos(1, v \div FANOUT)],
                       found |-> TRUE]
               /\ EntryOf(w, v) \in Entries
               /\ EntryRight(EntryOf(w, v), at, 0, v, d, b, Z)
               /\ Index(v, 0) = v % FANOUT
<1> DEFINE w == page_table_get_entry(x, pml4, v, TRUE)
<1>1. Pos(1, v \div FANOUT) \in DOMAIN at
  <2>1. v \in KernelHeap .. b - 1
    BY HeapFacts DEF Good
  <2> QED
    BY <2>1 DEF Good, Leaves
<1>2. w = [m |-> x, table |-> at[Pos(1, v \div FANOUT)], found |-> TRUE]
  <2>1. PICK allocate \in BOOLEAN : allocate = TRUE
    OBVIOUS
  <2>2. w = page_table_get_entry(x, pml4, v, allocate)
    BY <2>1
  <2> HIDE DEF w
  <2> QED
    BY <1>1, <2>2, Lookup
<1> HIDE DEF w
<1>3. /\ EntryOf(w, v) \in Entries
      /\ EntryRight(EntryOf(w, v), at, 0, v, d, b, Z)
      /\ Index(v, 0) = v % FANOUT
  BY <1>1, <1>2, FoundEntry
<1> QED
  BY <1>1, <1>2, <1>3 DEF w

\* A mapped page gives its frame back.
LEMMA Freed ==
    ASSUME NEW x, NEW at, NEW b, NEW Z,
           Good(x, pml4, at, NoFrame, MemEnd, b, Z), NEW v \in Nat,
           v < Span[LEVELS], KernelHeap <= v, v < b, Pos(0, v) \in DOMAIN at
    PROVE  \E at2 : /\ Good(FreePage(x, v), pml4, at2, NoFrame, MemEnd, b,
                            Z \cup {v})
                    /\ Pos(0, v) \notin DOMAIN at2
                    /\ KeepsBut(x, at, FreePage(x, v), at2, v)
<1> DEFINE w == page_table_get_entry(x, pml4, v, TRUE)
           e == EntryOf(w, v)
           t == at[Pos(1, v \div FANOUT)]
           y == FreePage(x, v)
<1>1. /\ Typed(x) /\ Owned(x, at, NoFrame) /\ FreeList(x, at) /\ b \in Nat
  BY DEF Good
<1>2. /\ Pos(1, v \div FANOUT) \in DOMAIN at
      /\ w = [m |-> x, table |-> t, found |-> TRUE]
      /\ e \in Entries /\ EntryRight(e, at, 0, v, MemEnd, b, Z)
      /\ Index(v, 0) = v % FANOUT
  BY FreeFinds
<1>3. y = SetEntry([w EXCEPT !.m = MMU_pf_free(w.m, e.addr)], v, Emptied(e))
  BY DEF FreePage, Emptied
<1> HIDE DEF w, e, y
<1>4. PICK f \in Frame : f = at[Pos(0, v)] /\ f # NoFrame /\ f \in Nat
  BY <1>1, NodeFrame
<1>5. e.addr = f /\ e.avail
  BY <1>2, <1>4, HeapFacts DEF EntryRight
<1>6. Mapped(x, f)
  <2>1. f < MemEnd /\ 1 <= f /\ f < KernelHeap /\ f < Span[LEVELS]
    BY <1>4, RegionFacts, HeapFacts, Sizes DEF Frame, NoFrame
  <2>2. f \in 1 .. MemEnd - 1
    BY <1>4, <2>1, RegionFacts
  <2> QED
    BY <1>4, <2>1, <2>2, MappedFacts
<1> DEFINE z == PushFree(x, f)
<1>7. MMU_pf_free(x, f) = z
  BY <1>1, <1>6 DEF MMU_pf_free, Access, PushFree, Typed
<1> HIDE DEF z
<1>8. PICK at2 : /\ Typed(z) /\ Owned(z, at2, NoFrame) /\ FreeList(z, at2)
                 /\ Elsewhere(x, at, z, at2, v)
                 /\ Pos(0, v) \notin DOMAIN at2
  BY <1>1, <1>4, Pushed DEF z
<1>9. [w EXCEPT !.m = MMU_pf_free(w.m, e.addr)]
         = [m |-> z, table |-> t, found |-> TRUE]
  <2>1. PICK g, r, h : /\ g = w /\ r = t
                       /\ h = [w EXCEPT !.m = MMU_pf_free(w.m, e.addr)]
    OBVIOUS
  <2>2. g = [m |-> x, table |-> r, found |-> TRUE] /\ w.m = x
    <3>1. g = [m |-> x, table |-> r, found |-> TRUE]
      BY <1>2, <2>1
    <3> QED
      BY <2>1, <3>1
  <2>3. h = [g EXCEPT !.m = z]
    BY <1>5, <1>7, <2>1, <2>2
  <2>4. h = [m |-> z, table |-> r, found |-> TRUE]
    BY <2>2, <2>3
  <2> QED
    BY <2>1, <2>4
<1>10. y = SetWord(z, t, v % FANOUT, Emptied(e))
  BY <1>2, <1>3, <1>8, <1>9 DEF SetEntry, SetWord, Typed
<1>11. /\ Emptied(e) \in Entries /\ ~Emptied(e).present
       /\ Emptied(e).avail = e.avail
  BY <1>2 DEF Emptied, Entries
<1>12. EntryRight(Emptied(e), at2, 0, v, MemEnd, b, Z \cup {v})
  BY <1>5, <1>8, <1>11, HeapFacts DEF EntryRight
<1>13. Agree(MemEnd, b, Z, MemEnd, b, Z \cup {v}, v)
  BY DEF Agree
<1>14. MemEnd \in 0 .. KernelHeap
  BY RegionFacts, HeapFacts
<1>15. /\ Good(y, pml4, at2, NoFrame, MemEnd, b, Z \cup {v})
       /\ \A q \in Nat : Pos(0, q) \in DOMAIN at2 =>
             y.mem[at2[Pos(0, q)]] = z.mem[at2[Pos(0, q)]]
  <2>1. PICK Z2 : Z2 = Z \cup {v}
    OBVIOUS
  <2>2. /\ EntryRight(Emptied(e), at2, 0, v, MemEnd, b, Z2)
        /\ Agree(MemEnd, b, Z, MemEnd, b, Z2, v)
    BY <1>12, <1>13, <2>1
  <2>3. /\ Good(y, pml4, at2, NoFrame, MemEnd, b, Z2)
        /\ \A q \in Nat : Pos(0, q) \in DOMAIN at2 =>
              y.mem[at2[Pos(0, q)]] = z.mem[at2[Pos(0, q)]]
    BY <1>1, <1>2, <1>8, <1>10, <1>11, <1>14, <2>2, Rewritten
  <2> QED
    BY <2>1, <2>3
<1>16. KeepsBut(x, at, y, at2, v)
  <2>1. 0 \in 0 .. LEVELS
    BY Sizes
  <2> QED
    BY <1>8, <1>15, <2>1 DEF KeepsBut, Elsewhere
<1> QED
  BY <1>8, <1>15, <1>16 DEF y

\* The free of a page that was never touched stops the kernel.
LEMMA FreedUntouched ==
    ASSUME NEW x, NEW at, NEW b, NEW Z,
           Good(x, pml4, at, NoFrame, MemEnd, b, Z), NEW v \in Nat,
           v < Span[LEVELS], KernelHeap <= v, v < b,
           Pos(0, v) \notin DOMAIN at, v \notin Z
    PROVE  FreePage(x, v).halted
<1> DEFINE w == page_table_get_entry(x, pml4, v, TRUE)
           e == EntryOf(w, v)
           u == page_table_get_entry(x, pml4, 0, FALSE)
           z == [x EXCEPT !.halted = TRUE]
<1>1. /\ w = [m |-> x, table |-> at[Pos(1, v \div FANOUT)], found |-> TRUE]
      /\ e \in Entries /\ EntryRight(e, at, 0, v, MemEnd, b, Z)
  BY FreeFinds
<1>2. FreePage(x, v) = SetEntry([w EXCEPT !.m = MMU_pf_free(w.m, e.addr)], v,
                                Emptied(e))
  BY DEF FreePage, Emptied
<1> HIDE DEF w, e
<1>3. e.addr = NoFrame
  BY <1>1, HeapFacts DEF EntryRight
<1>4. /\ 0 \in Nat /\ 0 < KernelHeap /\ 0 < Span[LEVELS]
      /\ ~(0 \in 1 .. MemEnd - 1)
  BY RegionFacts, HeapFacts, Sizes
<1>5. ~Mapped(x, 0)
  BY <1>4, MappedFacts
<1>6. ~u.found \/ ~EntryOf(u, 0).avail
  <2>1. CASE Pos(1, 0 \div FANOUT) \notin DOMAIN at
    <3>1. PICK allocate \in BOOLEAN : allocate = FALSE
      OBVIOUS
    <3>2. u = page_table_get_entry(x, pml4, 0, allocate)
      BY <3>1
    <3> HIDE DEF u
    <3>3. \E t : u = [m |-> x, table |-> t, found |-> FALSE]
      BY <1>4, <2>1, <3>1, <3>2, Lookup
    <3> QED
      BY <3>3
  <2>2. CASE Pos(1, 0 \div FANOUT) \in DOMAIN at
    <3>1. PICK allocate \in BOOLEAN : allocate = FALSE
      OBVIOUS
    <3>2. u = page_table_get_entry(x, pml4, 0, allocate)
      BY <3>1
    <3> HIDE DEF u
    <3>3. u = [m |-> x, table |-> at[Pos(1, 0 \div FANOUT)], found |-> TRUE]
      BY <1>4, <2>2, <3>1, <3>2, Lookup
    <3>4. EntryRight(EntryOf(u, 0), at, 0, 0, MemEnd, b, Z)
      BY <1>4, <2>2, <3>3, FoundEntry
    <3> QED
      BY <1>4, <3>4 DEF EntryRight
  <2> QED
    BY <2>1, <2>2
<1>7. page_fault_handler(x, 0) = z
  BY <1>6 DEF page_fault_handler
<1>8. x \in Memory /\ z.halted
  BY DEF Good, Typed, Memory
<1>9. MMU_pf_free(x, NoFrame) = z
  BY <1>5, <1>7, <1>8 DEF MMU_pf_free, Access, NoFrame
<1> HIDE DEF z
<1>10. [w EXCEPT !.m = MMU_pf_free(w.m, e.addr)].m = z
  <2>1. PICK g, r : g = w /\ r = at[Pos(1, v \div FANOUT)]
    OBVIOUS
  <2>2. g = [m |-> x, table |-> r, found |-> TRUE]
    BY <1>1, <2>1
  <2>3. w.m = x
    BY <2>1, <2>2
  <2>4. [g EXCEPT !.m = z].m = z
    BY <2>2
  <2> QED
    BY <1>3, <1>9, <2>1, <2>3, <2>4
<1> QED
  BY <1>2, <1>8, <1>10 DEF SetEntry

\* The pages from lo to v - 1 are freed; pages of U were mapped.
FreedTo(y, x, at, lo, v, b, Z, U) ==
    IF lo .. v - 1 \subseteq U
    THEN \E at2 : /\ Good(y, pml4, at2, NoFrame, MemEnd, b,
                          Z \cup (lo .. v - 1))
                  /\ Pages(at2, U \ (lo .. v - 1))
                  /\ \A q \in U \ (lo .. v - 1) :
                        /\ at2[Pos(0, q)] = at[Pos(0, q)]
                        /\ y.mem[at[Pos(0, q)]] = x.mem[at[Pos(0, q)]]
    ELSE y.halted

\* One page of MMU_free_pages; a page that was never touched has no frame,
\* and the store to frame 0 stops the kernel.
LEMMA FreedStep ==
    ASSUME NEW x, NEW at, NEW y, NEW lo \in Nat, NEW v \in Nat, lo <= v,
           NEW b, NEW Z, NEW U, U \subseteq Nat,
           FreedTo(y, x, at, lo, v, b, Z, U),
           v < Span[LEVELS], KernelHeap <= v, v < b, v \notin Z
    PROVE  FreedTo(IF y.halted THEN y ELSE FreePage(y, v), x, at,
                   lo, v + 1, b, Z, U)
<1>1. lo .. (v + 1) - 1 = (lo .. v - 1) \cup {v} /\ v \notin lo .. v - 1
  OBVIOUS
<1>2. PICK D : D = lo .. v - 1
  OBVIOUS
<1>3. lo .. (v + 1) - 1 = D \cup {v} /\ v \notin D
  BY <1>1, <1>2
<1>4. CASE ~(D \subseteq U)
  <2>1. y.halted
    BY <1>2, <1>4 DEF FreedTo
  <2> QED
    BY <1>3, <1>4, <2>1 DEF FreedTo
<1>5. CASE D \subseteq U
  <2>1. PICK at2 : /\ Good(y, pml4, at2, NoFrame, MemEnd, b, Z \cup D)
                   /\ Pages(at2, U \ D)
                   /\ \A q \in U \ D :
                         /\ at2[Pos(0, q)] = at[Pos(0, q)]
                         /\ y.mem[at[Pos(0, q)]] = x.mem[at[Pos(0, q)]]
    BY <1>2, <1>5 DEF FreedTo
  <2>2. ~y.halted
    BY <2>1 DEF Good, Typed
  <2> DEFINE z == FreePage(y, v)
  <2>3. CASE v \notin U
    <3>1. Pos(0, v) \notin DOMAIN at2 /\ v \notin Z \cup D
      BY <1>3, <2>1, <2>3 DEF Pages
    <3>2. z.halted
      BY <2>1, <3>1, FreedUntouched
    <3> HIDE DEF z
    <3>3. FreedTo(z, x, at, lo, v + 1, b, Z, U)
      BY <1>3, <2>3, <3>2 DEF FreedTo
    <3> QED
      BY <2>2, <3>3 DEF z
  <2>4. CASE v \in U
    <3>1. Pos(0, v) \in DOMAIN at2
      BY <1>3, <2>1, <2>4 DEF Pages
    <3>2. PICK at3 :
             /\ Good(z, pml4, at3, NoFrame, MemEnd, b, (Z \cup D) \cup {v})
                     /\ Pos(0, v) \notin DOMAIN at3
                     /\ KeepsBut(y, at2, z, at3, v)
      BY <2>1, <3>1, Freed
    <3> HIDE DEF z
    <3>3. (Z \cup D) \cup {v} = Z \cup (D \cup {v}) /\ D \cup {v} \subseteq U
      BY <1>5, <2>4
    <3>4. Pages(at3, U \ (D \cup {v}))
      BY <2>1, <3>2 DEF Pages, KeepsBut
    <3>5. ASSUME NEW q \in U \ (D \cup {v})
          PROVE  /\ at3[Pos(0, q)] = at[Pos(0, q)]
                 /\ z.mem[at[Pos(0, q)]] = x.mem[at[Pos(0, q)]]
      <4>1. q \in U \ D /\ q \in Nat /\ q # v
        OBVIOUS
      <4>2. Pos(0, q) \in DOMAIN at2
        BY <2>1, <4>1 DEF Pages
      <4>3. /\ at3[Pos(0, q)] = at2[Pos(0, q)]
            /\ z.mem[at2[Pos(0, q)]] = y.mem[at2[Pos(0, q)]]
        BY <3>2, <4>1, <4>2 DEF KeepsBut
      <4> QED
        BY <2>1, <4>1, <4>3
    <3>6. FreedTo(z, x, at, lo, v + 1, b, Z, U)
      BY <1>3, <3>2, <3>3, <3>4, <3>5 DEF FreedTo
    <3> QED
      BY <2>2, <3>6 DEF z
  <2> QED
    BY <2>3, <2>4
<1> QED
  BY <1>4, <1>5

\* MMU_free_pages gives the frames of its pages back.
LEMMA FreeStep ==
    ASSUME PageInv, NEW a \in allocs, MMU_free_pages(a)
    PROVE  PageInv'
<1>1. /\ Running /\ pml4' = pml4 /\ page_brk' = page_brk /\ tlb' = tlb
      /\ allocs' = allocs \ {a} /\ used' = used \ PagesHeld(a)
      /\ untouched' = (untouched \/ ~(PagesHeld(a) \subseteq used))
  BY DEF MMU_free_pages
<1>2. /\ HeldRight
      /\ \E at, Z : /\ Good(phys, pml4, at, NoFrame, MemEnd, page_brk, Z)
                    /\ Pages(at, used) /\ Contents(phys, at, used)
                    /\ Cached(at, Z)
                    /\ Z \cap HeldPages = {}
                    /\ Z \subseteq KernelHeap .. page_brk - 1
  BY <1>1 DEF PageInv
<1>3. PICK at, Z : /\ Good(phys, pml4, at, NoFrame, MemEnd, page_brk, Z)
                   /\ Pages(at, used) /\ Contents(phys, at, used)
                   /\ Cached(at, Z)
                   /\ Z \cap HeldPages = {}
                   /\ Z \subseteq KernelHeap .. page_brk - 1
  BY <1>2
<1>4. /\ a.base \in Nat /\ a.num \in Nat /\ PagesHeld(a) \subseteq HeldPages
      /\ used \subseteq Nat
  BY <1>2, HeldFacts
<1>5. PagesHeld(a) = a.base .. (a.base + a.num) - 1
  BY <1>4 DEF PagesHeld
<1>6. FreedTo(phys', phys, at, a.base, a.base + a.num, page_brk, Z, used)
  <2>1. PICK f : FreedOver(a, f)
    BY <1>4, FreeLoop
  <2>2. /\ f[a.base] = phys
        /\ \A v \in a.base .. (a.base + a.num) - 1 :
              f[v + 1] = IF f[v].halted THEN f[v] ELSE FreePage(f[v], v)
        /\ phys' = f[a.base + a.num]
    BY <2>1 DEF FreedOver
  <2>3. PICK lo \in Nat, hi \in Nat :
           lo = a.base /\ hi = a.base + a.num /\ lo <= hi
    BY <1>4
  <2> DEFINE P == {v \in lo .. hi :
                      FreedTo(f[v], phys, at, lo, v, page_brk, Z, used)}
  <2>4. lo \in P
    <3>1. PICK D : D = lo .. lo - 1
      OBVIOUS
    <3>2. D = {}
      BY <3>1
    <3>3. Z \cup D = Z /\ used \ D = used
      BY <3>2
    <3>4. FreedTo(phys, phys, at, lo, lo, page_brk, Z, used)
      BY <1>3, <3>1, <3>2, <3>3 DEF FreedTo
    <3>5. lo \in lo .. hi
      BY <2>3
    <3> QED
      BY <2>2, <2>3, <3>4, <3>5
  <2>5. ASSUME NEW n \in lo + 1 .. hi, n - 1 \in P PROVE n \in P
    <3>1. PICK v \in lo .. hi - 1 : v = n - 1
      OBVIOUS
    <3>2. n = v + 1 /\ n \in lo .. hi /\ v \in Nat /\ lo <= v
      BY <3>1
    <3>3. FreedTo(f[v], phys, at, lo, v, page_brk, Z, used)
      BY <2>5, <3>1
    <3>4. v \in HeldPages
      BY <1>4, <1>5, <2>3, <3>1
    <3>5. v < Span[LEVELS] /\ KernelHeap <= v /\ v < page_brk /\ v \notin Z
      BY <1>2, <1>3, <3>4, HeldFacts
    <3>6. f[n] = IF f[v].halted THEN f[v] ELSE FreePage(f[v], v)
      BY <2>2, <2>3, <3>1, <3>2
    <3>7. FreedTo(f[n], phys, at, lo, v + 1, page_brk, Z, used)
      BY <1>4, <3>2, <3>3, <3>5, <3>6, FreedStep
    <3> QED
      BY <3>2, <3>7
  <2> HIDE DEF P
  <2>6. lo .. hi \subseteq P
    BY <2>4, <2>5, Ascend
  <2>7. hi \in P
    BY <2>3, <2>6
  <2> QED
    BY <2>2, <2>3, <2>7 DEF P
<1>7. untouched' \in BOOLEAN
  BY <1>1 DEF PageInv
<1>8. CASE ~(PagesHeld(a) \subseteq used)
  <2>1. phys'.halted
    BY <1>5, <1>6, <1>8 DEF FreedTo
  <2>2. untouched'
    BY <1>1, <1>8
  <2> QED
    BY <1>7, <2>1, <2>2 DEF PageInv, Running
<1>9. CASE PagesHeld(a) \subseteq used
  <2> DEFINE D == PagesHeld(a)
             Y == Z \cup D
             U == used \ D
  <2>1. PICK at2 : /\ Good(phys', pml4, at2, NoFrame, MemEnd, page_brk, Y)
                   /\ Pages(at2, U)
                   /\ \A q \in U :
                         /\ at2[Pos(0, q)] = at[Pos(0, q)]
                         /\ phys'.mem[at[Pos(0, q)]] = phys.mem[at[Pos(0, q)]]
    <3>1. PICK hi \in Nat : hi = a.base + a.num
      BY <1>4
    <3>2. FreedTo(phys', phys, at, a.base, hi, page_brk, Z, used)
      BY <1>6, <3>1
    <3>3. a.base .. hi - 1 = D
      BY <1>5, <3>1
    <3>4. D \subseteq used
      BY <1>9
    <3> HIDE DEF D
    <3> QED
      BY <3>2, <3>3, <3>4 DEF FreedTo
  <2>2. ~phys'.halted
    BY <2>1 DEF Good, Typed
  <2>3. used' = U
    BY <1>1
  <2>4. Contents(phys', at2, U)
    BY <1>3, <2>1 DEF Contents
  <2>5. Cached(at2, Y)'
    <3>1. \A q \in U : q \in DOMAIN tlb /\ tlb[q] = at2[Pos(0, q)]
      BY <1>3, <2>1 DEF Cached
    <3>2. DOMAIN tlb \subseteq U \cup Y
      BY <1>3 DEF Cached
    <3> QED
      BY <1>1, <2>3, <3>1, <3>2 DEF Cached
  <2>6. ASSUME NEW c \in allocs, c # a PROVE PagesHeld(c) \cap D = {}
    BY <1>2, <2>6 DEF HeldRight
  <2>7. HeldPages' = UNION {PagesHeld(c) : c \in allocs \ {a}}
    BY <1>1 DEF HeldPages
  <2>8. HeldPages' \subseteq HeldPages /\ HeldPages' \cap D = {}
    BY <2>6, <2>7 DEF HeldPages
  <2>9. \A v \in HeldPages : v \in HeldPages' \/ v \in D
    BY <2>7 DEF HeldPages
  <2>10. HeldRight'
    <3>1. used' \subseteq HeldPages'
      BY <1>2, <2>3, <2>9 DEF HeldRight
    <3> QED
      BY <1>1, <1>2, <3>1 DEF HeldRight
  <2>11. Y \cap HeldPages' = {}
    BY <1>3, <2>8
  <2>12. Y \subseteq KernelHeap .. page_brk' - 1
    BY <1>1, <1>2, <1>3, <1>4, HeldFacts
  <2> HIDE DEF Y, U, D
  <2> QED
    BY <1>1, <1>7, <2>1, <2>2, <2>3, <2>4, <2>5, <2>10, <2>11, <2>12
       DEF PageInv, Running
<1> QED
  BY <1>8, <1>9

-----------------------------------------------------------------------------
(* The invariant.                                                          *)

\* PageInv holds throughout: each usable frame is fresh or behind one node,
\* and the entries of the tables, the free list and the cached translations
\* say so, after every call of the allocator, every fault and every access.
THEOREM PageInvariant == PageSpec => []PageInv
<1>1. PageInit => PageInv
  <2> SUFFICES ASSUME PageInit PROVE PageInv
    OBVIOUS
  <2>1. /\ ~phys.halted /\ pml4 = NoFrame /\ page_brk = KernelHeap
        /\ tlb = << >> /\ allocs = {} /\ used = {} /\ untouched = FALSE
    BY DEF PageInit
  <2>2. Blank(phys)
    <3> DEFINE M == [f \in Frame |-> Filled(Word(TRUE, TRUE, 1))]
               N == [r \in 1 .. Len(Regions) |-> Regions[r].start]
    <3>1. M \in [Frame -> [Slot -> Entries]]
      <4>1. Filled(Word(TRUE, TRUE, 1)) \in [Slot -> Entries]
        BY DEF Filled, Word, Entries
      <4> QED
        BY <4>1
    <3>2. N \in [1 .. Len(Regions) -> Nat]
      BY RegionFacts
    <3>3. phys = [mem |-> M, free_list |-> NoFrame, next |-> N,
                  halted |-> FALSE]
      BY DEF PageInit
    <3> HIDE DEF M
    <3>4. phys.next = N
      BY <3>3
    <3> HIDE DEF N
    <3>5. phys \in Memory /\ phys.free_list = NoFrame
      BY <3>1, <3>2, <3>3 DEF Memory, NoFrame
    <3> QED
      BY <2>1, <3>4, <3>5 DEF Blank, N
  <2> QED
    BY <2>1, <2>2 DEF PageInv, Running
<1>2. PageInv /\ [PageNext]_pageVars => PageInv'
  <2> SUFFICES ASSUME PageInv, [PageNext]_pageVars PROVE PageInv'
    OBVIOUS
  <2>1. CASE init_page_table
    BY <2>1, InitStep
  <2>2. ASSUME NEW num \in PageSizes, MMU_alloc_pages(num) PROVE PageInv'
    BY <2>2, AllocStep
  <2>3. ASSUME NEW a \in allocs, NEW v \in PagesHeld(a), Write(a, v)
        PROVE  PageInv'
    BY <2>3, WriteStep
  <2>4. ASSUME NEW a \in allocs, MMU_free_pages(a) PROVE PageInv'
    BY <2>4, FreeStep
  <2>5. CASE UNCHANGED pageVars
    <3>1. /\ phys' = phys /\ pml4' = pml4 /\ page_brk' = page_brk
          /\ tlb' = tlb /\ allocs' = allocs /\ used' = used
          /\ untouched' = untouched
      BY <2>5 DEF pageVars
    <3> QED
      BY <3>1 DEF PageInv, Running, HeldRight, HeldPages, Cached
  <2> QED
    BY <2>1, <2>2, <2>3, <2>4, <2>5 DEF PageNext
<1> QED
  BY <1>1, <1>2, PTL DEF PageSpec

\* As long as callers free pages they have touched, the kernel stops in the
\* allocator only for want of memory, whatever the sizes and the order of the
\* calls: no walk, fault or free meets an entry that leads nowhere.
THEOREM StopsWhenFull == PageSpec => []StopsOnlyWhenFull
<1>1. PageInv => StopsOnlyWhenFull
  <2>1. Fresh = FreshOf(phys)
    BY DEF Fresh, FreshOf
  <2> QED
    BY <2>1 DEF PageInv, StopsOnlyWhenFull, Full
<1> QED
  BY <1>1, PageInvariant, PTL

\* What was written to a page of the heap is there until it is freed, also
\* through translations that MMU_free_page's invlpg has left in the TLB.
THEOREM DataKept == PageSpec => []KeepsData
<1>1. PageInv => KeepsData
  <2> SUFFICES ASSUME PageInv, Running, NEW v \in used
               PROVE  phys.mem[FrameOf(phys, v)] = Data(v)
    BY DEF KeepsData
  <2>1. PICK at, Z : Contents(phys, at, used) /\ Cached(at, Z)
    BY DEF PageInv
  <2>2. FrameOf(phys, v) = at[Pos(0, v)]
    BY <2>1 DEF Cached, FrameOf
  <2> QED
    BY <2>1, <2>2 DEF Contents
<1> QED
  BY <1>1, PageInvariant, PTL

-----------------------------------------------------------------------------
(* One use.                                                                *)

\* A free list has no more nodes than there are frames.
LEMMA ListFits ==
    ASSUME NEW x, NEW at, NEW hand, Owned(x, at, hand), NEW n \in Nat,
           Linked(x, at, n)
    PROVE  n <= MemEnd
<1>1. PICK m \in Nat : m = MemEnd
  BY RegionFacts
<1> SUFFICES ASSUME m < n PROVE FALSE
  BY <1>1
<1> DEFINE S == 1 .. n
           T == 0 .. m - 1
           f == [i \in S |-> at[Pos(-1, i)]]
<1>2. \A i \in S : Pos(-1, i) \in DOMAIN at
  BY DEF Linked
<1>3. f \in [S -> T]
  <2>1. \A i \in S : at[Pos(-1, i)] \in T
    BY <1>1, <1>2, NodeFrame DEF Frame
  <2> QED
    BY <2>1
<1>4. \A i, j \in S : f[i] = f[j] => i = j
  BY <1>2, PosEqual DEF Owned
<1>5. IsFiniteSet(S) /\ IsFiniteSet(T) /\ Cardinality(T) < Cardinality(S)
  <2>1. 1 \in Int /\ n \in Int /\ 0 \in Int /\ m - 1 \in Int
    OBVIOUS
  <2>2. /\ IsFiniteSet(1 .. n)
        /\ Cardinality(1 .. n) = IF 1 > n THEN 0 ELSE n - 1 + 1
    BY <2>1, FS_Interval
  <2>3. /\ IsFiniteSet(0 .. m - 1)
        /\ Cardinality(0 .. m - 1) = IF 0 > m - 1 THEN 0 ELSE (m - 1) - 0 + 1
    BY <2>1, FS_Interval
  <2>4. Cardinality(S) = n
    BY <2>2
  <2>5. Cardinality(T) = m
    BY <2>3
  <2> QED
    BY <2>2, <2>3, <2>4, <2>5
<1> HIDE DEF S, T, f
<1>6. \E i, j \in S : i # j /\ f[i] = f[j]
  BY <1>3, <1>5, FS_PigeonHole
<1> QED
  BY <1>4, <1>6

\* The free list that FreeNodes follows.
LEMMA NodesFollowed ==
    ASSUME NEW at, NEW hand, Owned(phys, at, hand), NEW n \in Nat,
           Linked(phys, at, n)
    PROVE  \A u : u[1] # NoFrame =>
              (u \in FreeNodes <=> \E i \in 1 .. n : u = <<at[Pos(-1, i)], n - i>>)
<1>1. MemEnd \in Nat /\ n <= MemEnd
  BY ListFits, RegionFacts
<1>2. PICK g : /\ g[0] = phys.free_list
               /\ \A k \in 1 .. MemEnd :
                     g[k] = IF g[k - 1] = NoFrame THEN NoFrame
                            ELSE phys.mem[g[k - 1]][0].addr
               /\ FreeNodes = {<<g[k], k>> : k \in 0 .. MemEnd}
  BY <1>1, NodesWalk
<1> DEFINE Nth(k) == IF k < n THEN at[Pos(-1, n - k)] ELSE NoFrame
           P == {k \in 0 .. MemEnd : g[k] = Nth(k)}
<1>3. 0 \in P
  <2>1. g[0] = IF n = 0 THEN NoFrame ELSE at[Pos(-1, n)]
    BY <1>2 DEF Linked
  <2>2. n - 0 = n /\ (0 < n <=> n # 0) /\ 0 \in 0 .. MemEnd
    BY <1>1
  <2> QED
    BY <2>1, <2>2
<1>4. ASSUME NEW k \in 0 + 1 .. MemEnd, k - 1 \in P PROVE k \in P
  <2>1. g[k - 1] = Nth(k - 1) /\ k \in 1 .. MemEnd /\ k \in 0 .. MemEnd
    BY <1>1, <1>4
  <2>2. g[k] = IF g[k - 1] = NoFrame THEN NoFrame
               ELSE phys.mem[g[k - 1]][0].addr
    BY <1>2, <2>1
  <2>3. CASE ~(k - 1 < n)
    <3>1. ~(k < n)
      BY <2>3
    <3> QED
      BY <2>1, <2>2, <2>3, <3>1
  <2>4. CASE k - 1 < n
    <3>1. PICK i \in 1 .. n : i = n - (k - 1)
      BY <1>1, <2>4
    <3>2. Pos(-1, i) \in DOMAIN at
      BY DEF Linked
    <3>3. g[k - 1] = at[Pos(-1, i)] /\ at[Pos(-1, i)] # NoFrame
      BY <2>1, <2>4, <3>1, <3>2, NodeFrame
    <3>4. g[k] = IF i = 1 THEN NoFrame ELSE at[Pos(-1, i - 1)]
      BY <2>2, <3>3 DEF Linked
    <3>5. (i = 1 <=> ~(k < n)) /\ n - k = i - 1
      BY <3>1
    <3>6. g[k] = Nth(k)
      BY <3>4, <3>5
    <3> HIDE DEF Nth
    <3> QED
      BY <2>1, <3>6
  <2> QED
    BY <2>3, <2>4
<1> HIDE DEF P
<1>5. 0 .. MemEnd \subseteq P
  BY <1>1, <1>3, <1>4, Ascend
<1>6. \A k \in 0 .. MemEnd : g[k] = Nth(k)
  BY <1>5 DEF P
<1> SUFFICES ASSUME NEW u, u[1] # NoFrame
             PROVE  u \in FreeNodes
                       <=> \E i \in 1 .. n : u = <<at[Pos(-1, i)], n - i>>
  OBVIOUS
<1>7. ASSUME u \in FreeNodes
      PROVE  \E i \in 1 .. n : u = <<at[Pos(-1, i)], n - i>>
  <2>1. PICK k \in 0 .. MemEnd : u = <<g[k], k>>
    BY <1>2, <1>7
  <2>2. u[1] = Nth(k)
    BY <1>6, <2>1
  <2>3. k < n /\ u = <<at[Pos(-1, n - k)], k>>
    BY <1>6, <2>1, <2>2
  <2>4. PICK i \in 1 .. n : i = n - k
    BY <1>1, <2>3
  <2>5. k = n - i
    BY <2>4
  <2> QED
    BY <2>3, <2>4, <2>5
<1>8. ASSUME NEW i \in 1 .. n, u = <<at[Pos(-1, i)], n - i>>
      PROVE  u \in FreeNodes
  <2>1. PICK k \in 0 .. MemEnd : k = n - i
    BY <1>1
  <2>2. k < n /\ n - k = i
    BY <2>1
  <2>3. g[k] = at[Pos(-1, i)]
    BY <1>6, <2>2
  <2>4. u = <<g[k], k>>
    BY <1>8, <2>1, <2>3
  <2> QED
    BY <1>2, <2>4
<1> QED
  BY <1>7, <1>8

\* The tables that Tables finds.
LEMMA TablesFollowed ==
    ASSUME NEW at, NEW hand, NEW d, NEW b, NEW Z,
           Good(phys, pml4, at, hand, d, b, Z)
    PROVE  \A u : u \in Tables <=>
              \E l \in 0 .. LEVELS - 1, q \in Nat :
                 Pos(l + 1, q) \in DOMAIN at /\ u = <<at[Pos(l + 1, q)], l, q>>
<1>1. Tree(at, pml4) /\ Filed(phys, at, d, b, Z)
  BY DEF Good
<1>2. PICK f : /\ f[LEVELS - 1] = {<<pml4, 0>>}
               /\ \A l \in 0 .. LEVELS - 2 : f[l] = Below(f[l + 1])
               /\ Tables = UNION {{<<t[1], l, t[2]>> : t \in f[l]} :
                                     l \in 0 .. LEVELS - 1}
  BY TablesWalk
<1> DEFINE P == {l \in 0 .. LEVELS - 1 :
                    \A u : u \in f[l] <=>
                       \E q \in Nat : /\ Pos(l + 1, q) \in DOMAIN at
                                      /\ u = <<at[Pos(l + 1, q)], q>>}
<1>3. LEVELS - 1 \in P
  <2>1. /\ (LEVELS - 1) + 1 = LEVELS
        /\ LEVELS - 1 \in 0 .. LEVELS - 1 /\ 0 \in Nat
    BY Sizes
  <2>2. \A u : u \in f[LEVELS - 1] <=>
           \E q \in Nat : /\ Pos(LEVELS, q) \in DOMAIN at
                          /\ u = <<at[Pos(LEVELS, q)], q>>
    BY <1>1, <1>2, <2>1 DEF Tree
  <2> QED
    BY <2>1, <2>2
<1>4. ASSUME NEW l \in 0 .. (LEVELS - 1) - 1, l + 1 \in P PROVE l \in P
  <2>1. PICK k \in 1 .. LEVELS - 1 : k = l + 1
    BY Sizes
  <2>2. /\ l \in 0 .. LEVELS - 2 /\ l \in 0 .. LEVELS - 1
        /\ k \in 0 .. LEVELS - 1 /\ k # 0
    BY <2>1, Sizes
  <2>3. f[l] = Below(f[k])
    BY <1>2, <2>1, <2>2
  <2>4. \A u : u \in f[k] <=>
           \E q \in Nat : /\ Pos(k + 1, q) \in DOMAIN at
                          /\ u = <<at[Pos(k + 1, q)], q>>
    BY <1>4, <2>1
  <2>5. ASSUME NEW q \in Nat, NEW s \in Slot, Pos(k + 1, q) \in DOMAIN at
        PROVE  LET e == phys.mem[at[Pos(k + 1, q)]][s]
                   o == q * FANOUT + s
               IN  /\ o \in Nat
                   /\ e.present <=> Pos(k, o) \in DOMAIN at
                   /\ e.present => e.addr = at[Pos(k, o)]
    <3>1. PICK o \in Nat : /\ o = q * FANOUT + s /\ o \div FANOUT = q
                           /\ o % FANOUT = s
      BY ChildPlace
    <3>2. EntryRight(Entry(phys, at, k, o), at, k, o, d, b, Z)
      BY <1>1, <2>2, <2>5, <3>1 DEF Filed
    <3>3. Entry(phys, at, k, o) = phys.mem[at[Pos(k + 1, q)]][s]
      BY <3>1 DEF Entry
    <3> QED
      BY <2>2, <3>1, <3>2, <3>3 DEF EntryRight
  <2>6. ASSUME NEW u, u \in f[l]
        PROVE  \E q \in Nat :
                  Pos(k, q) \in DOMAIN at /\ u = <<at[Pos(k, q)], q>>
    <3>1. PICK t \in f[k], s \in Slot :
             /\ phys.mem[t[1]][s].present
             /\ u = <<phys.mem[t[1]][s].addr, t[2] * FANOUT + s>>
      BY <2>3, <2>6 DEF Below
    <3>2. PICK q \in Nat : Pos(k + 1, q) \in DOMAIN at
                              /\ t = <<at[Pos(k + 1, q)], q>>
      BY <2>4
    <3>3. t[1] = at[Pos(k + 1, q)] /\ t[2] = q
      BY <3>2
    <3>4. PICK o \in Nat : /\ o = q * FANOUT + s /\ Pos(k, o) \in DOMAIN at
                           /\ phys.mem[t[1]][s].addr = at[Pos(k, o)]
      BY <2>5, <3>1, <3>2, <3>3
    <3> QED
      BY <3>1, <3>3, <3>4
  <2>7. ASSUME NEW q \in Nat, Pos(k, q) \in DOMAIN at
        PROVE  <<at[Pos(k, q)], q>> \in f[l]
    <3>1. PICK o \in Nat, s \in Slot : /\ o = q \div FANOUT /\ s = q % FANOUT
                                       /\ q = o * FANOUT + s
      BY Digits
    <3>2. Pos(k + 1, o) \in DOMAIN at
      BY <1>1, <2>2, <2>7, <3>1 DEF Tree
    <3>3. PICK t : t = <<at[Pos(k + 1, o)], o>>
      OBVIOUS
    <3>4. t \in f[k] /\ t[1] = at[Pos(k + 1, o)] /\ t[2] = o
      BY <2>4, <3>2, <3>3
    <3>5. /\ phys.mem[t[1]][s].present
          /\ phys.mem[t[1]][s].addr = at[Pos(k, q)]
      BY <2>5, <2>7, <3>1, <3>2, <3>4
    <3>6. <<t, s>> \in {h \in f[k] \X Slot : phys.mem[h[1][1]][h[2]].present}
      BY <3>4, <3>5
    <3>7. <<at[Pos(k, q)], q>> =
             <<phys.mem[<<t, s>>[1][1]][<<t, s>>[2]].addr,
               <<t, s>>[1][2] * FANOUT + <<t, s>>[2]>>
      BY <3>1, <3>4, <3>5
    <3> QED
      BY <2>3, <3>6, <3>7 DEF Below
  <2>8. \A u : u \in f[l] <=>
           \E q \in Nat : Pos(k, q) \in DOMAIN at /\ u = <<at[Pos(k, q)], q>>
    BY <2>6, <2>7
  <2> QED
    BY <2>1, <2>2, <2>8
<1>5. 0 \in Int /\ LEVELS - 1 \in Int
  BY Sizes
<1> HIDE DEF P
<1>6. 0 .. LEVELS - 1 \subseteq P
  BY <1>3, <1>4, <1>5, Downward
<1>7. \A l \in 0 .. LEVELS - 1 : \A u : u \in f[l] <=>
         \E q \in Nat :
            Pos(l + 1, q) \in DOMAIN at /\ u = <<at[Pos(l + 1, q)], q>>
  BY <1>6 DEF P
<1>8. \A u : u \in Tables <=>
         \E l \in 0 .. LEVELS - 1 : \E t \in f[l] : u = <<t[1], l, t[2]>>
  BY <1>2
<1>9. ASSUME NEW u, u \in Tables
      PROVE  \E l \in 0 .. LEVELS - 1, q \in Nat :
                Pos(l + 1, q) \in DOMAIN at /\ u = <<at[Pos(l + 1, q)], l, q>>
  <2>1. PICK l \in 0 .. LEVELS - 1 : \E t \in f[l] : u = <<t[1], l, t[2]>>
    BY <1>8, <1>9
  <2>2. PICK t \in f[l] : u = <<t[1], l, t[2]>>
    BY <2>1
  <2>3. PICK q \in Nat :
           Pos(l + 1, q) \in DOMAIN at /\ t = <<at[Pos(l + 1, q)], q>>
    BY <1>7
  <2> QED
    BY <2>2, <2>3
<1>10. ASSUME NEW l \in 0 .. LEVELS - 1, NEW q \in Nat,
              Pos(l + 1, q) \in DOMAIN at
       PROVE  <<at[Pos(l + 1, q)], l, q>> \in Tables
  <2>1. PICK t \in f[l] : t = <<at[Pos(l + 1, q)], q>>
    BY <1>7, <1>10
  <2>2. <<at[Pos(l + 1, q)], l, q>> = <<t[1], l, t[2]>>
    BY <2>1
  <2> QED
    BY <1>8, <2>2
<1> QED
  BY <1>9, <1>10

\* The use that is behind a node, for a free list of n nodes.
UseOf(at, n, l, q) ==
    IF l = -1 THEN <<at[Pos(l, q)], "free", n - q>>
    ELSE IF l = 0 THEN <<at[Pos(l, q)], "page", q>>
    ELSE <<at[Pos(l, q)], "table", l - 1, q>>

\* The uses of frames are the frames that are fresh and the nodes.
LEMMA UsesAreNodes ==
    ASSUME NEW at, NEW Z, NEW n \in Nat,
           Good(phys, pml4, at, NoFrame, MemEnd, page_brk, Z),
           Linked(phys, at, n), Pages(at, used), HeldRight
    PROVE  \A u : u[1] # NoFrame =>
              (u \in Uses <=> \/ \E f \in FreshOf(phys) : u = <<f, "fresh">>
                              \/ \E l, q : /\ Pos(l, q) \in DOMAIN at
                                           /\ u = UseOf(at, n, l, q))
<1>1. /\ Typed(phys) /\ Owned(phys, at, NoFrame) /\ Tree(at, pml4)
  BY DEF Good
<1>2. Fresh = FreshOf(phys)
  BY DEF Fresh, FreshOf
<1>3. \A u : u[1] # NoFrame =>
         (u \in FreeNodes <=> \E i \in 1 .. n : u = <<at[Pos(-1, i)], n - i>>)
  BY <1>1, NodesFollowed
<1>4. \A u : u \in Tables <=>
         \E l \in 0 .. LEVELS - 1, q \in Nat :
            Pos(l + 1, q) \in DOMAIN at /\ u = <<at[Pos(l + 1, q)], l, q>>
  BY TablesFollowed
<1>5. ASSUME NEW v \in HeapPage
      PROVE  /\ Mapped(phys, v) <=> Pos(0, v) \in DOMAIN at
             /\ Mapped(phys, v) => PageFrame(v) = at[Pos(0, v)]
  <2>1. v \in Nat /\ v < Span[LEVELS] /\ ~(v < KernelHeap)
    BY HeapFacts, Sizes DEF HeapPage
  <2>2. /\ Mapped(phys, v) <=> Pos(0, v) \in DOMAIN at
        /\ Mapped(phys, v) => EntryOf(Walk(phys, v), v).addr = at[Pos(0, v)]
    BY <2>1, MappedFacts
  <2> QED
    BY <2>1, <2>2 DEF PageFrame
<1>6. ASSUME NEW v \in Nat, Pos(0, v) \in DOMAIN at PROVE v \in HeapPage
  <2>1. v \in HeldPages
    BY <1>6, HeldFacts DEF Pages
  <2>2. v \in KernelHeap .. page_brk - 1 /\ page_brk \in Nat
    BY <2>1, HeldFacts DEF HeldRight
  <2> QED
    BY <2>2, HeapFacts, Sizes DEF HeapPage, HeldRight
<1> SUFFICES ASSUME NEW u, u[1] # NoFrame
             PROVE  u \in Uses <=>
                       \/ \E f \in FreshOf(phys) : u = <<f, "fresh">>
                       \/ \E l, q : /\ Pos(l, q) \in DOMAIN at
                                    /\ u = UseOf(at, n, l, q)
  OBVIOUS
<1>7. u \in Uses <=> \/ \E f \in Fresh : u = <<f, "fresh">>
                     \/ \E o \in FreeNodes : u = <<o[1], "free", o[2]>>
                     \/ \E t \in Tables : u = <<t[1], "table", t[2], t[3]>>
                     \/ \E v \in HeapPage : /\ Mapped(phys, v)
                                            /\ u = <<PageFrame(v), "page", v>>
  BY DEF Uses
<1>8. ASSUME NEW o \in FreeNodes, u = <<o[1], "free", o[2]>>
      PROVE  \E l, q : Pos(l, q) \in DOMAIN at /\ u = UseOf(at, n, l, q)
  <2>1. o[1] # NoFrame
    BY <1>8
  <2>2. PICK i \in 1 .. n : o = <<at[Pos(-1, i)], n - i>>
    BY <1>3, <2>1
  <2>3. Pos(-1, i) \in DOMAIN at
    BY DEF Linked
  <2>4. o[1] = at[Pos(-1, i)] /\ o[2] = n - i
    BY <2>2
  <2>5. u = UseOf(at, n, -1, i)
    BY <1>8, <2>4 DEF UseOf
  <2> QED
    BY <2>3, <2>5
<1>9. ASSUME NEW t \in Tables, u = <<t[1], "table", t[2], t[3]>>
      PROVE  \E l, q : Pos(l, q) \in DOMAIN at /\ u = UseOf(at, n, l, q)
  <2>1. PICK l \in 0 .. LEVELS - 1, q \in Nat :
           Pos(l + 1, q) \in DOMAIN at /\ t = <<at[Pos(l + 1, q)], l, q>>
    BY <1>4
  <2>2. PICK k \in 1 .. LEVELS : k = l + 1
    BY Sizes
  <2>3. k # -1 /\ k # 0 /\ l = k - 1
    BY <2>2, Sizes
  <2>4. u = <<at[Pos(k, q)], "table", k - 1, q>>
    BY <1>9, <2>1, <2>2, <2>3
  <2>5. u = UseOf(at, n, k, q)
    BY <2>3, <2>4 DEF UseOf
  <2> QED
    BY <2>1, <2>2, <2>5
<1>10. ASSUME NEW v \in HeapPage, Mapped(phys, v),
              u = <<PageFrame(v), "page", v>>
       PROVE  \E l, q : Pos(l, q) \in DOMAIN at /\ u = UseOf(at, n, l, q)
  <2>1. Pos(0, v) \in DOMAIN at /\ PageFrame(v) = at[Pos(0, v)]
    BY <1>5, <1>10
  <2>2. u = UseOf(at, n, 0, v)
    BY <1>10, <2>1 DEF UseOf
  <2> QED
    BY <2>1, <2>2
<1>11. ASSUME NEW l, NEW q, Pos(l, q) \in DOMAIN at, u = UseOf(at, n, l, q)
       PROVE  u \in Uses
  <2>1. l \in -1 .. LEVELS /\ q \in Nat
    BY <1>1, <1>11, PosEqual DEF Owned
  <2>2. CASE l = -1
    <3>1. q \in 1 .. n
      BY <1>11, <2>1, <2>2 DEF Linked
    <3>2. PICK o : o = <<at[Pos(-1, q)], n - q>>
      OBVIOUS
    <3>3. o[1] = at[Pos(-1, q)] /\ o[2] = n - q
      BY <3>2
    <3>4. o[1] # NoFrame
      BY <1>1, <1>11, <2>2, <3>3, NodeFrame
    <3>5. o \in FreeNodes
      BY <1>3, <3>1, <3>2, <3>4
    <3>6. u = <<o[1], "free", o[2]>>
      BY <1>11, <2>2, <3>3 DEF UseOf
    <3> QED
      BY <1>7, <3>5, <3>6
  <2>3. CASE l = 0
    <3>1. q \in HeapPage
      BY <1>6, <1>11, <2>1, <2>3
    <3>2. Mapped(phys, q) /\ PageFrame(q) = at[Pos(0, q)]
      BY <1>5, <1>11, <2>3, <3>1
    <3>3. u = <<PageFrame(q), "page", q>>
      BY <1>11, <2>3, <3>2 DEF UseOf
    <3> QED
      BY <1>7, <3>1, <3>2, <3>3
  <2>4. CASE l # -1 /\ l # 0
    <3>1. PICK k \in 0 .. LEVELS - 1 : k = l - 1
      BY <2>1, <2>4, Sizes
    <3>2. l = k + 1
      BY <2>1, <3>1
    <3>3. PICK t : t = <<at[Pos(l, q)], k, q>>
      OBVIOUS
    <3>4. t \in Tables
      BY <1>4, <1>11, <2>1, <3>1, <3>2, <3>3
    <3>5. t[1] = at[Pos(l, q)] /\ t[2] = k /\ t[3] = q
      BY <3>3
    <3>6. u = <<at[Pos(l, q)], "table", l - 1, q>>
      BY <1>11, <2>4 DEF UseOf
    <3>7. u = <<t[1], "table", t[2], t[3]>>
      BY <3>1, <3>5, <3>6
    <3> QED
      BY <1>7, <3>4, <3>7
  <2> QED
    BY <2>2, <2>3, <2>4
<1> QED
  BY <1>2, <1>7, <1>8, <1>9, <1>10, <1>11

\* Every usable frame has exactly one use, whatever the number and size of
\* the tables, the memory map and the calls: MMU_pf_alloc, MMU_pf_free, the
\* walks of the page table and the fault handler neither lose a frame nor
\* give it out twice.
THEOREM OneUseEach == PageSpec => []OneUse
<1>1. PageInv => OneUse
  <2> SUFFICES ASSUME PageInv, Running, NEW f \in UsableFrames
               PROVE  Cardinality({u \in Uses : u[1] = f}) = 1
    BY DEF OneUse
  <2>1. /\ HeldRight
        /\ \E at, Z : /\ Good(phys, pml4, at, NoFrame, MemEnd, page_brk, Z)
                      /\ Pages(at, used)
    BY DEF PageInv
  <2>2. PICK at, Z : /\ Good(phys, pml4, at, NoFrame, MemEnd, page_brk, Z)
                     /\ Pages(at, used)
    BY <2>1
  <2>3. Owned(phys, at, NoFrame) /\ FreeList(phys, at)
    BY <2>2 DEF Good
  <2>4. PICK n \in Nat : Linked(phys, at, n)
    BY <2>3 DEF FreeList
  <2>5. f # NoFrame
    BY UsableFacts
  <2>6. \A u : u[1] # NoFrame =>
           (u \in Uses <=> \/ \E g \in FreshOf(phys) : u = <<g, "fresh">>
                           \/ \E l, q : /\ Pos(l, q) \in DOMAIN at
                                        /\ u = UseOf(at, n, l, q))
    BY <2>1, <2>2, <2>4, UsesAreNodes
  <2>7. \A l, q : UseOf(at, n, l, q)[1] = at[Pos(l, q)]
    BY DEF UseOf
  <2>8. \A u : u \in {h \in Uses : h[1] = f} <=>
           /\ u[1] = f
           /\ \/ f \in FreshOf(phys) /\ u = <<f, "fresh">>
              \/ \E l, q : Pos(l, q) \in DOMAIN at /\ u = UseOf(at, n, l, q)
    <3>1. \A g : <<g, "fresh">>[1] = g
      OBVIOUS
    <3> QED
      BY <2>5, <2>6, <3>1
  <2> DEFINE U == {h \in Uses : h[1] = f}
  <2> HIDE DEF U
  <2>9. \E c : U = {c}
    <3>1. CASE f \in FreshOf(phys)
      <4>1. \A l, q : Pos(l, q) \in DOMAIN at => at[Pos(l, q)] # f
        BY <2>3, <3>1 DEF Owned
      <4>2. PICK c : c = <<f, "fresh">>
        OBVIOUS
      <4>3. c[1] = f
        BY <4>2
      <4>4. \A u : u \in U <=> u = c
        BY <2>7, <2>8, <3>1, <4>1, <4>2, <4>3 DEF U
      <4>5. U = {c}
        BY <4>4
      <4> QED
        BY <4>5
    <3>2. CASE f \notin FreshOf(phys)
      <4>1. PICK o \in DOMAIN at : at[o] = f
        BY <2>3, <2>5, <3>2 DEF Owned
      <4>2. PICK l \in -1 .. LEVELS, q \in Nat : o = Pos(l, q)
        BY <2>3, <4>1, PosEqual DEF Owned
      <4>3. ASSUME NEW k, NEW p, Pos(k, p) \in DOMAIN at, at[Pos(k, p)] = f
            PROVE  k = l /\ p = q
        <5>1. Pos(k, p) = Pos(l, q)
          BY <2>3, <4>1, <4>2, <4>3 DEF Owned
        <5> QED
          BY <5>1, PosEqual
      <4>4. PICK c : c = UseOf(at, n, l, q)
        OBVIOUS
      <4>5. \A u : u \in U <=> u = c
        BY <2>7, <2>8, <3>2, <4>1, <4>2, <4>3, <4>4 DEF U
      <4>6. U = {c}
        BY <4>5
      <4> QED
        BY <4>6
    <3> QED
      BY <3>1, <3>2
  <2>10. Cardinality(U) = 1
    BY <2>9, FS_Singleton
  <2> QED
    BY <2>10 DEF U
<1> QED
  BY <1>1, PageInvariant, PTL
=============================================================================
