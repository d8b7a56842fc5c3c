------------------------------ MODULE PageAlloc ------------------------------
(***************************************************************************)
(* The page frame allocator, the page table and demand paging:             *)
(* src/page_allocator.c and src/page_table.c, over the physical memory     *)
(* they share.  Addresses are in pages.  A word of memory is a page table  *)
(* entry or the pointer of a free node: a page-aligned pointer is an entry *)
(* whose flags are zero, so one format serves both, and a frame that is    *)
(* used twice is read as what the other use has written.                   *)
(*                                                                         *)
(* No interrupt handler allocates memory and threads are cooperative, so a *)
(* call is one step.  Its callers free what they were given, once.         *)
(***************************************************************************)
EXTENDS Integers, Sequences, FiniteSets

CONSTANTS FANOUT,          \* entries of a table, 512
          LEVELS,          \* levels of the page table, 4
          Regions,         \* the usable frames, as MemoryMap leaves them
          MaxHeap,         \* bound on the pages that sbrk hands out
          PageSizes        \* the numbers of pages callers ask for

MemEnd == Regions[Len(Regions)].end

\* The pages that an entry of a table of level l stands for.
Span[l \in 0 .. LEVELS] == IF l = 0 THEN 1 ELSE FANOUT * Span[l - 1]

\* The kernel heap starts at the second entry of the top-level table.
KernelHeap == Span[LEVELS - 1]

ASSUME PageAllocAssumption ==
    /\ FANOUT \in Nat /\ FANOUT > 1 /\ LEVELS \in Nat /\ LEVELS > 1
    /\ Regions \in Seq([start : Nat \ {0}, end : Nat]) /\ Regions # <<>>
    /\ \A r \in 1 .. Len(Regions) : Regions[r].start < Regions[r].end
    /\ \A r, s \in 1 .. Len(Regions) :
          r < s => Regions[r].end <= Regions[s].start
    /\ MemEnd <= KernelHeap /\ MaxHeap \in Nat /\ MaxHeap <= KernelHeap
    /\ PageSizes \subseteq Nat \ {0}

Frame == 0 .. MemEnd - 1
Slot == 0 .. FANOUT - 1
HeapPage == KernelHeap .. KernelHeap + MaxHeap - 1

\* Frame 0 is NULL.
NoFrame == 0
Word(present, avail, addr) ==
    [present |-> present, avail |-> avail, addr |-> addr]
Pointer(f) == Word(FALSE, FALSE, f)
Filled(w) == [s \in Slot |-> w]

VARIABLES
    phys,     \* [mem, free_list, next, halted]; next is that of each region
    pml4,     \* the table that CR3 points at, NoFrame before it is built
    page_brk,
    tlb,      \* the translations of heap pages that the CPU has cached
    allocs,   \* what callers hold: [base, num]
    used,     \* the pages of it they have written
    untouched \* a page was freed that its holder had not written

pageVars == <<phys, pml4, page_brk, tlb, allocs, used, untouched>>

\* Nobody has cleared the memory: every word looks like a present entry.
PageInit ==
    /\ phys = [mem |-> [f \in Frame |-> Filled(Word(TRUE, TRUE, 1))],
               free_list |-> NoFrame,
               next |-> [r \in 1 .. Len(Regions) |-> Regions[r].start],
               halted |-> FALSE]
    /\ pml4 = NoFrame
    /\ page_brk = KernelHeap
    /\ tlb = << >>
    /\ allocs = {}
    /\ used = {} /\ untouched = FALSE

-----------------------------------------------------------------------------
(* The page frame allocator: what a call returns and the memory after it.  *)

HasNext(x, r) == x.next[r] < Regions[r].end

FirstRegion(x) == CHOOSE r \in 1 .. Len(Regions) :
                     HasNext(x, r) /\ \A s \in 1 .. r - 1 : ~HasNext(x, s)

\* Fault: the head of the free list stays on it.
PopNothing(x) == x.free_list

PopFree(x) == x.mem[x.free_list][0].addr

\* The free list first, then the first region with room, else EXIT.
MMU_pf_alloc(x) ==
    IF x.free_list # NoFrame
    THEN [addr |-> x.free_list, m |-> [x EXCEPT !.free_list = PopFree(x)]]
    ELSE IF \E r \in 1 .. Len(Regions) : HasNext(x, r)
    THEN [addr |-> x.next[FirstRegion(x)],
          m |-> [x EXCEPT !.next[FirstRegion(x)] = @ + 1]]
    ELSE [addr |-> NoFrame, m |-> [x EXCEPT !.halted = TRUE]]

-----------------------------------------------------------------------------
(* The page table.                                                         *)

\* split_virt_addr: the index of page v in a table of level l.
Index(v, l) == (v \div Span[l]) % FANOUT

NewTable == Filled(Pointer(NoFrame))

\* One round of the loop in page_table_get_entry; w = [m, table, found].
Descend(w, index, allocate) ==
    LET entry == w.m.mem[w.table][index]
        new == MMU_pf_alloc(w.m)
        cleared == [new.m EXCEPT !.mem[new.addr] = NewTable]
    IN  IF w.m.halted \/ ~w.found THEN w
        ELSE IF entry.present THEN [w EXCEPT !.table = entry.addr]
        ELSE IF ~allocate THEN [w EXCEPT !.found = FALSE]
        ELSE IF new.m.halted THEN [w EXCEPT !.m = new.m]
        ELSE [w EXCEPT !.table = new.addr,
                       !.m = [cleared EXCEPT !.mem[w.table][index] =
                                 [@ EXCEPT !.present = TRUE,
                                           !.addr = new.addr]]]

page_table_get_entry(x, root, v, allocate) ==
    LET walk[l \in 0 .. LEVELS - 1] ==
            IF l = LEVELS - 1
            THEN [m |-> x, table |-> root, found |-> TRUE]
            ELSE Descend(walk[l + 1], Index(v, l + 1), allocate)
    IN  walk[0]

\* The entry of page v that a walk has found, and its update.
EntryOf(w, v) == w.m.mem[w.table][Index(v, 0)]

SetEntry(w, v, entry) ==
    IF w.m.halted THEN w.m
    ELSE [w.m EXCEPT !.mem[w.table][Index(v, 0)] = entry]

direct_map_callback(w, v) == SetEntry(w, v, [EntryOf(w, v) EXCEPT
                                               !.present = TRUE, !.addr = v])

mark_available_callback(w, v) ==
    SetEntry(w, v, [EntryOf(w, v) EXCEPT !.avail = TRUE])

\* The function that page_table_walk calls on each page is one of the two.
Callback(name, w, v) == CASE name = "direct_map" -> direct_map_callback(w, v)
                          [] name = "available" -> mark_available_callback(w, v)

page_table_walk(x, root, start, end, name) ==
    LET walk[v \in start .. end] ==
            IF v = start THEN x
            ELSE Callback(name, page_table_get_entry(walk[v - 1], root, v - 1,
                                                     TRUE), v - 1)
    IN  walk[end]

-----------------------------------------------------------------------------
(* Demand paging.                                                          *)

page_fault_handler(x, v) ==
    LET w == page_table_get_entry(x, pml4, v, FALSE)
        new == MMU_pf_alloc(w.m)
    IN  IF ~w.found \/ ~EntryOf(w, v).avail
        THEN [x EXCEPT !.halted = TRUE]
        ELSE SetEntry([w EXCEPT !.m = new.m], v,
                      [EntryOf(w, v) EXCEPT !.addr = new.addr,
                                            !.present = TRUE])

Walk(x, v) == page_table_get_entry(x, pml4, v, FALSE)

Mapped(x, v) == Walk(x, v).found /\ EntryOf(Walk(x, v), v).present

\* The memory once the CPU has access to page v.
Access(x, v) == IF Mapped(x, v) THEN x ELSE page_fault_handler(x, v)

\* A store to the frame, through the direct map: frame 0 is not in it.
MMU_pf_free(x, f) ==
    LET a == Access(x, f)
    IN  IF a.halted THEN a
        ELSE [a EXCEPT !.mem[f][0] = Pointer(a.free_list),
                       !.free_list = f]

\* Fault: the entry stays present.
FreeOnly(x, v) ==
    LET w == page_table_get_entry(x, pml4, v, TRUE)
    IN  MMU_pf_free(w.m, EntryOf(w, v).addr)

\* MMU_free_page.  The operand of its invlpg is the variable that holds the
\* address, so the page's cached translation stays.
FreePage(x, v) ==
    LET w == page_table_get_entry(x, pml4, v, TRUE)
        freed == MMU_pf_free(w.m, EntryOf(w, v).addr)
    IN  SetEntry([w EXCEPT !.m = freed], v,
                 [EntryOf(w, v) EXCEPT !.present = FALSE])

-----------------------------------------------------------------------------
Running == pml4 # NoFrame /\ ~phys.halted

\* Page 0 stays out of the direct map.
init_page_table ==
    /\ pml4 = NoFrame /\ ~phys.halted
    /\ LET root == MMU_pf_alloc(phys)
           cleared == [root.m EXCEPT
                         !.mem[root.addr] = NewTable]
       IN  /\ pml4' = root.addr
           /\ phys' = page_table_walk(cleared, root.addr, 1, MemEnd,
                                      "direct_map")
    /\ UNCHANGED <<page_brk, tlb, allocs, used, untouched>>

\* Fault: the last page is not marked.
AllocPagesShort(num) ==
    /\ Running
    /\ page_brk + num <= KernelHeap + MaxHeap
    /\ phys' = page_table_walk(phys, pml4, page_brk, page_brk + num - 1,
                               "available")
    /\ page_brk' = page_brk + num
    /\ allocs' = allocs \cup {[base |-> page_brk, num |-> num]}
    /\ UNCHANGED <<pml4, tlb, used, untouched>>

\* MMU_alloc_page, and MMU_alloc_pages for any number.
MMU_alloc_pages(num) ==
    /\ Running
    /\ page_brk + num <= KernelHeap + MaxHeap
    /\ phys' = page_table_walk(phys, pml4, page_brk, page_brk + num,
                               "available")
    /\ page_brk' = page_brk + num
    /\ allocs' = allocs \cup {[base |-> page_brk, num |-> num]}
    /\ UNCHANGED <<pml4, tlb, used, untouched>>

PagesHeld(a) == a.base .. a.base + a.num - 1

\* What the holder of page v writes all over it.
Data(v) == Filled(Word(TRUE, FALSE, v))

FrameOf(x, v) == IF v \in DOMAIN tlb THEN tlb[v]
                 ELSE EntryOf(Walk(x, v), v).addr

\* The holder of a page writes it; a page that is not there faults first.
Write(a, v) ==
    /\ Running
    /\ a \in allocs /\ v \in PagesHeld(a)
    /\ LET x == IF v \in DOMAIN tlb THEN phys ELSE Access(phys, v)
       IN  \/ /\ x.halted
              /\ phys' = x
              /\ UNCHANGED <<tlb, used>>
           \/ /\ ~x.halted
              /\ phys' = [x EXCEPT !.mem[FrameOf(x, v)] = Data(v)]
              /\ tlb' = [p \in DOMAIN tlb \cup {v} |->
                           IF p = v THEN FrameOf(x, v) ELSE tlb[p]]
              /\ used' = used \cup {v}
    /\ UNCHANGED <<pml4, page_brk, allocs, untouched>>

\* A page that was never touched has the frame number 0, which MMU_free_page
\* frees as well.  EXIT ends the loop.
MMU_free_pages(a) ==
    /\ Running
    /\ a \in allocs
    /\ LET loop[v \in a.base .. a.base + a.num] ==
              IF v = a.base THEN phys
              ELSE IF loop[v - 1].halted THEN loop[v - 1]
              ELSE FreePage(loop[v - 1], v - 1)
       IN  phys' = loop[a.base + a.num]
    /\ allocs' = allocs \ {a}
    /\ used' = used \ PagesHeld(a)
    /\ untouched' = (untouched \/ ~(PagesHeld(a) \subseteq used))
    /\ UNCHANGED <<pml4, page_brk, tlb>>

PageNext ==
    \/ init_page_table
    \/ \E num \in PageSizes : MMU_alloc_pages(num)
    \/ \E a \in allocs : \/ \E v \in PagesHeld(a) : Write(a, v)
                         \/ MMU_free_pages(a)

PageSpec == PageInit /\ [][PageNext]_pageVars

-----------------------------------------------------------------------------
UsableFrames == UNION {Regions[r].start .. Regions[r].end - 1 :
                    r \in 1 .. Len(Regions)}

Fresh ==
    UNION {phys.next[r] .. Regions[r].end - 1 : r \in 1 .. Len(Regions)}

\* The n-th node of the free list from 0 on; a list that runs in a circle
\* has more nodes than there are frames.
FreeNodes ==
    LET node[n \in 0 .. MemEnd] ==
            IF n = 0 THEN phys.free_list
            ELSE LET last == node[n - 1]
                 IN  IF last = NoFrame THEN NoFrame
                     ELSE phys.mem[last][0].addr
    IN  {<<node[n], n>> : n \in 0 .. MemEnd}

\* The tables that the root leads to, each with its level and place there.
Tables ==
    LET level[l \in 0 .. LEVELS - 1] ==
            IF l = LEVELS - 1 THEN {<<pml4, 0>>}
            ELSE {<<phys.mem[ts[1][1]][ts[2]].addr,
                    ts[1][2] * FANOUT + ts[2]>> :
                     ts \in {u \in level[l + 1] \X Slot :
                                phys.mem[u[1][1]][u[2]].present}}
    IN  UNION {{<<t[1], l, t[2]>> : t \in level[l]} : l \in 0 .. LEVELS - 1}

PageFrame(v) == EntryOf(Walk(phys, v), v).addr

\* Every use of a frame: the frame first, then what tells the use apart.
Uses ==
    {<<f, "fresh">> : f \in Fresh}
    \cup {<<n[1], "free", n[2]>> : n \in FreeNodes}
    \cup {<<t[1], "table", t[2], t[3]>> : t \in Tables}
    \cup {<<PageFrame(v), "page", v>> :
             v \in {p \in HeapPage : Mapped(phys, p)}}

\* Every usable frame has exactly one use: it is still in its region, on the
\* free list, a page table, or behind one page of the heap.  No sequence of
\* allocations, faults and frees uses a frame twice or loses one.
OneUse ==
    Running => LET uses == Uses
               IN  \A f \in UsableFrames :
                      Cardinality({u \in uses : u[1] = f}) = 1

\* Memtest's "bit pattern before and after should match!": what was written
\* to a page of the heap is there until it is freed, also through cached
\* translations that no free has invalidated.
KeepsData == Running => \A v \in used : phys.mem[FrameOf(phys, v)] = Data(v)

\* As long as callers free pages they have touched, the kernel stops in the
\* allocator only for want of memory: no page that a caller holds is an
\* "Invalid page access" of page_fault_handler.
StopsOnlyWhenFull ==
    phys.halted /\ ~untouched => Fresh = {} /\ phys.free_list = NoFrame
=============================================================================
