------------------------------- MODULE Kmalloc -------------------------------
(***************************************************************************)
(* kmalloc and kfree of src/allocator.c over an address space of words of  *)
(* eight bytes.  The pools' free lists live in the blocks: the first word  *)
(* of a block is the FreeList.next of a free block and the                 *)
(* KmallocHeader.pool of one that is given out.  Pages come from sbrk and  *)
(* are there once they are touched, as module PageAlloc has it; freeing a  *)
(* page that was never touched stops the kernel.  No handler allocates but *)
(* kexit_handler, whose thread is not in kmalloc, so a call is one step.   *)
(***************************************************************************)
EXTENDS Integers, Sequences, FiniteSets

CONSTANTS PAGE,             \* MMU_PAGE_SIZE in words
          HEADER,           \* sizeof(struct KmallocHeader) in words
          block_sizes,      \* header included, in words
          Sizes,            \* the sizes callers ask for
          PROC_STACK_SIZE,
          INITIAL,          \* sizeof(struct InitalProcFrame)
          MaxPages,         \* bound on the pages of the heap
          MaxLive           \* bound on the blocks held at a time

Pool == 1 .. Len(block_sizes)

ASSUME KmallocAssumption ==
    /\ PAGE \in Nat \ {0} /\ HEADER \in 1 .. PAGE - 1 /\ MaxPages \in Nat
    /\ MaxLive \in Nat
    /\ block_sizes \in Seq(Nat \ {0})
    /\ \A p \in Pool : block_sizes[p] > HEADER /\ PAGE % block_sizes[p] = 0
    /\ \A p, q \in Pool : p < q => block_sizes[p] < block_sizes[q]
    /\ Sizes \subseteq Nat
    /\ INITIAL \in Nat \ {0} /\ PROC_STACK_SIZE \in Nat
    /\ PROC_STACK_SIZE >= INITIAL

\* The initial frame of a thread starts in the second page of its stack's
\* block at the latest, so that no page lies between it and the header.
StackInTwoPages == HEADER + PROC_STACK_SIZE - INITIAL < 2 * PAGE

\* The heap starts at page 1, so that no block has the address NULL.
NULL == 0
HeapBase == PAGE

VARIABLES brk,
          head,      \* pool->head
          first,     \* the first word of each block: [next] or [pool, size]
          touched,   \* the pages a frame stands behind
          freed,     \* the pages MMU_free_pages was called with
          live,      \* what callers hold: [addr, size, stack]
          halted

vars == <<brk, head, first, touched, freed, live, halted>>

Init == /\ brk = HeapBase
        /\ head = [p \in Pool |-> NULL]
        /\ first = << >>
        /\ touched = {} /\ freed = {}
        /\ live = {}
        /\ halted = FALSE

-----------------------------------------------------------------------------
\* init_alloc's max_size.
max_size(p) == block_sizes[p] - HEADER

\* Fault: the header is forgotten in the search.
FitsWithoutHeader(size) == {p \in Pool : size <= block_sizes[p]}

Fitting(size) == {p \in Pool : size <= max_size(p)}

PoolFor(size) == CHOOSE p \in Fitting(size) : \A q \in Fitting(size) : p <= q

\* Overwrite a function at the places where another one is defined.
Over(f, g) == [a \in DOMAIN f \cup DOMAIN g |->
                 IF a \in DOMAIN g THEN g[a] ELSE f[a]]

Blocks(p, page) ==
    {a \in page .. page + PAGE - 1 : (a - page) % block_sizes[p] = 0}

\* pool_allocate_page pushes the blocks from the lowest to the highest, each
\* pointing at the one below and the lowest at the empty list.
Chain(p, page) ==
    [a \in Blocks(p, page) |->
       [next |-> IF a = page THEN NULL ELSE a - block_sizes[p]]]

LastBlock(p, page) == CHOOSE a \in Blocks(p, page) :
                         \A b \in Blocks(p, page) : b <= a

Held(addr, size, stack) == [addr |-> addr, size |-> size, stack |-> stack]

\* The block on top of a pool's list, whose header then replaces its link.
Take(p, list, top, size) ==
    /\ head' = [head EXCEPT ![p] = list[top].next]
    /\ first' = Over(list, [a \in {top} |-> [pool |-> p, size |-> 0]])
    /\ live' = live \cup {Held(top + HEADER, size, FALSE)}

kmalloc_pool(size) ==
    /\ ~halted /\ Fitting(size) # {} /\ Cardinality(live) < MaxLive
    /\ LET p == PoolFor(size)
       IN  \/ /\ head[p] # NULL
              /\ Take(p, first, head[p], size)
              /\ UNCHANGED <<brk, touched>>
           \/ /\ head[p] = NULL
              /\ brk + PAGE <= HeapBase + MaxPages * PAGE
              /\ brk' = brk + PAGE
              /\ touched' = touched \cup {brk \div PAGE}
              /\ Take(p, Over(first, Chain(p, brk)), LastBlock(p, brk), size)
    /\ UNCHANGED <<freed, halted>>

num_pages(size) == size \div PAGE + (IF size % PAGE = 0 THEN 0 ELSE 1)

\* The pages that the words from a on lie in.
PagesOf(a, words) == (a \div PAGE) .. ((a + words - 1) \div PAGE)

\* Writing the header touches the first page.
Large(size, stack, more) ==
    LET words == size + HEADER
    IN  /\ ~halted /\ Fitting(size) = {} /\ Cardinality(live) < MaxLive
        /\ brk + num_pages(words) * PAGE <= HeapBase + MaxPages * PAGE
        /\ brk' = brk + num_pages(words) * PAGE
        /\ first' = Over(first, [a \in {brk} |-> [pool |-> NULL,
                                                 size |-> words]])
        /\ touched' = touched \cup {brk \div PAGE} \cup more
        /\ live' = live \cup {Held(brk + HEADER, size, stack)}
        /\ UNCHANGED <<head, freed, halted>>

kmalloc_large(size) == Large(size, FALSE, {})

\* Fault: the initial frame is put at the bottom of the stack.
StackFrameLow(frame) == PagesOf(frame, INITIAL)

\* PROC_create_kthread writes a thread's initial frame at the top of its stack.
StackFrame(frame) == PagesOf(frame + PROC_STACK_SIZE - INITIAL, INITIAL)

AllocStack ==
    Large(PROC_STACK_SIZE, TRUE, StackFrame(brk + HEADER))

\* The holder of a block uses all of it.
Use(b) ==
    /\ ~halted /\ b \in live /\ b.size > 0
    /\ touched' = touched \cup PagesOf(b.addr, b.size)
    /\ UNCHANGED <<brk, head, first, freed, live, halted>>

\* Fault: the loop runs one page too far.
PagesThrough(addr, num) == (addr \div PAGE) .. (addr \div PAGE) + num

\* MMU_free_pages(addr, num): page tables are indexed by page, so that addr
\* lies behind the header of its page makes no difference.
PagesFrom(addr, num) == (addr \div PAGE) .. (addr \div PAGE) + num - 1

\* Fault: kfree puts the block on the list of the smallest pool.
FreeToFirst(b) ==
    LET block == b.addr - HEADER
        header == first[block]
    IN  /\ ~halted /\ b \in live /\ header.pool # NULL
        /\ first' = [first EXCEPT ![block] = [next |-> head[1]]]
        /\ head' = [head EXCEPT ![1] = block]
        /\ live' = live \ {b}
        /\ UNCHANGED <<brk, touched, freed, halted>>

kfree_pool(b) ==
    LET block == b.addr - HEADER
        header == first[block]
    IN  /\ ~halted /\ b \in live /\ header.pool # NULL
        /\ first' = [first EXCEPT ![block] = [next |-> head[header.pool]]]
        /\ head' = [head EXCEPT ![header.pool] = block]
        /\ live' = live \ {b}
        /\ UNCHANGED <<brk, touched, freed, halted>>

kfree_large(b) ==
    LET block == b.addr - HEADER
        header == first[block]
        pages == PagesFrom(b.addr, num_pages(header.size))
    IN  /\ ~halted /\ b \in live /\ header.pool = NULL
        /\ halted' = ~(pages \subseteq touched \ freed)
        /\ freed' = freed \cup pages
        /\ live' = live \ {b}
        /\ UNCHANGED <<brk, head, first, touched>>

Next == \/ \E size \in Sizes : kmalloc_pool(size) \/ kmalloc_large(size)
        \/ AllocStack
        \/ \E b \in live : Use(b) \/ kfree_pool(b) \/ kfree_large(b)

Spec == Init /\ [][Next]_vars
-----------------------------------------------------------------------------
\* The blocks on the list of pool p, each with its place on it; a list that
\* runs in a circle has more places than the heap has words.
OnList(p) ==
    LET node[n \in 0 .. Cardinality(DOMAIN first)] ==
            IF n = 0 THEN head[p]
            ELSE LET last == node[n - 1]
                 IN  IF last = NULL THEN NULL ELSE first[last].next
    IN  {<<node[n], n>> : n \in DOMAIN node} \ ({NULL} \X DOMAIN node)

Free(p) == {n[1] : n \in OnList(p)}

\* No two blocks that callers hold share a word, header included, and all
\* lie inside the heap: the pool that kmalloc picks has room for the header.
BlocksDisjoint ==
    /\ \A b \in live : b.addr - HEADER >= HeapBase /\ b.addr + b.size <= brk
    /\ \A b, c \in live : b # c => \/ b.addr + b.size <= c.addr - HEADER
                                   \/ c.addr + c.size <= b.addr - HEADER

\* The header of block a names the pool it came from, or none.
PoolOf(a) == IF "pool" \in DOMAIN first[a] THEN first[a].pool ELSE NULL

\* Whatever the order of frees and of new pages, a block is on one list, at
\* one place, or held, and it stays in the pool it was cut for: its page holds
\* as many blocks as have the size of that pool, and each is in its place.
Conserved ==
    /\ \A p \in Pool : Cardinality(Free(p)) = Cardinality(OnList(p))
    /\ \A p, q \in Pool : p # q => Free(p) \cap Free(q) = {}
    /\ \A a \in DOMAIN first :
          (a \in UNION {Free(p) : p \in Pool}) <=> "next" \in DOMAIN first[a]
    /\ \A p \in Pool, a \in DOMAIN first :
          a \in Free(p) \/ PoolOf(a) = p =>
             /\ a % block_sizes[p] = 0
             /\ Cardinality({b \in DOMAIN first : b \div PAGE = a \div PAGE})
                   = PAGE \div block_sizes[p]

\* kfree of a large block, which passes on the address behind the header,
\* frees no page that another block, held or on a list, lies in.
FreesOwnPages ==
    /\ \A b \in live : PagesOf(b.addr - HEADER, b.size + HEADER) \cap freed = {}
    /\ \A p \in Pool, a \in DOMAIN first :
          a \in Free(p) => (a \div PAGE) \notin freed

\* The whole stack of a thread is there from its creation: the header and the
\* initial frame touch each of its pages.  So no push of an interrupt or of a
\* context switch ever faults.
StackPresent ==
    \A b \in live : b.stack => PagesOf(b.addr, b.size) \subseteq touched
=============================================================================
