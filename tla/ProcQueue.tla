----------------------------- MODULE ProcQueue ------------------------------
(***************************************************************************)
(* The circular doubly linked queues of src/processes.c at the level of    *)
(* their pointers.  Beside the pointers, seq holds for every queue the     *)
(* sequence that module QueueOps computes for the same operations; the     *)
(* scheduler's model is written in terms of those sequences.               *)
(*                                                                         *)
(* append and unlink run with interrupts off, or where no interrupt        *)
(* touches a queue, so each is one step.  cycle_next_proc runs with        *)
(* interrupts on: a handler may unblock processes between its load of the  *)
(* head's successor and its store of the head.                             *)
(***************************************************************************)
EXTENDS QueueOps

CONSTANTS Node,     \* the ProcNodes
          Waiting,  \* the queues processes block on
          Avail,    \* avail_procs
          NULL

Queue == Waiting \cup {Avail}

Pointer == Node \cup {NULL}

ASSUME ProcQueueAssumption == /\ NULL \notin Node
                              /\ Avail \notin Waiting

VARIABLES head,     \* queue->head
          next,     \* node->next
          prev,     \* node->prev
          tmp,      \* the successor cycle_next_proc has loaded, or NULL
          seq       \* the queues as QueueOps has them

links == <<head, next, prev>>
queueVars == <<head, next, prev, tmp, seq>>

\* kmalloc does not clear the nodes it hands out.
QueueInit == /\ head = [q \in Queue |-> NULL]
             /\ next \in [Node -> Pointer]
             /\ prev \in [Node -> Pointer]
             /\ tmp = NULL
             /\ seq = [q \in Queue |-> <<>>]

-----------------------------------------------------------------------------
heap == [head |-> head, next |-> next, prev |-> prev]

LinkLast(h, n, q) ==
    IF h.head[q] # NULL
    THEN LET first == h.head[q]
             last == h.prev[first]
         IN  [h EXCEPT !.prev = [@ EXCEPT ![n] = last, ![first] = n],
                       !.next = [@ EXCEPT ![n] = first, ![last] = n]]
    ELSE [h EXCEPT !.next[n] = n, !.prev[n] = n, !.head[q] = n]

\* Fault: a head that is unlinked stays the head.
UnlinkKeepHead(h, n, q) ==
    IF n # h.prev[n]
    THEN [h EXCEPT !.next[h.prev[n]] = h.next[n],
                   !.prev[h.next[n]] = h.prev[n]]
    ELSE [h EXCEPT !.head[q] = NULL]

Unlink(h, n, q) ==
    IF n # h.prev[n]
    THEN [h EXCEPT !.next[h.prev[n]] = h.next[n],
                   !.prev[h.next[n]] = h.prev[n],
                   !.head[q] = IF n = @ THEN h.next[n] ELSE @]
    ELSE [h EXCEPT !.head[q] = NULL]

Store(h) == /\ head' = h.head
            /\ next' = h.next
            /\ prev' = h.prev

-----------------------------------------------------------------------------
\* The end of PROC_create_kthread.
Create(n) ==
    /\ tmp = NULL
    /\ \A q \in Queue : ~InQueue(n, seq[q])
    /\ Store(LinkLast(heap, n, Avail))
    /\ seq' = [seq EXCEPT ![Avail] = append_proc(@, n)]
    /\ UNCHANGED tmp

\* PROC_block_on: cur_proc leaves avail_procs for a queue.
Block(n, q) ==
    /\ tmp = NULL
    /\ InQueue(n, seq[Avail])
    /\ Store(LinkLast(Unlink(heap, n, Avail), n, q))
    /\ seq' = [seq EXCEPT ![Avail] = unlink_proc(@, n),
                          ![q] = append_proc(@, n)]
    /\ UNCHANGED tmp

\* The unlink of kexit_handler; the node is freed.
Exit(n) ==
    /\ tmp = NULL
    /\ InQueue(n, seq[Avail])
    /\ Store(Unlink(heap, n, Avail))
    /\ seq' = [seq EXCEPT ![Avail] = unlink_proc(@, n)]
    /\ UNCHANGED tmp

\* PROC_unblock_head, from an interrupt; PROC_unblock_all repeats it.
UnblockHead(q) ==
    LET n == head[q]
    IN  /\ n # NULL
        /\ Store(LinkLast(Unlink(heap, n, q), n, Avail))
        /\ seq' = [seq EXCEPT ![q] = unlink_proc(@, n),
                              ![Avail] = append_proc(@, n)]
        /\ UNCHANGED tmp

\* cycle_next_proc: the load of queue->head->next ...
CycleLoad ==
    /\ tmp = NULL
    /\ head[Avail] # NULL
    /\ tmp' = next[head[Avail]]
    /\ UNCHANGED <<links, seq>>

\* ... and the store of queue->head.
CycleStore ==
    /\ tmp # NULL
    /\ head' = [head EXCEPT ![Avail] = tmp]
    /\ seq' = [seq EXCEPT ![Avail] = set_head(@, tmp)]
    /\ tmp' = NULL
    /\ UNCHANGED <<next, prev>>

QueueNext == \/ \E n \in Node : Create(n) \/ Exit(n)
             \/ \E n \in Node, q \in Waiting : Block(n, q)
             \/ \E q \in Waiting : UnblockHead(q)
             \/ CycleLoad
             \/ CycleStore

QueueSpec == QueueInit /\ [][QueueNext]_queueVars

-----------------------------------------------------------------------------
After(s, i) == IF i = Len(s) THEN s[1] ELSE s[i + 1]

\* The pointers of a queue are the closed circle of its sequence.
Circle(q) ==
    LET s == seq[q]
    IN  /\ head[q] = IF Len(s) = 0 THEN NULL ELSE s[1]
        /\ \A i \in 1 .. Len(s) : /\ next[s[i]] = After(s, i)
                                  /\ prev[After(s, i)] = s[i]

\* A node is in at most one queue, and there at one place: its two links
\* can only belong to one circle.
Disjoint ==
    \A p, q \in Queue : \A i \in 1 .. Len(seq[p]), j \in 1 .. Len(seq[q]) :
        seq[p][i] = seq[q][j] => p = q /\ i = j

\* The successor that cycle_next_proc holds across an interrupt is still in
\* avail_procs when it becomes the head.
LoadedQueued == tmp # NULL => InQueue(tmp, seq[Avail])

\* append_proc, unlink_proc and the two-step cycle_next_proc compute the
\* sequence operators: whatever the order of blocks, exits and of wake-ups
\* that interrupt a rotation, every queue is the closed circle of its
\* sequence in both directions and no node is in two circles.
Represents == Disjoint /\ LoadedQueued /\ \A q \in Queue : Circle(q)
=============================================================================
