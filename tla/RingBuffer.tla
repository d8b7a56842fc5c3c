----------------------------- MODULE RingBuffer -----------------------------
(***************************************************************************)
(* One ring of src/ring_buffer.c with its producer and its consumer, and   *)
(* the bounded queue it implements.                                        *)
(***************************************************************************)
EXTENDS RingOps

VARIABLES ring,   \* the struct RingBuffer
          got,    \* *next, the consumer's destination
          ok      \* the value the last call returned

vars == <<ring, got, ok>>

Init == /\ ring = ring_init
        /\ got = NUL
        /\ ok = TRUE

ProducerAddChar(c) ==
    /\ ok' = ~ring_full(ring)
    /\ ring' = ring_producer_add_char(ring, c)
    /\ UNCHANGED got

ConsumerNext ==
    \/ /\ ring_empty(ring)
       /\ ok' = FALSE
       /\ UNCHANGED <<ring, got>>
    \/ /\ ~ring_empty(ring)
       /\ ok' = TRUE
       /\ got' = ring_peek(ring)
       /\ ring' = ring_take(ring)

Next == \/ \E c \in Char : ProducerAddChar(c)
        \/ ConsumerNext

Spec == Init /\ [][Next]_vars

-----------------------------------------------------------------------------
\* The pointers always point into buff (ring_buffer.c wraps both at once).
TypeOK == /\ ring \in Ring
          /\ got \in Char
          /\ ok \in BOOLEAN

Fifo == INSTANCE BoundedFifo WITH Capacity <- BUFF_SIZE - 1,
                                  queue <- Contents(ring)

\* The ring is a first-in first-out queue of BUFF_SIZE - 1 characters: the
\* pointer tests of ring_producer_add_char and ring_consumer_next refuse
\* exactly when it is full or empty, and no wrap loses, repeats or reorders
\* a character.
ImplementsFifo == Fifo!Spec
=============================================================================
