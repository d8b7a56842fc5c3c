------------------------------ MODULE RingOps ------------------------------
(***************************************************************************)
(* src/ring_buffer.c as operators on a ring r = [buff, consumer, producer]. *)
(* The two pointers into buff are the indices they point at.  A caller     *)
(* runs each function with interrupts off, so a call is one step.          *)
(***************************************************************************)
EXTENDS Integers, Sequences

CONSTANTS BUFF_SIZE,  \* 16 in ring_buffer.h
          Char,       \* the characters a ring carries
          NUL         \* the zero byte of static storage

ASSUME RingAssumption == /\ BUFF_SIZE \in Nat \ {0}
                         /\ NUL \in Char

Ring == [buff : [0 .. BUFF_SIZE - 1 -> Char],
         consumer : 0 .. BUFF_SIZE - 1,
         producer : 0 .. BUFF_SIZE - 1]

ring_init == [buff |-> [i \in 0 .. BUFF_SIZE - 1 |-> NUL],
              consumer |-> 0,
              producer |-> 0]

\* The increment of a pointer and the wrap that follows it in the same call.
Advance(i) == IF i + 1 >= BUFF_SIZE THEN 0 ELSE i + 1

ring_empty(r) == r.consumer = r.producer

\* Fault: a producer that only tests for the wrapped position.
FullOnlyWrapped(r) == r.consumer = 0 /\ r.producer = BUFF_SIZE - 1

ring_full(r) == \/ r.producer = r.consumer - 1
                \/ r.consumer = 0 /\ r.producer = BUFF_SIZE - 1

\* The body of ring_producer_add_char once the ring is known to have room.
ring_put(r, c) == [r EXCEPT !.buff[r.producer] = c,
                            !.producer = Advance(r.producer)]

ring_producer_add_char(r, c) == IF ring_full(r) THEN r ELSE ring_put(r, c)

\* The character a consumer reads, and the ring once it has read it.
ring_peek(r) == r.buff[r.consumer]

ring_take(r) == [r EXCEPT !.consumer = Advance(r.consumer)]

\* The number of unread characters and the slot of the i-th of them.
Unread(r) == IF r.producer >= r.consumer
             THEN r.producer - r.consumer
             ELSE r.producer - r.consumer + BUFF_SIZE

Slot(r, i) == IF r.consumer + i - 1 >= BUFF_SIZE
              THEN r.consumer + i - 1 - BUFF_SIZE
              ELSE r.consumer + i - 1

\* The unread characters, oldest first.
Contents(r) == [i \in 1 .. Unread(r) |-> r.buff[Slot(r, i)]]
=============================================================================
