---------------------------- MODULE BoundedFifo ----------------------------
(***************************************************************************)
(* What a ring buffer promises its two sides: a queue of characters of a   *)
(* fixed capacity.  A put on a full queue is refused and changes nothing,  *)
(* a get on an empty queue is refused and changes nothing, and characters  *)
(* leave in the order in which they entered.                               *)
(***************************************************************************)
EXTENDS Naturals, Sequences

CONSTANTS Capacity,  \* the number of characters the queue can hold
          Char,      \* the characters
          NUL        \* what the caller's variable holds before the first get

VARIABLES queue,     \* the characters put and not yet got, oldest first
          got,      \* the character the last successful get delivered
          ok         \* whether the last operation was accepted

vars == <<queue, got, ok>>

Init == /\ queue = <<>>
        /\ got = NUL
        /\ ok = TRUE

Put(c) == /\ Len(queue) < Capacity
          /\ queue' = Append(queue, c)
          /\ ok' = TRUE
          /\ UNCHANGED got

RefusePut == /\ Len(queue) = Capacity
             /\ ok' = FALSE
             /\ UNCHANGED <<queue, got>>

Get == /\ queue # <<>>
       /\ got' = Head(queue)
       /\ queue' = Tail(queue)
       /\ ok' = TRUE

RefuseGet == /\ queue = <<>>
             /\ ok' = FALSE
             /\ UNCHANGED <<queue, got>>

Next == \/ \E c \in Char : Put(c)
        \/ RefusePut
        \/ Get
        \/ RefuseGet

Spec == Init /\ [][Next]_vars
=============================================================================
