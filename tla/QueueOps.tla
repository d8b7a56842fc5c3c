------------------------------ MODULE QueueOps ------------------------------
(***************************************************************************)
(* The circular process queues of src/processes.c as sequences of distinct *)
(* nodes that start at queue->head; the empty sequence is a NULL head.     *)
(* Module ProcQueue shows that the pointer code computes these operators.  *)
(***************************************************************************)
EXTENDS Integers, Sequences

\* No node is twice in a queue.
Distinct(s) == \A i, j \in 1 .. Len(s) : s[i] = s[j] => i = j

InQueue(t, s) == \E i \in 1 .. Len(s) : s[i] = t

Pos(s, t) == CHOOSE i \in 1 .. Len(s) : s[i] = t

append_proc(s, t) == Append(s, t)

\* Only the neighbours of t, and the head if t is the head, are rewritten.
unlink_proc(s, t) ==
    [i \in 1 .. Len(s) - 1 |-> IF i < Pos(s, t) THEN s[i] ELSE s[i + 1]]

\* The assignment queue->head = t for a member t: the circle is unchanged.
set_head(s, t) ==
    [i \in 1 .. Len(s) |-> IF i + Pos(s, t) - 1 <= Len(s)
                           THEN s[i + Pos(s, t) - 1]
                           ELSE s[i + Pos(s, t) - 1 - Len(s)]]

\* What queue->head->next points at in a nonempty queue.
head_next(s) == IF Len(s) = 1 THEN s[1] ELSE s[2]
=============================================================================
