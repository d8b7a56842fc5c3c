------------------------------ MODULE MCQueues ------------------------------
(* RingBuffer and ProcQueue for TLC.  A ring of four slots: every offset of *)
(* the two pointers, the wrap of either one and a full ring are reached.    *)
(* Three nodes and two queues to block on: a queue has a first, a middle    *)
(* and a last node and wake-ups come from two sources.                      *)
(*                                                                          *)
(* The two share no variable; in a behaviour one of them moves.             *)
EXTENDS RingBuffer, ProcQueue

VARIABLE moves

MCInit == /\ moves \in {"ring", "procs"}
          /\ IF moves = "procs" THEN TRUE
             ELSE next = [n \in Node |-> NULL] /\ prev = next
          /\ Init
          /\ QueueInit

MCNext == \/ moves = "ring" /\ Next /\ UNCHANGED <<queueVars, moves>>
          \/ moves = "procs" /\ QueueNext /\ UNCHANGED <<vars, moves>>

MCSpec == MCInit /\ [][MCNext]_<<vars, queueVars, moves>>
=============================================================================
