---------------------------- MODULE MCScheduler -----------------------------
(* Scheduler for TLC: k is the keyboard thread of kmain, y a thread that    *)
(* yields like test_thread1 and may read as well, d a thread that faults    *)
(* pages in before it returns, like drive_init.                             *)
EXTENDS Scheduler, TLC

CONSTANTS k, y, d

MCCalls == (k :> {"getc", "yield", "fault"})
        @@ (y :> {"yield", "exit", "getc"})
        @@ (d :> {"fault", "yield", "exit"})

\* The two threads of the smaller instances.
MCCallsTwo == (k :> {"getc"}) @@ (y :> {"yield", "exit", "getc", "fault"})
=============================================================================
