----------------------------- MODULE Scheduler ------------------------------
(***************************************************************************)
(* Cooperative multitasking: src/processes.c, the dispatch and return path *)
(* of src/interrupts.c and src/isr_handler.asm, the loop of kmain, and the *)
(* keyboard's blocking reader and interrupt handler.                       *)
(*                                                                         *)
(* There is one CPU.  A flow is a stack of its own: a kernel thread, or    *)
(* Source, the stack kmain runs on.  run is the flow whose stack the CPU   *)
(* is on, and pc says where each flow is.  While the interrupt flag is set *)
(* an interrupt may come between any two steps.  An interrupt and the      *)
(* return through its stub are one step here; module ContextSwitch opens   *)
(* up the stub.  The build is the debug build that the README documents,   *)
(* so every source access is a memory access.                              *)
(***************************************************************************)
EXTENDS QueueOps, RingOps

CONSTANTS Thread,     \* the ProcNodes PROC_create_kthread makes
          Source,     \* source_proc, the node of kmain's own stack
          NULL,
          KbThread,   \* the thread that runs ps2_initialize
          Calls       \* the calls the body of each thread may make

Flow == Thread \cup {Source}

ASSUME SchedulerAssumption ==
    /\ KbThread \in Thread
    /\ Source \notin Thread
    /\ NULL \notin Flow
    /\ Calls \in [Thread -> SUBSET {"yield", "getc", "exit", "fault"}]

VARIABLES
    avail,      \* avail_procs
    blocked,    \* *keyboard_ring.blocked
    live,       \* the nodes allocated and not freed
    cur_proc, next_proc,
    run,        \* the flow on the CPU
    pc,         \* where each flow is
    ret,        \* where each flow goes on after the iretq of its own trap
    loc,        \* locals of cycle_next_proc: [node, tmp]
    intr,       \* the interrupt flag
    frameIF,    \* the interrupt flag in the frame of each flow's own trap
    ring,       \* keyboard_ring
    kbd,        \* whether ps2_initialize has unmasked the keyboard
    handlers    \* whether vectors 0x80 and 0x81 have their handlers

procs == <<avail, blocked, live>>
ctl == <<pc, ret, loc, frameIF>>
vars == <<avail, blocked, live, cur_proc, next_proc, run, pc, ret, loc, intr,
          frameIF, ring, kbd, handlers>>

Label == {"none", "s_create", "s_run", "s_check", "s_sti", "hlt", "s_ret",
          "run", "g_cli", "g_test", "g_block", "y_load", "y_store", "y_next",
          "y_int", "epi", "iret", "dead"}

\* kmain just before the first PROC_create_kthread: IRQ_init has set IF.
Init ==
    /\ avail = <<>> /\ blocked = <<>> /\ live = {}
    /\ cur_proc = NULL /\ next_proc = NULL
    /\ run = Source
    /\ pc = [f \in Flow |-> IF f = Source THEN "s_create" ELSE "none"]
    /\ ret = [f \in Flow |-> "none"]
    /\ loc = [f \in Flow |-> [node |-> NULL, tmp |-> NULL]]
    /\ intr = TRUE
    /\ frameIF = [f \in Flow |-> FALSE]
    /\ ring = ring_init
    /\ kbd = FALSE
    /\ handlers = FALSE

At(f, label) == run = f /\ pc[f] = label

Goto(f, label) == pc' = [pc EXCEPT ![f] = label]

-----------------------------------------------------------------------------
(* kmain and PROC_run, on Source.                                          *)

\* The new stack holds a frame that iretq pops: rflags is zero, so the
\* thread starts with interrupts off.
PROC_create_kthread(t) ==
    /\ At(Source, "s_create")
    /\ t \notin live
    /\ live' = live \cup {t}
    /\ avail' = append_proc(avail, t)
    /\ pc' = [pc EXCEPT ![t] = "iret",
                        ![Source] = IF live' = Thread THEN "s_run" ELSE @]
    /\ ret' = [ret EXCEPT ![t] = "run"]
    /\ UNCHANGED <<blocked, cur_proc, next_proc, run, loc, intr, frameIF,
                   ring, kbd, handlers>>

\* Fault: a PROC_run that does not set the two vectors.
PROC_run_unset ==
    /\ At(Source, "s_run")
    /\ \/ avail = <<>> /\ Goto(Source, "s_check") /\ UNCHANGED <<cur_proc, ret>>
       \/ /\ avail # <<>>
          /\ cur_proc' = Source
          /\ Goto(Source, "y_load")
          /\ ret' = [ret EXCEPT ![Source] = "s_ret"]
    /\ UNCHANGED <<procs, next_proc, run, loc, intr, frameIF, ring, kbd,
                   handlers>>

PROC_run ==
    /\ At(Source, "s_run")
    /\ \/ /\ avail = <<>>
          /\ Goto(Source, "s_check")
          /\ UNCHANGED <<cur_proc, ret, handlers>>
       \/ /\ avail # <<>>
          /\ handlers' = TRUE
          /\ cur_proc' = Source
          /\ Goto(Source, "y_load")
          /\ ret' = [ret EXCEPT ![Source] = "s_ret"]
    /\ UNCHANGED <<procs, next_proc, run, loc, intr, frameIF, ring, kbd>>

PROC_run_return ==
    /\ At(Source, "s_ret")
    /\ handlers' = FALSE
    /\ Goto(Source, "s_check")
    /\ UNCHANGED <<procs, cur_proc, next_proc, run, ret, loc, intr, frameIF,
                   ring, kbd>>

PROC_has_unblocked ==
    /\ At(Source, "s_check")
    /\ Goto(Source, IF avail # <<>> THEN "s_run" ELSE "s_sti")
    /\ UNCHANGED <<procs, cur_proc, next_proc, run, ret, loc, intr, frameIF,
                   ring, kbd, handlers>>

\* STI; HLT.  Only an interrupt leaves "hlt".
Halt ==
    /\ At(Source, "s_sti")
    /\ intr' = TRUE
    /\ Goto(Source, "hlt")
    /\ UNCHANGED <<procs, cur_proc, next_proc, run, ret, loc, frameIF, ring,
                   kbd, handlers>>

-----------------------------------------------------------------------------
(* The body of a thread: the calls it makes.                               *)

ps2_initialize ==
    /\ At(KbThread, "run")
    /\ ~kbd
    /\ kbd' = TRUE
    /\ ring' = ring_init
    /\ UNCHANGED <<procs, cur_proc, next_proc, run, ctl, intr, handlers>>

\* The body of t makes the call: keyboard_io initialises the driver before
\* anything else, and nobody reads before that.
Calling(t, call) == /\ At(t, "run")
                    /\ call \in Calls[t]
                    /\ t = KbThread \/ call = "getc" => kbd

CallYield(t) ==
    /\ Calling(t, "yield")
    /\ Goto(t, "y_load")
    /\ ret' = [ret EXCEPT ![t] = "run"]
    /\ UNCHANGED <<procs, cur_proc, next_proc, run, loc, intr, frameIF, ring,
                   kbd, handlers>>

CallGetc(t) ==
    /\ Calling(t, "getc")
    /\ Goto(t, "g_cli")
    /\ UNCHANGED <<procs, cur_proc, next_proc, run, ret, loc, intr, frameIF,
                   ring, kbd, handlers>>

\* A page fault of the thread's own code: demand paging touches nothing the
\* scheduler owns, but irq_handler's STI opens the interrupt window.
PageFault(t) ==
    /\ At(t, "run") /\ "fault" \in Calls[t]
    /\ frameIF' = [frameIF EXCEPT ![t] = intr]
    /\ intr' = TRUE
    /\ Goto(t, "epi")
    /\ ret' = [ret EXCEPT ![t] = "run"]
    /\ UNCHANGED <<procs, cur_proc, next_proc, run, loc, ring, kbd, handlers>>

\* ring_consumer_block_next: the CLI that starts every round of its loop.
\* Fault: a loop that tests the ring with interrupts as they are.
NoCLI(t) ==
    /\ At(t, "g_cli")
    /\ Goto(t, "g_test")
    /\ UNCHANGED <<procs, cur_proc, next_proc, run, ret, loc, intr, frameIF,
                   ring, kbd, handlers>>

BlockNextCLI(t) ==
    /\ At(t, "g_cli")
    /\ intr' = FALSE
    /\ Goto(t, "g_test")
    /\ UNCHANGED <<procs, cur_proc, next_proc, run, ret, loc, frameIF, ring,
                   kbd, handlers>>

\* The loop condition; once a character is there it is taken before the STI.
BlockNextTest(t) ==
    /\ At(t, "g_test")
    /\ \/ /\ ring_empty(ring)
          /\ Goto(t, "g_block")
          /\ UNCHANGED <<ring, intr>>
       \/ /\ ~ring_empty(ring)
          /\ ring' = ring_take(ring)
          /\ intr' = TRUE
          /\ Goto(t, "run")
    /\ UNCHANGED <<procs, cur_proc, next_proc, run, ret, loc, frameIF, kbd,
                   handlers>>

\* Fault: PROC_block_on appends without unlinking first.
BlockWithoutUnlink(t) ==
    /\ At(t, "g_block")
    /\ blocked' = append_proc(blocked, cur_proc)
    /\ intr' = TRUE
    /\ Goto(t, "y_load")
    /\ ret' = [ret EXCEPT ![t] = "g_cli"]
    /\ UNCHANGED <<avail, live, cur_proc, next_proc, run, loc, frameIF, ring,
                   kbd, handlers>>

\* PROC_block_on(keyboard_ring.blocked, true) up to its yield().
PROC_block_on(t) ==
    /\ At(t, "g_block")
    /\ avail' = unlink_proc(avail, cur_proc)
    /\ blocked' = append_proc(blocked, cur_proc)
    /\ intr' = TRUE
    /\ Goto(t, "y_load")
    /\ ret' = [ret EXCEPT ![t] = "g_cli"]
    /\ UNCHANGED <<live, cur_proc, next_proc, run, loc, frameIF, ring, kbd,
                   handlers>>

-----------------------------------------------------------------------------
(* PROC_reschedule and int 0x80, on any flow.                              *)

\* cycle_next_proc reads the head and its successor ...
CycleLoad(f) ==
    /\ At(f, "y_load")
    /\ \/ avail = <<>> /\ Goto(f, "y_next") /\ UNCHANGED loc
       \/ /\ avail # <<>>
          /\ loc' = [loc EXCEPT ![f] = [node |-> avail[1],
                                       tmp |-> head_next(avail)]]
          /\ Goto(f, "y_store")
    /\ UNCHANGED <<procs, cur_proc, next_proc, run, ret, intr, frameIF, ring,
                   kbd, handlers>>

\* Fault: a head that never moves.
CycleKeepHead(f) ==
    /\ At(f, "y_store")
    /\ Goto(f, "y_next")
    /\ UNCHANGED <<procs, cur_proc, next_proc, run, ret, loc, intr, frameIF,
                   ring, kbd, handlers>>

\* ... and then stores the successor as the head.
CycleStore(f) ==
    /\ At(f, "y_store")
    /\ avail' = set_head(avail, loc[f].tmp)
    /\ Goto(f, "y_next")
    /\ UNCHANGED <<blocked, live, cur_proc, next_proc, run, ret, loc, intr,
                   frameIF, ring, kbd, handlers>>

PROC_reschedule(f) ==
    /\ At(f, "y_next")
    /\ next_proc' = loc[f].node
    /\ loc' = [loc EXCEPT ![f] = [node |-> NULL, tmp |-> NULL]]
    /\ Goto(f, "y_int")
    /\ UNCHANGED <<procs, cur_proc, run, ret, intr, frameIF, ring, kbd,
                   handlers>>

\* int 0x80, the noop_handler and the STI at the end of irq_handler.
TrapYield(f) ==
    /\ At(f, "y_int")
    /\ frameIF' = [frameIF EXCEPT ![f] = intr]
    /\ intr' = TRUE
    /\ Goto(f, "epi")
    /\ UNCHANGED <<procs, cur_proc, next_proc, run, ret, loc, ring, kbd,
                   handlers>>

\* Fault: an exiting thread that stays the current one.
KexitKeepCur(t) ==
    /\ Calling(t, "exit") /\ handlers
    /\ avail' = unlink_proc(avail, cur_proc)
    /\ live' = live \ {cur_proc}
    /\ next_proc' = IF avail' = <<>> THEN Source ELSE avail'[1]
    /\ intr' = TRUE
    /\ Goto(t, "epi")
    /\ UNCHANGED <<blocked, cur_proc, run, ret, loc, frameIF, ring, kbd,
                   handlers>>

\* int 0x81 and kexit_handler, which takes the head without cycling.
kexit_handler(t) ==
    /\ Calling(t, "exit") /\ handlers
    /\ avail' = unlink_proc(avail, cur_proc)
    /\ live' = live \ {cur_proc}
    /\ cur_proc' = NULL
    /\ next_proc' = IF avail' = <<>> THEN Source ELSE avail'[1]
    /\ intr' = TRUE
    /\ Goto(t, "epi")
    /\ UNCHANGED <<blocked, run, ret, loc, frameIF, ring, kbd, handlers>>

-----------------------------------------------------------------------------
(* The end of the stub: leave, or switch to next_proc.                     *)

\* The flow that leaves goes on at label when it is resumed; with no current
\* process its stack pointer is not stored anywhere.
Switch(label) ==
    LET target == IF next_proc = NULL THEN Source ELSE next_proc
    IN  /\ cur_proc' = target
        /\ next_proc' = target
        /\ run' = target
        /\ Goto(run, IF cur_proc = NULL THEN "dead" ELSE label)

StubReturn(label) ==
    \/ /\ cur_proc = next_proc
       /\ Goto(run, label)
       /\ UNCHANGED <<cur_proc, next_proc, run>>
    \/ /\ cur_proc # next_proc
       /\ Switch(label)

Epilogue(f) ==
    /\ At(f, "epi")
    /\ StubReturn("iret")
    /\ UNCHANGED <<procs, ret, loc, intr, frameIF, ring, kbd, handlers>>

Iretq(f) ==
    /\ At(f, "iret")
    /\ intr' = frameIF[f]
    /\ Goto(f, ret[f])
    /\ ret' = [ret EXCEPT ![f] = "none"]
    /\ frameIF' = [frameIF EXCEPT ![f] = FALSE]
    /\ UNCHANGED <<procs, cur_proc, next_proc, run, loc, ring, kbd, handlers>>

-----------------------------------------------------------------------------
(* Interrupts.                                                             *)

\* Where the interrupted flow goes on: HLT is over once it is interrupted.
Resumed == IF pc[run] = "hlt" THEN "s_run" ELSE pc[run]

\* The character c of a scan code, NUL for a code without one.
ps2_irq_handler(c) ==
    /\ intr /\ kbd
    /\ ring' = IF c = NUL THEN ring ELSE ring_producer_add_char(ring, c)
    /\ avail' = avail \o blocked
    /\ blocked' = <<>>
    /\ StubReturn(Resumed)
    /\ UNCHANGED <<live, ret, loc, intr, frameIF, kbd, handlers>>

\* Fault: an interrupt that reschedules, as a timer tick would.
OtherIrqPreempt ==
    /\ intr /\ avail # <<>> /\ cur_proc # NULL
    /\ cur_proc' = avail[1] /\ next_proc' = avail[1] /\ run' = avail[1]
    /\ Goto(run, Resumed)
    /\ UNCHANGED <<procs, ret, loc, intr, frameIF, ring, kbd, handlers>>

\* The serial port or the disk: nothing here changes but the way out.
OtherIrq ==
    /\ intr
    /\ StubReturn(Resumed)
    /\ UNCHANGED <<procs, ret, loc, intr, frameIF, ring, kbd, handlers>>

-----------------------------------------------------------------------------
SourceStep == PROC_run \/ PROC_run_return \/ PROC_has_unblocked \/ Halt

YieldStep(f) == \/ CycleLoad(f) \/ CycleStore(f) \/ PROC_reschedule(f)
                \/ TrapYield(f) \/ Epilogue(f) \/ Iretq(f)

GetcStep(t) == BlockNextCLI(t) \/ BlockNextTest(t) \/ PROC_block_on(t)

CallStep(t) == CallYield(t) \/ CallGetc(t) \/ kexit_handler(t) \/ PageFault(t)

Next == \/ \E t \in Thread : PROC_create_kthread(t)
        \/ SourceStep
        \/ ps2_initialize
        \/ \E t \in Thread : CallStep(t) \/ GetcStep(t)
        \/ \E f \in Flow : YieldStep(f)
        \/ \E c \in Char : ps2_irq_handler(c)
        \/ OtherIrq

Spec == Init /\ [][Next]_vars

\* The CPU executes: kernel code between two calls of a thread never stops.
CpuFairness ==
    /\ WF_vars(SourceStep \/ (\E t \in Thread : PROC_create_kthread(t)))
    /\ \A f \in Flow : WF_vars(YieldStep(f))
    /\ \A t \in Thread : WF_vars(GetcStep(t))

\* Scan codes keep coming: the key that is pressed is released some time.
KeyFairness == WF_vars(ps2_irq_handler(NUL))

FairSpec == Spec /\ CpuFairness
FairKeysSpec == FairSpec /\ KeyFairness

-----------------------------------------------------------------------------
\* The state has the shape the code gives it.
TypeOK ==
    /\ avail \in Seq(Thread) /\ blocked \in Seq(Thread)
    /\ live \subseteq Thread
    /\ cur_proc \in Flow \cup {NULL} /\ next_proc \in Flow \cup {NULL}
    /\ run \in Flow
    /\ pc \in [Flow -> Label] /\ ret \in [Flow -> Label]
    /\ loc \in [Flow -> [node : Thread \cup {NULL}, tmp : Thread \cup {NULL}]]
    /\ intr \in BOOLEAN /\ frameIF \in [Flow -> BOOLEAN]
    /\ ring \in Ring
    /\ kbd \in BOOLEAN /\ handlers \in BOOLEAN

\* A live thread is in exactly one of the two queues, once, and a freed one
\* is in none: block, unblock, exit and the two-step rotation of the head
\* never lose, duplicate or resurrect a node, whenever interrupts come.
QueuedOnce ==
    /\ Distinct(avail) /\ Distinct(blocked)
    /\ \A t \in Thread :
          /\ InQueue(t, avail) => t \in live /\ ~InQueue(t, blocked)
          /\ InQueue(t, blocked) => t \in live
          /\ t \in live => InQueue(t, avail) \/ InQueue(t, blocked)

\* No reader sleeps while a character waits: the CLI of
\* ring_consumer_block_next closes the gap between the test and the block.
NoSleepOnData == blocked # <<>> => ring_empty(ring)

\* The CPU is never on the stack of a thread that exited or was not saved,
\* and neither process pointer refers to a freed node.
NoDangling ==
    /\ pc[run] \notin {"none", "dead"}
    /\ cur_proc \in live \cup {Source, NULL}
    /\ next_proc \in live \cup {Source, NULL}

\* A thread's int 0x81 always finds kexit_handler installed by PROC_run:
\* an unhandled exit would run off the end of the thread's stack.
ExitHandled == run \in Thread => handlers

\* Multitasking is cooperative: no interrupt takes the CPU from a thread
\* that has not itself rescheduled (yield, a blocking read) or exited.
Cooperative == [][run' # run => pc[run] \in {"y_int", "epi"}]_vars

\* The threads' side of the bargain: a thread on the CPU comes to a yield
\* of its own again and again, directly or in a read that blocks, or exits.
Cooperating == \A t \in Thread : []<>(run # t \/ pc[t] = "y_load")

\* If every thread cooperates, a thread that can run gets the CPU in the
\* end: rotation, exit and wake-up starve nobody.
Progress == Cooperating => \A t \in Thread : InQueue(t, avail) ~> (run = t)
=============================================================================
