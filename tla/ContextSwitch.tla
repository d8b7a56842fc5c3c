--------------------------- MODULE ContextSwitch ----------------------------
(***************************************************************************)
(* The interrupt stub of src/isr_handler.asm, instruction by instruction   *)
(* where one instruction reads or writes what another flow may change.     *)
(*                                                                         *)
(* irq_handler ends with STI, so everything after "call irq_handler" runs  *)
(* with interrupts on and may itself be interrupted.  IrqLabels are the    *)
(* places where interrupts arrive in an instance.  The queues are left     *)
(* out: a process that reschedules may get any process, or none.           *)
(*                                                                         *)
(* Besides rax and rcx, with which the stub computes, regs holds r11 and   *)
(* r10, the latter for the other scratch registers too; rbx, for all that  *)
(* a C function preserves; and ds and gs, es and fs being saved and        *)
(* restored in the same way.                                               *)
(***************************************************************************)
EXTENDS Integers, FiniteSets

CONSTANTS Thread, Source, NULL,
          PF_stack, EX_stack,  \* the interrupt stacks of vectors 0xE and 0x81
          IrqLabels,           \* where interrupts arrive
          MaxDepth,            \* bound on the frames on one stack
          MaxTraps             \* bound on the trap frames on all of them

Proc == Thread \cup {Source}
Stack == Proc \cup {PF_stack, EX_stack}

\* A stack pointer: the stack and how many frames are on it.
Rsp == [stack : Stack, depth : 0 .. MaxDepth]

\* run: the process's own code; y_int: after PROC_reschedule, before its int;
\* the rest are the instructions after "call irq_handler", in order.
Label == {"run", "y_int", "cur", "next", "cmp", "push", "sp_cur", "sp_ctx",
          "sp_store", "n_test", "n_source", "n_load", "n_ctx", "n_rsp",
          "n_cur", "n_pop", "pop"}

\* From the store of the old stack pointer to the store of cur_proc.
SwitchWindow == {"n_test", "n_source", "n_load", "n_ctx", "n_rsp", "n_cur"}

ASSUME ContextAssumption ==
    /\ Source \notin Thread
    /\ NULL \notin Proc
    /\ PF_stack \notin Proc \cup {EX_stack} /\ EX_stack \notin Proc
    /\ IrqLabels \subseteq Label
    /\ MaxDepth \in Nat /\ MaxDepth >= 2 /\ MaxTraps \in Nat

Pointer == Proc \cup {NULL}

\* The value that p's code has in register r; for NULL, what a C function
\* leaves there.
Own(p, r) == <<p, r>>
Value == Pointer \X {"r10", "r11", "rbx"}

\* What long_mode_start loads into every segment register and
\* PROC_create_kthread's memset puts into the first frame of a thread.
Selector == 0

\* What the CPU and push_scratch_regs leave on the stack, what a switch adds
\* to it, and memory outside the stack: once popped, the next interrupt may
\* overwrite a frame, so nothing is known of it.
TrapFrame == [pc : Label, intr : BOOLEAN, rax : Pointer, rcx : Pointer,
              rsp : Rsp, r10 : Value, r11 : Value]
CalleeSaved == [rbx : Value, ds : Nat, gs : Nat]
Unused == [unused |-> TRUE]
Frame == TrapFrame \cup CalleeSaved \cup {Unused}

VARIABLES pc, rsp, rax, rcx,
          regs,         \* the other registers
          intr,         \* the interrupt flag
          cur_proc, next_proc,
          ctx,          \* context->rsp of each process
          mem,          \* the memory of the stacks
          saved,        \* the processes whose context was stored, not loaded
          exited        \* the threads that kexit_handler freed

vars == <<pc, rsp, rax, rcx, regs, intr, cur_proc, next_proc, ctx, mem,
          saved, exited>>

\* PROC_run has just set cur_proc; PROC_create_kthread built the stacks.
Init ==
    /\ pc = "run" /\ rsp = [stack |-> Source, depth |-> 0]
    /\ rax = NULL /\ rcx = NULL
    /\ regs = [r10 |-> Own(Source, "r10"), r11 |-> Own(Source, "r11"),
               rbx |-> Own(Source, "rbx"), ds |-> Selector, gs |-> Selector]
    /\ intr = TRUE
    /\ cur_proc = Source /\ next_proc = NULL
    /\ ctx = [p \in Proc |-> [stack |-> p,
                              depth |-> IF p = Source THEN 0 ELSE 2]]
    /\ mem = [s \in Stack |-> [i \in 1 .. MaxDepth |->
          CASE s \in Thread /\ i = 1 ->
                  [pc |-> "run", intr |-> FALSE, rax |-> NULL, rcx |-> NULL,
                   rsp |-> [stack |-> s, depth |-> 0],
                   r10 |-> Own(s, "r10"), r11 |-> Own(s, "r11")]
            [] s \in Thread /\ i = 2 ->
                  [rbx |-> Own(s, "rbx"), ds |-> Selector, gs |-> Selector]
            [] OTHER -> Unused]]
    /\ saved = Thread
    /\ exited = {}

-----------------------------------------------------------------------------
\* The frame of the interrupted code: what the CPU pushes, and
\* push_scratch_regs.
Pushed(resume) ==
    [pc |-> resume, intr |-> intr, rax |-> rax, rcx |-> rcx, rsp |-> rsp,
     r10 |-> regs.r10, r11 |-> regs.r11]

\* isr_err moves the frame up over the error code.  The loop ends before it
\* copies the last word, r11: the word popped into r11 is that of r10.
ShiftStack(f) == [f EXCEPT !.r11 = f.r10]

\* An entry through the stub, which leaves frame f on stack s, already depth
\* frames high: irq_handler, then STI.  NULL stands for what C code or a
\* segment selector leaves in rax and rcx.
Enter(s, depth, f) ==
    /\ mem' = [mem EXCEPT ![s][depth + 1] = f]
    /\ rsp' = [stack |-> s, depth |-> depth + 1]
    /\ intr' = TRUE
    /\ pc' = "cur"
    /\ rax' = NULL /\ rcx' = NULL
    /\ regs' = [regs EXCEPT !.r10 = Own(NULL, "r10"),
                            !.r11 = Own(NULL, "r11")]

\* PROC_reschedule: Source runs when no thread is there to run.
Reschedule(p) ==
    /\ pc = "run"
    /\ p \in (Thread \ exited) \cup {NULL}
    /\ next_proc' = p
    /\ pc' = "y_int"
    /\ UNCHANGED <<rsp, rax, rcx, regs, intr, cur_proc, ctx, mem, saved,
                   exited>>

\* Fault: an interrupt stack for vector 0x80 too.
IntYieldOnIst ==
    /\ pc = "y_int"
    /\ Enter(EX_stack, 0, Pushed("run"))
    /\ UNCHANGED <<cur_proc, next_proc, ctx, saved, exited>>

\* int 0x80, which stays on the stack it finds.
IntYield ==
    /\ pc = "y_int"
    /\ Enter(rsp.stack, rsp.depth, Pushed("run"))
    /\ UNCHANGED <<cur_proc, next_proc, ctx, saved, exited>>

\* int 0x81 on EX_stack, with kexit_handler.
IntExit(p) ==
    /\ pc = "run" /\ cur_proc \in Thread
    /\ Enter(EX_stack, 0, Pushed("run"))
    /\ exited' = exited \cup {cur_proc}
    /\ p \in (Thread \ exited') \cup {Source}
    /\ next_proc' = p
    /\ cur_proc' = NULL
    /\ UNCHANGED <<ctx, saved>>

\* A device interrupt, whose handler touches neither process pointer.
\* Bounds: the stack has room for two frames, and there are few others.
Irq ==
    /\ intr /\ pc \in IrqLabels
    /\ rsp.depth + 2 <= MaxDepth
    /\ Cardinality({f \in Stack \X (1 .. MaxDepth) :
                      "pc" \in DOMAIN mem[f[1]][f[2]]}) < MaxTraps
    /\ Enter(rsp.stack, rsp.depth, Pushed(pc))
    /\ UNCHANGED <<cur_proc, next_proc, ctx, saved, exited>>

\* A page fault of a thread's own code, on PF_stack: of the vectors with an
\* error code the one with a handler.  The pushes of the stub never fault:
\* Kmalloc's StackPresent.
PageFault ==
    /\ pc = "run" /\ cur_proc \in Thread
    /\ Enter(PF_stack, 0, ShiftStack(Pushed("run")))
    /\ UNCHANGED <<cur_proc, next_proc, ctx, saved, exited>>

\* The STI at the end of ring_consumer_block_next.
Sti ==
    /\ pc = "run" /\ ~intr
    /\ intr' = TRUE
    /\ UNCHANGED <<pc, rsp, rax, rcx, regs, cur_proc, next_proc, ctx, mem,
                   saved, exited>>

-----------------------------------------------------------------------------
(* The instructions of the stub.                                           *)

Step(from, to) == pc = from /\ pc' = to

LoadCur(from, to) ==
    /\ Step(from, to)
    /\ rax' = cur_proc
    /\ UNCHANGED <<rsp, rcx, regs, intr, cur_proc, next_proc, ctx, mem,
                   saved, exited>>

LoadNext ==
    /\ Step("next", "cmp")
    /\ rcx' = next_proc
    /\ UNCHANGED <<rsp, rax, regs, intr, cur_proc, next_proc, ctx, mem,
                   saved, exited>>

Compare ==
    /\ Step("cmp", IF rax = rcx THEN "pop"
                   ELSE IF rax = NULL THEN "n_test" ELSE "push")
    /\ UNCHANGED <<rsp, rax, rcx, regs, intr, cur_proc, next_proc, ctx, mem,
                   saved, exited>>

\* rbx to rbp; the segment registers go through rax and rcx.
PushCallee ==
    /\ Step("push", "sp_cur")
    /\ mem' = [mem EXCEPT ![rsp.stack][rsp.depth + 1] =
                 [rbx |-> regs.rbx, ds |-> regs.ds, gs |-> regs.gs]]
    /\ rsp' = [rsp EXCEPT !.depth = @ + 1]
    /\ rax' = NULL /\ rcx' = NULL
    /\ UNCHANGED <<regs, intr, cur_proc, next_proc, ctx, saved, exited>>

\* mov rcx, [rax]: a node's context stands for the node itself.
LoadCtx(from, to) ==
    /\ Step(from, to)
    /\ rcx' = rax
    /\ UNCHANGED <<rsp, rax, regs, intr, cur_proc, next_proc, ctx, mem,
                   saved, exited>>

\* Fault: the stack pointer is stored before the pushes.
StoreRspEarly ==
    /\ Step("sp_store", "n_test")
    /\ ctx' = [ctx EXCEPT ![rcx] = [rsp EXCEPT !.depth = @ - 1]]
    /\ saved' = saved \cup {rcx}
    /\ UNCHANGED <<rsp, rax, rcx, regs, intr, cur_proc, next_proc, mem,
                   exited>>

StoreRsp ==
    /\ Step("sp_store", "n_test")
    /\ ctx' = [ctx EXCEPT ![rcx] = rsp]
    /\ saved' = saved \cup {rcx}
    /\ UNCHANGED <<rsp, rax, rcx, regs, intr, cur_proc, next_proc, mem,
                   exited>>

TestNext ==
    /\ Step("n_test", IF next_proc = NULL THEN "n_source" ELSE "n_load")
    /\ rax' = next_proc
    /\ UNCHANGED <<rsp, rcx, regs, intr, cur_proc, next_proc, ctx, mem,
                   saved, exited>>

PROC_resume_source ==
    /\ Step("n_source", "n_load")
    /\ next_proc' = Source
    /\ UNCHANGED <<rsp, rax, rcx, regs, intr, cur_proc, ctx, mem, saved,
                   exited>>

\* Fault: the switch goes on with the pointer that cmp has loaded.
KeepNext ==
    /\ Step("n_load", "n_ctx")
    /\ UNCHANGED <<rsp, rax, rcx, regs, intr, cur_proc, next_proc, ctx, mem,
                   saved, exited>>

ReloadNext ==
    /\ Step("n_load", "n_ctx")
    /\ rax' = next_proc
    /\ UNCHANGED <<rsp, rcx, regs, intr, cur_proc, next_proc, ctx, mem,
                   saved, exited>>

\* Fault: the stack stays that of the old process.
KeepRsp ==
    /\ Step("n_rsp", "n_cur")
    /\ saved' = saved \ {rcx}
    /\ UNCHANGED <<rsp, rax, rcx, regs, intr, cur_proc, next_proc, ctx, mem,
                   exited>>

LoadRsp ==
    /\ Step("n_rsp", "n_cur")
    /\ rsp' = ctx[rcx]
    /\ saved' = saved \ {rcx}
    /\ UNCHANGED <<rax, rcx, regs, intr, cur_proc, next_proc, ctx, mem,
                   exited>>

StoreCur ==
    /\ Step("n_cur", "n_pop")
    /\ cur_proc' = rax
    /\ UNCHANGED <<rsp, rax, rcx, regs, intr, next_proc, ctx, mem, saved,
                   exited>>

Top == mem[rsp.stack][rsp.depth]

Popped == mem' = [mem EXCEPT ![rsp.stack][rsp.depth] = Unused]

\* rbp to rbx.  The word popped first, into ds, is the one pushed last, from
\* gs, and the other way round.  What the CPU does with anything else than a
\* frame is not modelled, here and in Iretq: PopsWhatWasPushed says that it
\* is one.
PopCallee ==
    /\ Step("n_pop", "pop") /\ Top \in CalleeSaved
    /\ Popped
    /\ rsp' = [rsp EXCEPT !.depth = @ - 1]
    /\ rax' = NULL /\ rcx' = NULL
    /\ regs' = [regs EXCEPT !.rbx = Top.rbx, !.ds = Top.gs, !.gs = Top.ds]
    /\ UNCHANGED <<intr, cur_proc, next_proc, ctx, saved, exited>>

\* pop_scratch_regs and iretq.
Iretq ==
    /\ pc = "pop" /\ Top \in TrapFrame
    /\ Popped
    /\ pc' = Top.pc /\ rsp' = Top.rsp /\ intr' = Top.intr
    /\ rax' = Top.rax /\ rcx' = Top.rcx
    /\ regs' = [regs EXCEPT !.r10 = Top.r10, !.r11 = Top.r11]
    /\ UNCHANGED <<cur_proc, next_proc, ctx, saved, exited>>

Next == \/ \E p \in Pointer : Reschedule(p) \/ IntExit(p)
        \/ IntYield \/ Irq \/ PageFault \/ Sti
        \/ LoadCur("cur", "next") \/ LoadNext \/ Compare
        \/ PushCallee \/ LoadCur("sp_cur", "sp_ctx")
        \/ LoadCtx("sp_ctx", "sp_store") \/ StoreRsp
        \/ TestNext \/ PROC_resume_source
        \/ ReloadNext \/ LoadCtx("n_ctx", "n_rsp") \/ LoadRsp \/ StoreCur
        \/ PopCallee \/ Iretq

Spec == Init /\ [][Next]_vars

-----------------------------------------------------------------------------
\* A stored context is on the stack of its own process: the stub never files
\* one process's stack pointer under another, nor a shared interrupt stack.
ContextOnOwnStack == \A p \in saved \ exited : ctx[p].stack = p

\* The code of a process runs on its own stack while cur_proc names it.
RunsOnOwnStack == pc = "run" => rsp.stack = cur_proc

\* Every stack pointer that the switch loads is one a switch stored and
\* nobody has resumed since: no process is replayed from an old frame.
ResumesSavedContext == pc = "n_rsp" => rcx \in saved

\* The stub takes a switch's half of the frame only where a switch pushed it
\* and returns only through a frame of an entry, and the code of a process
\* finds its own registers after any interrupts, switches and page faults, but
\* for r11: behind a page fault that is the process's r10 (isr_handler.asm:59).
\* That ds and gs come back exchanged shows nowhere, as both hold Selector.
PopsWhatWasPushed ==
    /\ pc = "n_pop" => rsp.depth > 0 /\ Top \in CalleeSaved
    /\ pc = "pop" => rsp.depth > 0 /\ Top \in TrapFrame
    /\ pc = "run" => /\ regs.rbx = Own(cur_proc, "rbx")
                     /\ regs.r10 = Own(cur_proc, "r10")
                     /\ regs.r11 \in {Own(cur_proc, "r11"),
                                      Own(cur_proc, "r10")}
                     /\ regs.ds = Selector /\ regs.gs = Selector

\* isr_err is there "to remove error code" and nothing else: the code of a
\* process finds in r11 what it had there.  A page fault breaks it.
KeepsR11 == pc = "run" => regs.r11 = Own(cur_proc, "r11")
=============================================================================
