------------------------ MODULE ContextSwitchProofs -------------------------
(***************************************************************************)
(* The interrupt stub keeps every process on its own stack, for any number *)
(* of threads, nested interrupts and frames, as long as no interrupt       *)
(* arrives between the store of the old stack pointer and that of          *)
(* cur_proc.                                                               *)
(***************************************************************************)
EXTENDS ContextSwitch, TLAPS

\* The hypothesis of the theorems.  With it false, PopsWhatWasPushed is too.
WindowClosed == IrqLabels \cap SwitchWindow = {}

StackMem == [1 .. MaxDepth -> Frame]
Registers == [r10 : Value, r11 : Value, rbx : Value, ds : Nat, gs : Nat]

TypeOK ==
    /\ pc \in Label /\ rsp \in Rsp /\ intr \in BOOLEAN
    /\ rax \in Pointer /\ rcx \in Pointer
    /\ regs \in Registers
    /\ ctx \in [Proc -> Rsp]
    /\ mem \in [Stack -> StackMem]
    /\ saved \subseteq Proc /\ exited \subseteq Thread

\* What lies on top of a stack with memory m, d frames high, when the code
\* that runs on it is at label l.
Bare == {"run", "y_int"}
InStub == {"cur", "next", "cmp", "push", "pop"}
InSwitch == {"sp_cur", "sp_ctx", "sp_store", "n_cur", "n_pop"}

\* An interrupt came before the pops of a switch to this stack: its stub runs
\* with the old process's rbx and must not switch.
Pending(m, d) == \E j \in 1 .. d : m[j] \in TrapFrame /\ m[j].pc = "n_pop"
Quiet == {"cur", "next", "cmp", "pop"}

Shape(m, l, d) ==
    /\ Pending(m, d) => l \in Quiet
    /\ l \in Bare => d = 0
    /\ l \in InStub => d >= 1 /\ m[d] \in TrapFrame
    /\ l \in InSwitch => d >= 2 /\ m[d] \in CalleeSaved
                                /\ m[d - 1] \in TrapFrame

\* The scratch registers of s, in a frame or in regs: r11 may be lost.
OwnScratch(s, f) == /\ f.r10 = Own(s, "r10")
                    /\ f.r11 \in {Own(s, "r11"), Own(s, "r10")}

\* The trap frame at place i of the stack of s brings s back to that stack,
\* one frame lower, with the registers that its next instruction relies on.
FrameOK(m, s, i) ==
    /\ m[i].rsp = [stack |-> s, depth |-> i - 1]
    /\ m[i].pc \notin SwitchWindow
    /\ Shape(m, m[i].pc, i - 1)
    /\ m[i].pc \in {"next", "cmp", "sp_ctx"} => m[i].rax = s
    /\ m[i].pc = "sp_store" => m[i].rcx = s
    /\ m[i].pc = "cmp" /\ Pending(m, i - 1) => m[i].rcx = s
    /\ m[i].pc \in Bare => OwnScratch(s, m[i])

\* What a switch away from s pushes.
OwnCallee(s) == [rbx |-> Own(s, "rbx"), ds |-> Selector, gs |-> Selector]

Frames(m, s, d) ==
    \A i \in 1 .. d : /\ m[i] \in TrapFrame => FrameOK(m, s, i)
                      /\ m[i] \in CalleeSaved => m[i] = OwnCallee(s)

\* The page fault handler's stack: its first frame is that of thread t, those
\* above it are of its own stub, which finds nothing to switch to.
FaultFrameOK(f, t, i) ==
    /\ f \in TrapFrame
    /\ i = 1 => /\ f.rsp = [stack |-> t, depth |-> 0] /\ f.pc = "run"
                /\ OwnScratch(t, f)
    /\ i > 1 => /\ f.rsp = [stack |-> PF_stack, depth |-> i - 1]
                /\ f.pc \in Quiet
                /\ f.pc \in {"next", "cmp"} => f.rax = t
                /\ f.pc = "cmp" => f.rcx = t

FaultFrames(m, t, d) == \A i \in 1 .. d : FaultFrameOK(m[i], t, i)

\* Where the processor is: a process on its own stack, a thread's page fault,
\* or what is left of a thread that has exited.
OnOwn ==
    /\ rsp.stack \in Proc
    /\ rsp.stack = (IF pc = "n_cur" THEN next_proc ELSE cur_proc)
    /\ Shape(mem[rsp.stack], pc, rsp.depth)
    /\ Frames(mem[rsp.stack], rsp.stack, rsp.depth)

OnFault ==
    /\ rsp.stack = PF_stack
    /\ pc \in Quiet
    /\ cur_proc = next_proc /\ cur_proc \in Thread
    /\ pc = "cmp" => rcx = cur_proc
    /\ rsp.depth >= 1
    /\ FaultFrames(mem[PF_stack], cur_proc, rsp.depth)

OnExit ==
    /\ rsp.stack = EX_stack
    /\ pc \in {"cur", "next", "cmp"}
    /\ cur_proc = NULL /\ next_proc # NULL
    /\ pc = "cmp" => rcx = next_proc
    /\ rsp.depth >= 1

\* From the store of the old stack pointer to the load of the new one nothing
\* on the old stack matters any more.
Between == {"n_test", "n_source", "n_load", "n_ctx", "n_rsp"}

PlaceInv == pc \in Between \/ OnOwn \/ OnFault \/ OnExit

\* The stack of every process that was switched away is ready for n_pop.
SavedInv == \A p \in saved : /\ ctx[p].stack = p
                             /\ Shape(mem[p], "n_pop", ctx[p].depth)
                             /\ Frames(mem[p], p, ctx[p].depth)

\* Exactly the processes that do not run wait in their context.
SavedSet ==
    /\ saved = IF pc \in Between THEN Proc \ exited
               ELSE IF pc = "n_cur" THEN (Proc \ exited) \ {next_proc}
               ELSE (Proc \ exited) \ {cur_proc}
    /\ cur_proc \in (Proc \ exited) \cup {NULL}
    /\ next_proc \in (Proc \ exited) \cup {NULL}

\* What the registers hold where the next instruction uses them, and what
\* cur_proc and next_proc are when the stub is done.
RegInv ==
    /\ pc = "run" => \/ cur_proc = next_proc
                     \/ cur_proc = Source /\ next_proc = NULL
    /\ pc \in {"pop", "n_pop"} => cur_proc = next_proc
    /\ pc \in {"next", "cmp", "sp_ctx"} => rax = cur_proc
    /\ pc = "cmp" => \/ rcx = next_proc
                     \/ cur_proc = next_proc /\ cur_proc # NULL
    /\ pc = "sp_store" => rcx = cur_proc
    /\ pc = "n_source" => next_proc = NULL
    /\ pc \in {"n_load", "n_ctx", "n_rsp", "n_cur"} => next_proc # NULL
    /\ pc \in {"n_ctx", "n_rsp", "n_cur"} => rax = next_proc
    /\ pc \in {"n_rsp", "n_cur"} => rcx = next_proc

\* The registers hold what the process on whose behalf the code runs has in
\* them: rbx but from the load of the new stack pointer to the pops, those of
\* the interrupts in between included; the scratch registers in its own code.
ValueInv ==
    /\ regs.ds = Selector /\ regs.gs = Selector
    /\ rsp.stack \in Proc /\ pc \notin Between =>
         IF Pending(mem[rsp.stack], rsp.depth)
         THEN cur_proc = next_proc /\ (pc = "cmp" => rcx = cur_proc)
         ELSE pc \notin {"n_cur", "n_pop"} => regs.rbx = Own(cur_proc, "rbx")
    /\ rsp.stack = PF_stack => regs.rbx = Own(cur_proc, "rbx")
    /\ pc \in Bare => OwnScratch(cur_proc, regs)

\* The stub always has room for what a switch pushes.
RoomInv == pc \in {"cur", "next", "cmp", "push"} => rsp.depth < MaxDepth

IInv == TypeOK /\ PlaceInv /\ SavedInv /\ SavedSet /\ RegInv /\ ValueInv
        /\ RoomInv

-----------------------------------------------------------------------------
(* Lemmas about one stack.                                                 *)

\* The two halves of a frame cannot be mistaken for each other.
LEMMA FramesDiffer ==
    /\ \A f \in CalleeSaved : f \notin TrapFrame
    /\ Unused \notin TrapFrame /\ Unused \notin CalleeSaved
    /\ \A p \in Pointer : OwnCallee(p) \in CalleeSaved
    /\ CalleeSaved \subseteq Frame /\ TrapFrame \subseteq Frame
    /\ Unused \in Frame
<1>1. \A f \in CalleeSaved : f \notin TrapFrame
  <2> SUFFICES ASSUME NEW f \in CalleeSaved, f \in TrapFrame PROVE FALSE
    OBVIOUS
  <2>1. DOMAIN f = {"rbx", "ds", "gs"}
    BY DEF CalleeSaved
  <2>2. "pc" \in DOMAIN f
    BY DEF TrapFrame
  <2> QED
    BY <2>1, <2>2
<1>2. Unused \notin TrapFrame /\ Unused \notin CalleeSaved
  <2> SUFFICES ASSUME Unused \in TrapFrame \/ Unused \in CalleeSaved
               PROVE  FALSE
    OBVIOUS
  <2>1. DOMAIN Unused = {"unused"}
    BY DEF Unused
  <2>2. "pc" \in DOMAIN Unused \/ "rbx" \in DOMAIN Unused
    BY DEF TrapFrame, CalleeSaved
  <2> QED
    BY <2>1, <2>2
<1>3. \A p \in Pointer : OwnCallee(p) \in CalleeSaved
  BY DEF OwnCallee, CalleeSaved, Own, Value, Selector
<1> QED
  BY <1>1, <1>2, <1>3 DEF Frame

\* What is known of a stack depends on its frames only.
LEMMA LocalFrames ==
    ASSUME NEW m \in StackMem, NEW n \in StackMem, NEW s, NEW l,
           NEW d \in 0 .. MaxDepth, \A i \in 1 .. d : n[i] = m[i]
    PROVE  /\ Shape(m, l, d) => Shape(n, l, d)
           /\ Frames(m, s, d) => Frames(n, s, d)
           /\ Pending(n, d) <=> Pending(m, d)
<1> USE ContextAssumption
<1>1. ASSUME NEW e \in 0 .. d PROVE Pending(n, e) <=> Pending(m, e)
  BY DEF Pending
<1>2. ASSUME NEW k, NEW e \in 0 .. d, Shape(m, k, e) PROVE Shape(n, k, e)
  BY <1>1, <1>2 DEF Shape
<1>3. ASSUME Frames(m, s, d), NEW i \in 1 .. d, n[i] \in TrapFrame
      PROVE  FrameOK(n, s, i)
  <2>1. n[i] = m[i] /\ i - 1 \in 0 .. d /\ FrameOK(m, s, i)
    BY <1>3 DEF Frames
  <2>2. Shape(n, m[i].pc, i - 1) /\ (Pending(n, i - 1) => Pending(m, i - 1))
    BY <1>1, <1>2, <2>1 DEF FrameOK
  <2> QED
    BY <2>1, <2>2 DEF FrameOK
<1> QED
  BY <1>1, <1>2, <1>3 DEF Frames

\* An interrupt adds a frame that leads back to where it came from.
LEMMA PushTrap ==
    ASSUME NEW m \in StackMem, NEW s, NEW d \in 0 .. MaxDepth - 1,
           NEW f \in TrapFrame, Frames(m, s, d),
           f.rsp = [stack |-> s, depth |-> d],
           f.pc \notin SwitchWindow, Shape(m, f.pc, d),
           f.pc \in {"next", "cmp", "sp_ctx"} => f.rax = s,
           f.pc = "sp_store" => f.rcx = s,
           f.pc = "cmp" /\ Pending(m, d) => f.rcx = s,
           f.pc \in Bare => OwnScratch(s, f)
    PROVE  LET n == [m EXCEPT ![d + 1] = f]
           IN /\ n \in StackMem /\ Shape(n, "cur", d + 1)
              /\ Frames(n, s, d + 1)
              /\ Pending(n, d + 1) <=> Pending(m, d) \/ f.pc = "n_pop"
<1> DEFINE n == [m EXCEPT ![d + 1] = f]
<1> USE ContextAssumption
<1>1. d + 1 \in 1 .. MaxDepth /\ d \in 0 .. MaxDepth
  OBVIOUS
<1>2. n \in StackMem
  BY <1>1, FramesDiffer DEF StackMem
<1>3. n[d + 1] = f /\ \A i \in 1 .. d : n[i] = m[i]
  BY <1>1 DEF StackMem
<1> HIDE DEF n
<1>4. /\ Frames(n, s, d) /\ Shape(n, f.pc, d)
      /\ Pending(n, d) <=> Pending(m, d)
  BY <1>1, <1>2, <1>3, LocalFrames
<1>5. FrameOK(n, s, d + 1)
  <2>1. d + 1 - 1 = d
    OBVIOUS
  <2> QED
    BY <1>3, <1>4, <2>1 DEF FrameOK
<1>6. Frames(n, s, d + 1)
  <2>1. \A i \in 1 .. d + 1 : i \in 1 .. d \/ i = d + 1
    OBVIOUS
  <2>2. n[d + 1] \notin CalleeSaved
    BY <1>3, FramesDiffer
  <2> QED
    BY <1>4, <1>5, <2>1, <2>2 DEF Frames
<1>7. Shape(n, "cur", d + 1)
  BY <1>1, <1>3 DEF Shape, Bare, InStub, InSwitch, Quiet
<1>8. Pending(n, d + 1) <=> Pending(m, d) \/ f.pc = "n_pop"
  BY <1>1, <1>3, <1>4 DEF Pending
<1> QED
  BY <1>2, <1>6, <1>7, <1>8 DEF n

\* A switch adds the other half of the frame.
LEMMA PushCalleeFrame ==
    ASSUME NEW m \in StackMem, NEW s \in Proc, NEW d \in 0 .. MaxDepth - 1,
           Frames(m, s, d), Shape(m, "push", d)
    PROVE  LET n == [m EXCEPT ![d + 1] = OwnCallee(s)]
           IN /\ n \in StackMem /\ Shape(n, "sp_cur", d + 1)
              /\ Frames(n, s, d + 1) /\ ~Pending(n, d + 1)
<1> DEFINE n == [m EXCEPT ![d + 1] = OwnCallee(s)]
<1> USE ContextAssumption
<1>1. OwnCallee(s) \in CalleeSaved
  BY FramesDiffer DEF Pointer
<1>2. d + 1 \in 1 .. MaxDepth /\ d \in 0 .. MaxDepth
  OBVIOUS
<1>3. n \in StackMem
  BY <1>1, <1>2, FramesDiffer DEF StackMem
<1>4. n[d + 1] = OwnCallee(s) /\ \A i \in 1 .. d : n[i] = m[i]
  BY <1>2 DEF StackMem
<1> HIDE DEF n
<1>5. Frames(n, s, d) /\ (Pending(n, d) <=> Pending(m, d))
  BY <1>2, <1>3, <1>4, LocalFrames
<1>6. n[d + 1] \in CalleeSaved /\ n[d + 1] \notin TrapFrame
  BY <1>1, <1>4, FramesDiffer
<1>7. Frames(n, s, d + 1)
  <2>1. \A i \in 1 .. d + 1 : i \in 1 .. d \/ i = d + 1
    OBVIOUS
  <2> QED
    BY <1>4, <1>5, <1>6, <2>1 DEF Frames
<1>8. ~Pending(n, d + 1)
  BY <1>2, <1>5, <1>6 DEF Pending, Shape, Quiet
<1>9. Shape(n, "sp_cur", d + 1)
  <2>1. d >= 1 /\ m[d] \in TrapFrame
    BY DEF Shape, InStub
  <2>2. d + 1 >= 2 /\ n[d + 1 - 1] = m[d]
    BY <1>4, <2>1
  <2> QED
    BY <1>6, <1>8, <2>1, <2>2 DEF Shape, Bare, InStub, InSwitch
<1> QED
  BY <1>3, <1>7, <1>9, <1>8 DEF n

\* A pop forgets the top frame and keeps those below it.
LEMMA PopTop ==
    ASSUME NEW m \in StackMem, NEW s, NEW d \in 1 .. MaxDepth,
           Frames(m, s, d)
    PROVE  LET n == [m EXCEPT ![d] = Unused]
           IN /\ n \in StackMem /\ Frames(n, s, d - 1)
              /\ \A l : Shape(m, l, d - 1) => Shape(n, l, d - 1)
              /\ Pending(n, d - 1) <=> Pending(m, d - 1)
<1> DEFINE n == [m EXCEPT ![d] = Unused]
<1> USE ContextAssumption
<1>1. n \in StackMem
  BY FramesDiffer DEF StackMem
<1>2. d - 1 \in 0 .. MaxDepth /\ \A i \in 1 .. d - 1 : n[i] = m[i]
  BY DEF StackMem
<1> HIDE DEF n
<1>3. Frames(m, s, d - 1)
  <2>1. \A i \in 1 .. d - 1 : i \in 1 .. d
    OBVIOUS
  <2> QED
    BY <2>1 DEF Frames
<1> QED
  BY <1>1, <1>2, <1>3, LocalFrames DEF n

-----------------------------------------------------------------------------
(* The initial state and the steps.                                        *)

\* The stacks that PROC_create_kthread builds look like those of a switch.
LEMMA InitIInv == Init => IInv
<1> SUFFICES ASSUME Init PROVE IInv
  OBVIOUS
<1> USE ContextAssumption DEF Init
<1>1. TypeOK
  <2>1. mem \in [Stack -> StackMem]
    <3> SUFFICES ASSUME NEW s \in Stack, NEW i \in 1 .. MaxDepth
                 PROVE  mem[s][i] \in Frame
      BY DEF StackMem
    <3>1. CASE s \in Thread /\ i = 1
      <4>1. mem[s][i] \in TrapFrame
        BY <3>1 DEF TrapFrame, Label, Pointer, Proc, Stack, Rsp, Own, Value
      <4> QED
        BY <4>1, FramesDiffer
    <3>2. CASE s \in Thread /\ i = 2
      <4>1. mem[s][i] = OwnCallee(s) /\ s \in Pointer
        BY <3>2 DEF OwnCallee, Pointer, Proc
      <4> QED
        BY <4>1, FramesDiffer
    <3>3. CASE ~(s \in Thread /\ i = 1) /\ ~(s \in Thread /\ i = 2)
      BY <3>3, FramesDiffer
    <3> QED
      BY <3>1, <3>2, <3>3
  <2>2. ctx \in [Proc -> Rsp]
    BY DEF Rsp, Stack
  <2>3. /\ pc \in Label /\ rsp \in Rsp /\ intr \in BOOLEAN
        /\ rax \in Pointer /\ rcx \in Pointer
        /\ saved \subseteq Proc /\ exited \subseteq Thread
    BY DEF Label, Rsp, Pointer, Proc, Stack
  <2>4. regs \in Registers
    BY DEF Registers, Own, Value, Pointer, Proc, Selector
  <2> QED
    BY <2>1, <2>2, <2>3, <2>4 DEF TypeOK
<1>2. PlaceInv
  BY DEF PlaceInv, OnOwn, Proc, Shape, Frames, Bare, InStub, InSwitch, Pending
<1>3. SavedInv
  <2> SUFFICES ASSUME NEW p \in Thread
               PROVE  /\ ctx[p] = [stack |-> p, depth |-> 2]
                      /\ Shape(mem[p], "n_pop", 2) /\ Frames(mem[p], p, 2)
    BY DEF SavedInv, Proc
  <2>1. ctx[p] = [stack |-> p, depth |-> 2]
    BY DEF Proc
  <2>2. /\ mem[p][1] = [pc |-> "run", intr |-> FALSE, rax |-> NULL,
                        rcx |-> NULL, rsp |-> [stack |-> p, depth |-> 0],
                        r10 |-> Own(p, "r10"), r11 |-> Own(p, "r11")]
        /\ mem[p][2] = OwnCallee(p)
    BY DEF Stack, Proc, OwnCallee
  <2>3. mem[p][1] \in TrapFrame /\ mem[p][2] \in CalleeSaved
    <3>1. mem[p][1] \in TrapFrame
      BY <2>2 DEF TrapFrame, Label, Pointer, Rsp, Stack, Proc, Own, Value
    <3> QED
      BY <2>2, <3>1, FramesDiffer DEF Pointer, Proc
  <2>4. FrameOK(mem[p], p, 1)
    BY <2>2 DEF FrameOK, SwitchWindow, Shape, Bare, InStub, InSwitch, Pending,
                OwnScratch
  <2>5. ~Pending(mem[p], 2)
    <3>1. \A j \in 1 .. 2 : j = 1 \/ j = 2
      OBVIOUS
    <3>2. mem[p][1].pc # "n_pop" /\ mem[p][2] \notin TrapFrame
      BY <2>2, <2>3, FramesDiffer
    <3> QED
      BY <3>1, <3>2 DEF Pending
  <2> QED
    BY <2>1, <2>2, <2>3, <2>4, <2>5, FramesDiffer
    DEF Shape, Frames, Bare, InStub, InSwitch
<1>4. SavedSet /\ RegInv /\ RoomInv
  BY DEF SavedSet, RegInv, RoomInv, Between, Proc
<1>5. ValueInv
  BY DEF ValueInv, Proc, Pending, OwnScratch
<1> QED
  BY <1>1, <1>2, <1>3, <1>4, <1>5 DEF IInv

\* A step that stores no stack pointer and writes on no stack but that of the
\* process that runs leaves the waiting ones as they were.
LEMMA KeepSaved ==
    ASSUME SavedInv, ctx' = ctx, saved' \subseteq saved,
           \A p \in saved' : mem'[p] = mem[p]
    PROVE  SavedInv'
BY DEF SavedInv

\* The instructions of the stub that write no memory, and PROC_reschedule.
LEMMA RegisterSteps ==
    ASSUME IInv,
           \/ (\E p \in Pointer : Reschedule(p)) \/ Sti
           \/ LoadCur("cur", "next") \/ LoadNext \/ Compare
           \/ LoadCur("sp_cur", "sp_ctx") \/ LoadCtx("sp_ctx", "sp_store")
           \/ TestNext \/ PROC_resume_source \/ ReloadNext
           \/ LoadCtx("n_ctx", "n_rsp")
    PROVE  IInv'
<1> USE ContextAssumption DEF IInv
<1>1. ASSUME mem' = mem, ctx' = ctx, saved' = saved PROVE SavedInv'
  BY <1>1, KeepSaved
<1>2. ASSUME NEW p \in Pointer, Reschedule(p) PROVE IInv'
  <2> USE <1>2 DEF Reschedule
  <2>1. TypeOK'
    BY DEF TypeOK, Label, Pointer, SavedSet, Proc
  <2>2. PlaceInv'
    BY DEF PlaceInv, OnOwn, OnFault, OnExit, Between, Shape, Bare, InStub,
           InSwitch, Quiet, RegInv, ValueInv
  <2>3. SavedSet' /\ RegInv' /\ RoomInv'
    BY DEF SavedSet, RegInv, RoomInv, Between, Proc, PlaceInv, OnOwn, OnFault,
           OnExit
  <2>4. ValueInv'
    BY DEF ValueInv, PlaceInv, OnOwn, OnFault, OnExit, Between, Shape, Bare,
           Quiet, RegInv
  <2> QED
    BY <1>1, <2>1, <2>2, <2>3, <2>4
<1>3. CASE Sti
  <2> USE <1>3 DEF Sti
  <2>1. TypeOK'
    BY DEF TypeOK, Label, Pointer, SavedSet, Proc
  <2>2. PlaceInv'
    BY DEF PlaceInv, OnOwn, OnFault, OnExit, Between, Shape, Bare, InStub,
           InSwitch, Quiet, RegInv, ValueInv
  <2>3. SavedSet' /\ RegInv' /\ RoomInv'
    BY DEF SavedSet, RegInv, RoomInv, Between, Proc, PlaceInv, OnOwn, OnFault,
           OnExit
  <2>4. ValueInv'
    BY DEF ValueInv, PlaceInv, OnOwn, OnFault, OnExit, Between, Shape, Bare,
           Quiet, RegInv
  <2> QED
    BY <1>1, <2>1, <2>2, <2>3, <2>4
<1>4. CASE LoadCur("cur", "next")
  <2> USE <1>4 DEF LoadCur, Step
  <2>1. TypeOK'
    BY DEF TypeOK, Label, Pointer, SavedSet, Proc
  <2>2. PlaceInv'
    BY DEF PlaceInv, OnOwn, OnFault, OnExit, Between, Shape, Bare, InStub,
           InSwitch, Quiet, RegInv, ValueInv
  <2>3. SavedSet' /\ RegInv' /\ RoomInv'
    BY DEF SavedSet, RegInv, RoomInv, Between, Proc, PlaceInv, OnOwn, OnFault,
           OnExit
  <2>4. ValueInv'
    BY DEF ValueInv, PlaceInv, OnOwn, OnFault, OnExit, Between, Shape, Bare,
           Quiet, RegInv
  <2> QED
    BY <1>1, <2>1, <2>2, <2>3, <2>4
<1>5. CASE LoadNext
  <2> USE <1>5 DEF LoadNext, Step
  <2>1. TypeOK'
    BY DEF TypeOK, Label, Pointer, SavedSet, Proc
  <2>2. PlaceInv'
    BY DEF PlaceInv, OnOwn, OnFault, OnExit, Between, Shape, Bare, InStub,
           InSwitch, Quiet, RegInv, ValueInv
  <2>3. SavedSet' /\ RegInv' /\ RoomInv'
    BY DEF SavedSet, RegInv, RoomInv, Between, Proc, PlaceInv, OnOwn, OnFault,
           OnExit
  <2>4. ValueInv'
    BY DEF ValueInv, PlaceInv, OnOwn, OnFault, OnExit, Between, Shape, Bare,
           Quiet, RegInv
  <2> QED
    BY <1>1, <2>1, <2>2, <2>3, <2>4
<1>6. CASE Compare
  <2> USE <1>6 DEF Compare, Step
  <2>1. TypeOK'
    BY DEF TypeOK, Label, Pointer, SavedSet, Proc
  <2>2. PlaceInv'
    BY DEF PlaceInv, OnOwn, OnFault, OnExit, Between, Shape, Bare, InStub,
           InSwitch, Quiet, RegInv, ValueInv
  <2>3. SavedSet' /\ RegInv' /\ RoomInv'
    BY DEF SavedSet, RegInv, RoomInv, Between, Proc, PlaceInv, OnOwn, OnFault,
           OnExit
  <2>4. ValueInv'
    BY DEF ValueInv, PlaceInv, OnOwn, OnFault, OnExit, Between, Shape, Bare,
           Quiet, RegInv
  <2> QED
    BY <1>1, <2>1, <2>2, <2>3, <2>4
<1>7. CASE LoadCur("sp_cur", "sp_ctx")
  <2> USE <1>7 DEF LoadCur, Step
  <2>1. TypeOK'
    BY DEF TypeOK, Label, Pointer, SavedSet, Proc
  <2>2. PlaceInv'
    BY DEF PlaceInv, OnOwn, OnFault, OnExit, Between, Shape, Bare, InStub,
           InSwitch, Quiet, RegInv, ValueInv
  <2>3. SavedSet' /\ RegInv' /\ RoomInv'
    BY DEF SavedSet, RegInv, RoomInv, Between, Proc, PlaceInv, OnOwn, OnFault,
           OnExit
  <2>4. ValueInv'
    BY DEF ValueInv, PlaceInv, OnOwn, OnFault, OnExit, Between, Shape, Bare,
           Quiet, RegInv
  <2> QED
    BY <1>1, <2>1, <2>2, <2>3, <2>4
<1>8. CASE LoadCtx("sp_ctx", "sp_store")
  <2> USE <1>8 DEF LoadCtx, Step
  <2>1. TypeOK'
    BY DEF TypeOK, Label, Pointer, SavedSet, Proc
  <2>2. PlaceInv'
    BY DEF PlaceInv, OnOwn, OnFault, OnExit, Between, Shape, Bare, InStub,
           InSwitch, Quiet, RegInv, ValueInv
  <2>3. SavedSet' /\ RegInv' /\ RoomInv'
    BY DEF SavedSet, RegInv, RoomInv, Between, Proc, PlaceInv, OnOwn, OnFault,
           OnExit
  <2>4. ValueInv'
    BY DEF ValueInv, PlaceInv, OnOwn, OnFault, OnExit, Between, Shape, Bare,
           Quiet, RegInv
  <2> QED
    BY <1>1, <2>1, <2>2, <2>3, <2>4
<1>9. CASE TestNext
  <2> USE <1>9 DEF TestNext, Step
  <2>1. TypeOK'
    BY DEF TypeOK, Label, Pointer, SavedSet, Proc
  <2>2. PlaceInv'
    BY DEF PlaceInv, OnOwn, OnFault, OnExit, Between, Shape, Bare, InStub,
           InSwitch, Quiet, RegInv, ValueInv
  <2>3. SavedSet' /\ RegInv' /\ RoomInv'
    BY DEF SavedSet, RegInv, RoomInv, Between, Proc, PlaceInv, OnOwn, OnFault,
           OnExit
  <2>4. ValueInv'
    BY DEF ValueInv, PlaceInv, OnOwn, OnFault, OnExit, Between, Shape, Bare,
           Quiet, RegInv
  <2> QED
    BY <1>1, <2>1, <2>2, <2>3, <2>4
<1>10. CASE PROC_resume_source
  <2> USE <1>10 DEF PROC_resume_source, Step
  <2>1. TypeOK'
    BY DEF TypeOK, Label, Pointer, SavedSet, Proc
  <2>2. PlaceInv'
    BY DEF PlaceInv, OnOwn, OnFault, OnExit, Between, Shape, Bare, InStub,
           InSwitch, Quiet, RegInv, ValueInv
  <2>3. SavedSet' /\ RegInv' /\ RoomInv'
    BY DEF SavedSet, RegInv, RoomInv, Between, Proc, PlaceInv, OnOwn, OnFault,
           OnExit, TypeOK
  <2>4. ValueInv'
    BY DEF ValueInv, PlaceInv, OnOwn, OnFault, OnExit, Between, Shape, Bare,
           Quiet, RegInv
  <2> QED
    BY <1>1, <2>1, <2>2, <2>3, <2>4
<1>11. CASE ReloadNext
  <2> USE <1>11 DEF ReloadNext, Step
  <2>1. TypeOK'
    BY DEF TypeOK, Label, Pointer, SavedSet, Proc
  <2>2. PlaceInv'
    BY DEF PlaceInv, OnOwn, OnFault, OnExit, Between, Shape, Bare, InStub,
           InSwitch, Quiet, RegInv, ValueInv
  <2>3. SavedSet' /\ RegInv' /\ RoomInv'
    BY DEF SavedSet, RegInv, RoomInv, Between, Proc, PlaceInv, OnOwn, OnFault,
           OnExit
  <2>4. ValueInv'
    BY DEF ValueInv, PlaceInv, OnOwn, OnFault, OnExit, Between, Shape, Bare,
           Quiet, RegInv
  <2> QED
    BY <1>1, <2>1, <2>2, <2>3, <2>4
<1>12. CASE LoadCtx("n_ctx", "n_rsp")
  <2> USE <1>12 DEF LoadCtx, Step
  <2>1. TypeOK'
    BY DEF TypeOK, Label, Pointer, SavedSet, Proc
  <2>2. PlaceInv'
    BY DEF PlaceInv, OnOwn, OnFault, OnExit, Between, Shape, Bare, InStub,
           InSwitch, Quiet, RegInv, ValueInv
  <2>3. SavedSet' /\ RegInv' /\ RoomInv'
    BY DEF SavedSet, RegInv, RoomInv, Between, Proc, PlaceInv, OnOwn, OnFault,
           OnExit
  <2>4. ValueInv'
    BY DEF ValueInv, PlaceInv, OnOwn, OnFault, OnExit, Between, Shape, Bare,
           Quiet, RegInv
  <2> QED
    BY <1>1, <2>1, <2>2, <2>3, <2>4
<1> QED
  BY <1>2, <1>3, <1>4, <1>5, <1>6, <1>7, <1>8, <1>9, <1>10, <1>11, <1>12

\* The steps of a switch that change stacks of pointers: the store of the old
\* stack pointer, the load of the new one and the store of cur_proc.
LEMMA SwitchSteps ==
    ASSUME IInv, StoreRsp \/ LoadRsp \/ StoreCur
    PROVE  IInv'
<1> USE ContextAssumption DEF IInv, Step
<1>1. CASE StoreRsp
  <2> USE <1>1 DEF StoreRsp
  <2>1. OnOwn /\ rcx = cur_proc /\ cur_proc = rsp.stack /\ rcx \in Proc
    BY DEF PlaceInv, OnOwn, OnFault, OnExit, Between, Quiet, RegInv
  <2>2. ctx' = [ctx EXCEPT ![rcx] = rsp] /\ ctx \in [Proc -> Rsp]
    BY DEF TypeOK
  <2>3. TypeOK'
    BY <2>1, <2>2 DEF TypeOK, Label
  <2>4. SavedInv'
    <3> SUFFICES ASSUME NEW p \in saved'
                 PROVE  /\ ctx'[p].stack = p
                        /\ Shape(mem'[p], "n_pop", ctx'[p].depth)
                        /\ Frames(mem'[p], p, ctx'[p].depth)
      BY DEF SavedInv
    <3>1. CASE p = rcx
      <4>1. ctx'[p] = rsp /\ mem' = mem
        BY <2>1, <2>2, <3>1
      <4>2. Shape(mem[p], "n_pop", rsp.depth)
        BY <2>1, <3>1 DEF OnOwn, Shape, Bare, InStub, InSwitch, Quiet
      <4> QED
        BY <2>1, <3>1, <4>1, <4>2 DEF OnOwn
    <3>2. CASE p # rcx
      <4>1. p \in saved /\ p \in Proc
        BY <3>2 DEF TypeOK
      <4>2. ctx'[p] = ctx[p] /\ mem' = mem
        BY <2>1, <2>2, <3>2, <4>1
      <4> QED
        BY <4>1, <4>2 DEF SavedInv
    <3> QED
      BY <3>1, <3>2
  <2>5. PlaceInv' /\ SavedSet' /\ RegInv' /\ RoomInv'
    BY <2>1 DEF PlaceInv, SavedSet, RegInv, RoomInv, Between
  <2>6. ValueInv'
    BY <2>1 DEF ValueInv, Between, Bare
  <2> QED
    BY <2>3, <2>4, <2>5, <2>6
<1>2. CASE LoadRsp
  <2> USE <1>2 DEF LoadRsp
  <2>1. rcx = next_proc /\ rcx \in Proc /\ rcx \in saved
    BY DEF RegInv, SavedSet, Between
  <2>2. rsp' = ctx[rcx] /\ ctx[rcx] \in Rsp
    BY <2>1 DEF TypeOK
  <2>3. TypeOK'
    BY <2>2 DEF TypeOK, Label
  <2>4. SavedInv'
    BY KeepSaved
  <2>5. PlaceInv'
    <3>1. rsp'.stack = rcx /\ pc' = "n_cur"
      BY <2>1, <2>2 DEF SavedInv
    <3>2. Shape(mem[rcx], "n_cur", rsp'.depth)
      BY <2>1, <2>2 DEF SavedInv, Shape, Bare, InStub, InSwitch, Quiet
    <3> QED
      BY <2>1, <2>2, <3>1, <3>2 DEF SavedInv, PlaceInv, OnOwn
  <2>6. SavedSet' /\ RegInv' /\ RoomInv'
    BY <2>1 DEF SavedSet, RegInv, RoomInv, Between
  <2>7. ValueInv'
    <3>1. /\ rsp'.stack = rcx /\ pc' = "n_cur"
          /\ ~Pending(mem[rcx], rsp'.depth)
      BY <2>1, <2>2 DEF SavedInv, Shape, Quiet
    <3> QED
      BY <2>1, <3>1 DEF ValueInv, Bare, Proc
  <2> QED
    BY <2>3, <2>4, <2>5, <2>6, <2>7
<1>3. CASE StoreCur
  <2> USE <1>3 DEF StoreCur
  <2>1. rax = next_proc /\ next_proc # NULL /\ next_proc \in Proc
    BY DEF RegInv, SavedSet
  <2>2. TypeOK'
    BY DEF TypeOK, Label
  <2>3. SavedInv'
    BY KeepSaved
  <2>4. PlaceInv'
    BY <2>1 DEF PlaceInv, OnOwn, OnFault, OnExit, Between, Shape, Bare,
                InStub, InSwitch, Quiet
  <2>5. SavedSet' /\ RegInv' /\ RoomInv'
    BY <2>1 DEF SavedSet, RegInv, RoomInv, Between
  <2>6. ValueInv'
    BY <2>1 DEF ValueInv, PlaceInv, OnOwn, OnFault, OnExit, Between, Shape,
                Bare, Quiet
  <2> QED
    BY <2>2, <2>3, <2>4, <2>5, <2>6
<1> QED
  BY <1>1, <1>2, <1>3

\* A write at one place of one stack.
LEMMA WriteOneStack ==
    ASSUME mem \in [Stack -> StackMem], NEW s \in Stack, NEW i, NEW f,
           mem' = [mem EXCEPT ![s][i] = f],
           [mem[s] EXCEPT ![i] = f] \in StackMem
    PROVE  /\ mem' \in [Stack -> StackMem]
           /\ mem'[s] = [mem[s] EXCEPT ![i] = f]
           /\ \A q \in Stack \ {s} : mem'[q] = mem[q]
OBVIOUS

\* What the stub pushes is a frame, with or without the loop of isr_err, and
\* C code leaves rbx and the segment registers as they were.
LEMMA EntryFrame ==
    ASSUME TypeOK, NEW l \in Label
    PROVE  /\ Pushed(l) \in TrapFrame /\ ShiftStack(Pushed(l)) \in TrapFrame
           /\ ShiftStack(Pushed(l)).pc = l /\ ShiftStack(Pushed(l)).rsp = rsp
           /\ OwnScratch(cur_proc, regs) =>
                OwnScratch(cur_proc, ShiftStack(Pushed(l)))
BY DEF TypeOK, Pushed, ShiftStack, TrapFrame, Registers, OwnScratch

LEMMA EntryRegisters ==
    ASSUME TypeOK, NEW s, NEW d, NEW f, Enter(s, d, f)
    PROVE  /\ regs' \in Registers /\ regs'.rbx = regs.rbx
           /\ regs'.ds = regs.ds /\ regs'.gs = regs.gs
<1>1. Own(NULL, "r10") \in Value /\ Own(NULL, "r11") \in Value
  BY DEF Own, Value, Pointer
<1> QED
  BY <1>1 DEF TypeOK, Enter, Registers

\* An interrupt that stays on the stack of the process it interrupts.
LEMMA EnterOwn ==
    ASSUME IInv, OnOwn, pc \notin SwitchWindow,
           NEW l \in Label, l = pc \/ (pc = "y_int" /\ l = "run"),
           rsp.depth + 2 <= MaxDepth, Enter(rsp.stack, rsp.depth, Pushed(l)),
           UNCHANGED <<cur_proc, next_proc, ctx, saved, exited>>
    PROVE  IInv'
<1> DEFINE d == rsp.depth
           s == rsp.stack
           f == Pushed(l)
           n == [mem[s] EXCEPT ![d + 1] = f]
<1> USE ContextAssumption DEF IInv
<1>1. /\ d \in 0 .. MaxDepth - 1 /\ d + 1 \in 0 .. MaxDepth
      /\ d + 1 < MaxDepth
      /\ s \in Stack /\ s \in Proc /\ s = cur_proc
      /\ rsp = [stack |-> s, depth |-> d]
  BY DEF TypeOK, Rsp, OnOwn, SwitchWindow
<1>2. f \in TrapFrame /\ l \notin SwitchWindow
  BY EntryFrame DEF SwitchWindow
<1>3. mem[s] \in StackMem /\ Frames(mem[s], s, d) /\ Shape(mem[s], l, d)
  BY <1>1 DEF TypeOK, OnOwn, Shape, Bare, InStub, InSwitch, Quiet
<1>4. /\ f.pc \in {"next", "cmp", "sp_ctx"} => f.rax = s
      /\ f.pc = "sp_store" => f.rcx = s
  BY <1>1 DEF RegInv, Pushed
<1>5. /\ f.pc = "cmp" /\ Pending(mem[s], d) => f.rcx = s
      /\ f.pc \in Bare => OwnScratch(s, f)
  BY <1>1 DEF ValueInv, Pushed, OwnScratch, Between, SwitchWindow, Bare
<1>6. f.rsp = [stack |-> s, depth |-> d] /\ f.pc = l
  BY <1>1 DEF Pushed
<1>7. /\ mem' = [mem EXCEPT ![s][d + 1] = f]
      /\ rsp' = [stack |-> s, depth |-> d + 1]
      /\ intr' = TRUE /\ pc' = "cur" /\ rax' = NULL /\ rcx' = NULL
  BY DEF Enter
<1>8. /\ regs' \in Registers /\ regs'.rbx = regs.rbx
      /\ regs'.ds = regs.ds /\ regs'.gs = regs.gs
  BY EntryRegisters
<1> HIDE DEF f, d, s
<1>9. /\ n \in StackMem /\ Shape(n, "cur", d + 1) /\ Frames(n, s, d + 1)
      /\ Pending(n, d + 1) <=> Pending(mem[s], d) \/ l = "n_pop"
  BY <1>1, <1>2, <1>3, <1>4, <1>5, <1>6, PushTrap
<1>10. /\ mem' \in [Stack -> StackMem] /\ mem'[s] = n
       /\ \A q \in Stack \ {s} : mem'[q] = mem[q]
  BY <1>1, <1>7, <1>9, WriteOneStack DEF TypeOK
<1> HIDE DEF n
<1>11. TypeOK'
  BY <1>1, <1>7, <1>8, <1>10 DEF TypeOK, Label, Rsp, Pointer
<1>12. PlaceInv'
  BY <1>1, <1>7, <1>9, <1>10 DEF PlaceInv, OnOwn
<1>13. SavedSet' /\ RegInv' /\ RoomInv'
  BY <1>1, <1>7 DEF SavedSet, RegInv, RoomInv, Between, SwitchWindow
<1>14. SavedInv'
  <2>1. saved' = saved /\ \A p \in saved : p \in Stack \ {s}
    BY <1>1 DEF SavedSet, Between, SwitchWindow, TypeOK, Stack
  <2> QED
    BY <1>10, <2>1, KeepSaved
<1>15. ValueInv'
  <2>1. mem'[rsp'.stack] = n /\ rsp'.depth = d + 1 /\ rsp'.stack = cur_proc
    BY <1>1, <1>7, <1>10
  <2>2. Pending(n, d + 1) => cur_proc = next_proc
    BY <1>1, <1>9 DEF ValueInv, RegInv, Between, SwitchWindow, d, s
  <2>3. ~Pending(n, d + 1) => regs.rbx = Own(cur_proc, "rbx")
    BY <1>1, <1>9 DEF ValueInv, Between, SwitchWindow, d, s
  <2> QED
    BY <1>1, <1>7, <1>8, <2>1, <2>2, <2>3 DEF ValueInv, Bare
<1> QED
  BY <1>11, <1>12, <1>13, <1>14, <1>15

\* An entry on one of the two interrupt stacks, which no context is on.
LEMMA EnterShared ==
    ASSUME IInv, NEW s \in {PF_stack, EX_stack}, NEW d \in 0 .. MaxDepth - 2,
           pc \notin SwitchWindow,
           NEW f \in TrapFrame, Enter(s, d, f), UNCHANGED <<ctx, saved>>
    PROVE  /\ mem' \in [Stack -> StackMem] /\ mem'[s][d + 1] = f
           /\ \A i \in 1 .. d : mem'[s][i] = mem[s][i]
           /\ rsp' = [stack |-> s, depth |-> d + 1] /\ rsp' \in Rsp
           /\ d + 1 < MaxDepth
           /\ intr' = TRUE /\ pc' = "cur" /\ rax' = NULL /\ rcx' = NULL
           /\ SavedInv' /\ regs' \in Registers
           /\ (s = PF_stack => regs.rbx = Own(cur_proc', "rbx")) => ValueInv'
<1> DEFINE n == [mem[s] EXCEPT ![d + 1] = f]
<1> USE ContextAssumption DEF IInv
<1>1. s \in Stack /\ s \notin Proc /\ d + 1 \in 1 .. MaxDepth
  BY DEF Stack
<1>2. /\ regs' \in Registers /\ regs'.rbx = regs.rbx
      /\ regs'.ds = regs.ds /\ regs'.gs = regs.gs
  BY EntryRegisters
<1>3. /\ mem' = [mem EXCEPT ![s][d + 1] = f]
      /\ rsp' = [stack |-> s, depth |-> d + 1]
      /\ intr' = TRUE /\ pc' = "cur" /\ rax' = NULL /\ rcx' = NULL
  BY DEF Enter
<1>4. mem[s] \in StackMem /\ n \in StackMem
  BY <1>1, FramesDiffer DEF TypeOK, StackMem
<1>5. n[d + 1] = f /\ \A i \in 1 .. d : n[i] = mem[s][i]
  BY <1>1, <1>4 DEF StackMem
<1>6. /\ mem' \in [Stack -> StackMem] /\ mem'[s] = n
      /\ \A q \in Stack \ {s} : mem'[q] = mem[q]
  BY <1>1, <1>3, <1>4, WriteOneStack DEF TypeOK
<1>7. SavedInv'
  <2>1. \A p \in saved : p \in Stack \ {s}
    BY <1>1 DEF TypeOK, Stack
  <2> QED
    BY <1>6, <2>1, KeepSaved
<1> HIDE DEF n
<1>8. rsp' \in Rsp
  BY <1>1, <1>3 DEF Rsp
<1>9. d + 1 < MaxDepth
  OBVIOUS
<1>10. mem'[s][d + 1] = f /\ \A i \in 1 .. d : mem'[s][i] = mem[s][i]
  BY <1>5, <1>6
<1>11. ASSUME s = PF_stack => regs.rbx = Own(cur_proc', "rbx") PROVE ValueInv'
  BY <1>1, <1>2, <1>3, <1>11 DEF ValueInv, Bare
<1> QED
  BY <1>2, <1>3, <1>6, <1>7, <1>8, <1>9, <1>10, <1>11, Zenon

\* int 0x80, int 0x81, page faults and device interrupts.
LEMMA InterruptSteps ==
    ASSUME WindowClosed, IInv,
           \/ \E p \in Pointer : IntExit(p)
           \/ IntYield \/ Irq \/ PageFault
    PROVE  IInv'
<1> USE ContextAssumption DEF IInv
<1>1. CASE IntYield
  <2>1. OnOwn /\ rsp.depth = 0
    BY <1>1 DEF IntYield, PlaceInv, OnFault, OnExit, Between, OnOwn, Shape,
                Bare, Quiet
  <2> QED
    BY <1>1, <2>1, EnterOwn DEF IntYield, SwitchWindow, Label
<1>2. ASSUME NEW p \in Pointer, IntExit(p) PROVE IInv'
  <2> USE <1>2 DEF IntExit
  <2>1. /\ mem' \in [Stack -> StackMem] /\ rsp' \in Rsp /\ 1 < MaxDepth
        /\ rsp' = [stack |-> EX_stack, depth |-> 1]
        /\ intr' = TRUE /\ pc' = "cur" /\ rax' = NULL /\ rcx' = NULL
        /\ SavedInv' /\ ValueInv' /\ regs' \in Registers
    <3>1. 0 \in 0 .. MaxDepth - 2 /\ 0 + 1 = 1 /\ "run" \in Label
      BY DEF Label
    <3>2. PICK f \in TrapFrame : f = Pushed("run")
      BY <3>1, EntryFrame
    <3>3. /\ Enter(EX_stack, 0, f) /\ UNCHANGED <<ctx, saved>>
          /\ pc \notin SwitchWindow
      BY <3>2 DEF SwitchWindow
    <3> HIDE <1>2 DEF IntExit
    <3> QED
      BY <3>1, <3>3, EnterShared
  <2>2. p \in Proc /\ p \notin exited' /\ cur_proc' = NULL /\ next_proc' = p
    BY DEF Proc, TypeOK
  <2>3. TypeOK'
    BY <2>1 DEF TypeOK, Label, Pointer
  <2>4. PlaceInv' /\ RegInv' /\ RoomInv'
    BY <2>1, <2>2 DEF PlaceInv, OnExit, RegInv, RoomInv
  <2>5. SavedSet'
    <3>1. saved' = (Proc \ exited) \ {cur_proc}
      BY DEF SavedSet, Between
    <3> QED
      BY <2>1, <2>2, <3>1 DEF SavedSet, Between
  <2> QED
    BY <2>1, <2>3, <2>4, <2>5
<1>3. CASE PageFault
  <2> USE <1>3 DEF PageFault
  <2>1. OnOwn /\ rsp.depth = 0 /\ rsp.stack = cur_proc
    BY DEF PlaceInv, OnFault, OnExit, Between, OnOwn, Shape, Bare, Quiet
  <2>2. "run" \in Label
    BY DEF Label
  <2>3. PICK f \in TrapFrame : f = ShiftStack(Pushed("run"))
    BY <2>2, EntryFrame
  <2>4. /\ f.pc = "run" /\ f.rsp = [stack |-> cur_proc, depth |-> 0]
        /\ OwnScratch(cur_proc, f)
    <3>1. rsp = [stack |-> cur_proc, depth |-> 0]
      BY <2>1 DEF TypeOK, Rsp
    <3>2. OwnScratch(cur_proc, regs)
      BY DEF ValueInv, Bare
    <3> QED
      BY <2>2, <2>3, <3>1, <3>2, EntryFrame
  <2>5. regs.rbx = Own(cur_proc, "rbx")
    BY <2>1 DEF ValueInv, OnOwn, Shape, Quiet, Between
  <2>6. /\ mem'[PF_stack][1] = f
        /\ mem' \in [Stack -> StackMem] /\ rsp' \in Rsp /\ 1 < MaxDepth
        /\ rsp' = [stack |-> PF_stack, depth |-> 1]
        /\ intr' = TRUE /\ pc' = "cur" /\ rax' = NULL /\ rcx' = NULL
        /\ SavedInv' /\ ValueInv' /\ regs' \in Registers
    <3>1. 0 \in 0 .. MaxDepth - 2 /\ 0 + 1 = 1
      OBVIOUS
    <3>2. /\ Enter(PF_stack, 0, f) /\ UNCHANGED <<ctx, saved>>
          /\ pc \notin SwitchWindow
      BY <2>3 DEF SwitchWindow
    <3>3. regs.rbx = Own(cur_proc', "rbx")
      BY <2>5
    <3> HIDE <1>3 DEF PageFault
    <3>4. /\ mem'[PF_stack][0 + 1] = f
          /\ mem' \in [Stack -> StackMem] /\ rsp' \in Rsp
          /\ 0 + 1 < MaxDepth
          /\ rsp' = [stack |-> PF_stack, depth |-> 0 + 1]
          /\ intr' = TRUE /\ pc' = "cur" /\ rax' = NULL /\ rcx' = NULL
          /\ SavedInv' /\ regs' \in Registers
      BY <3>1, <3>2, EnterShared
    <3>5. ValueInv'
      BY <3>1, <3>2, <3>3, EnterShared
    <3> QED
      BY <3>1, <3>4, <3>5
  <2>7. cur_proc = next_proc
    BY DEF RegInv
  <2>8. TypeOK'
    BY <2>6 DEF TypeOK, Label, Pointer
  <2>9. FaultFrames(mem'[PF_stack], cur_proc, 1)
    BY <2>4, <2>6 DEF FaultFrames, FaultFrameOK
  <2>10. PlaceInv' /\ RegInv' /\ RoomInv'
    BY <2>6, <2>7, <2>9 DEF PlaceInv, OnFault, RegInv, RoomInv, Quiet
  <2>11. SavedSet'
    BY <2>6 DEF SavedSet, Between
  <2> QED
    BY <2>6, <2>8, <2>10, <2>11
<1>4. CASE Irq
  <2> USE <1>4 DEF Irq
  <2>1. pc \notin SwitchWindow /\ pc \notin Between
    BY DEF WindowClosed, SwitchWindow, Between
  <2>2. rsp.depth \in 0 .. MaxDepth - 2 /\ pc \in Label
    BY DEF TypeOK, Rsp
  <2>3. CASE OnOwn
    <3>1. /\ Enter(rsp.stack, rsp.depth, Pushed(pc))
          /\ rsp.depth + 2 <= MaxDepth
          /\ UNCHANGED <<cur_proc, next_proc, ctx, saved, exited>>
      OBVIOUS
    <3>2. PICK l \in Label : l = pc
      BY <2>2
    <3>3. Enter(rsp.stack, rsp.depth, Pushed(l))
      BY <3>1, <3>2
    <3> HIDE <1>4 DEF Irq, IInv
    <3> QED
      BY <2>1, <2>3, <3>1, <3>2, <3>3, EnterOwn
  <2> DEFINE d == rsp.depth
  <2>4. PICK f \in TrapFrame : f = Pushed(pc)
    BY <2>2, EntryFrame
  <2>5. CASE OnFault
    <3>1. /\ Enter(PF_stack, d, f) /\ rsp = [stack |-> PF_stack, depth |-> d]
          /\ regs.rbx = Own(cur_proc, "rbx")
      BY <2>5, <2>4 DEF OnFault, TypeOK, Rsp, ValueInv
    <3>2. /\ mem'[PF_stack][d + 1] = f
          /\ \A i \in 1 .. d : mem'[PF_stack][i] = mem[PF_stack][i]
          /\ mem' \in [Stack -> StackMem] /\ rsp' \in Rsp
          /\ d + 1 < MaxDepth
          /\ rsp' = [stack |-> PF_stack, depth |-> d + 1]
          /\ intr' = TRUE /\ pc' = "cur" /\ rax' = NULL /\ rcx' = NULL
          /\ SavedInv' /\ ValueInv' /\ regs' \in Registers
      BY <2>1, <2>2, <3>1, EnterShared
    <3>3. /\ f.rsp = [stack |-> PF_stack, depth |-> d]
          /\ f.pc = pc /\ f.rax = rax /\ f.rcx = rcx
      BY <2>4, <3>1 DEF Pushed
    <3>4. FaultFrameOK(f, cur_proc, d + 1)
      BY <2>2, <2>5, <3>2, <3>3 DEF OnFault, FaultFrameOK, RegInv
    <3>5. FaultFrames(mem'[PF_stack], cur_proc, d + 1)
      <4>1. \A i \in 1 .. d + 1 : i \in 1 .. d \/ i = d + 1
        BY <2>2
      <4> QED
        BY <2>5, <3>2, <3>4, <4>1 DEF OnFault, FaultFrames
    <3>6. TypeOK'
      BY <3>2 DEF TypeOK, Label, Pointer
    <3>7. PlaceInv' /\ RegInv' /\ RoomInv'
      BY <2>2, <2>5, <3>2, <3>5 DEF PlaceInv, OnFault, RegInv, RoomInv, Quiet
    <3>8. SavedSet'
      BY <2>1, <3>2 DEF SavedSet, Between, SwitchWindow
    <3> QED
      BY <3>2, <3>6, <3>7, <3>8
  <2>6. CASE OnExit
    <3>1. Enter(EX_stack, d, f)
      BY <2>6, <2>4 DEF OnExit
    <3>2. /\ mem' \in [Stack -> StackMem] /\ rsp' \in Rsp /\ d + 1 < MaxDepth
          /\ rsp' = [stack |-> EX_stack, depth |-> d + 1]
          /\ intr' = TRUE /\ pc' = "cur" /\ rax' = NULL /\ rcx' = NULL
          /\ SavedInv' /\ ValueInv' /\ regs' \in Registers
      BY <2>1, <2>2, <3>1, EnterShared
    <3>3. TypeOK'
      BY <3>2 DEF TypeOK, Label, Pointer
    <3>4. PlaceInv' /\ RegInv' /\ RoomInv'
      BY <2>2, <2>6, <3>2 DEF PlaceInv, OnExit, RegInv, RoomInv
    <3>5. SavedSet'
      BY <2>1, <3>2 DEF SavedSet, Between, SwitchWindow
    <3> QED
      BY <3>2, <3>3, <3>4, <3>5
  <2> QED
    BY <2>1, <2>3, <2>5, <2>6 DEF PlaceInv
<1> QED
  BY <1>1, <1>2, <1>3, <1>4

\* The pushes and pops of a switch.
LEMMA CalleeSteps ==
    ASSUME IInv, PushCallee \/ PopCallee
    PROVE  IInv'
<1> DEFINE d == rsp.depth
           s == rsp.stack
<1> USE ContextAssumption DEF IInv, Step
<1>1. OnOwn /\ s = cur_proc /\ s \in Proc /\ s \in Stack /\ mem[s] \in StackMem
  BY DEF PushCallee, PopCallee, PlaceInv, OnOwn, OnFault, OnExit, Between,
         Quiet, TypeOK, Rsp
<1>2. saved' = saved /\ \A p \in saved : p \in Stack \ {s}
  BY <1>1 DEF PushCallee, PopCallee, SavedSet, Between, TypeOK, Stack
<1>3. Shape(mem[s], pc, d) /\ Frames(mem[s], s, d) /\ d \in 0 .. MaxDepth
  BY DEF OnOwn, TypeOK, Rsp, PushCallee, PopCallee, PlaceInv, OnFault, OnExit,
         Between, Quiet
<1>4. CASE PushCallee
  <2> USE <1>4 DEF PushCallee
  <2> DEFINE n == [mem[s] EXCEPT ![d + 1] = OwnCallee(s)]
  <2>1. d \in 0 .. MaxDepth - 1 /\ d + 1 \in 0 .. MaxDepth
    BY <1>3 DEF RoomInv
  <2>2. [rbx |-> regs.rbx, ds |-> regs.ds, gs |-> regs.gs] = OwnCallee(s)
         /\ regs.rbx = Own(s, "rbx")
    BY <1>1, <1>3 DEF ValueInv, Shape, Quiet, Between, OwnCallee
  <2>3. /\ n \in StackMem /\ Shape(n, "sp_cur", d + 1)
        /\ Frames(n, s, d + 1) /\ ~Pending(n, d + 1)
    BY <1>1, <1>3, <2>1, PushCalleeFrame
  <2>4. /\ mem' \in [Stack -> StackMem] /\ mem'[s] = n
        /\ \A q \in Stack \ {s} : mem'[q] = mem[q]
    BY <1>1, <2>3, <2>2, WriteOneStack DEF TypeOK
  <2> HIDE DEF n
  <2>5. rsp' = [stack |-> s, depth |-> d + 1] /\ rsp' \in Rsp
    BY <2>1 DEF TypeOK, Rsp
  <2>6. TypeOK'
    BY <2>4, <2>5 DEF TypeOK, Label, Pointer
  <2>7. PlaceInv'
    BY <1>1, <2>3, <2>4, <2>5 DEF PlaceInv, OnOwn
  <2>8. SavedInv'
    BY <1>2, <2>4, KeepSaved
  <2>9. SavedSet' /\ RegInv' /\ RoomInv'
    BY <1>1 DEF SavedSet, RegInv, RoomInv, Between
  <2>10. ValueInv'
    <3>1. mem'[rsp'.stack] = n /\ rsp'.stack = s /\ rsp'.depth = d + 1
      BY <2>4, <2>5
    <3> QED
      BY <1>1, <2>3, <2>2, <3>1 DEF ValueInv, Bare
  <2> QED
    BY <2>6, <2>7, <2>8, <2>9, <2>10
<1>5. CASE PopCallee
  <2> USE <1>5 DEF PopCallee, Popped
  <2> DEFINE n == [mem[s] EXCEPT ![d] = Unused]
  <2>1. d >= 2 /\ mem[s][d - 1] \in TrapFrame /\ d \in 1 .. MaxDepth
    BY <1>3 DEF Shape, InSwitch
  <2>2. Shape(mem[s], "pop", d - 1)
    BY <2>1 DEF Shape, Bare, InStub, InSwitch, Quiet
  <2>3. regs' \in Registers /\ regs'.rbx = Own(s, "rbx")
         /\ regs'.ds = Selector /\ regs'.gs = Selector
    <3>1. Top = OwnCallee(s) /\ Top \in CalleeSaved
      BY <1>3, <2>1 DEF Frames, Top
    <3>2. Top.rbx = Own(s, "rbx") /\ Top.ds = Selector /\ Top.gs = Selector
      BY <3>1 DEF OwnCallee
    <3> QED
      BY <3>1, <3>2 DEF TypeOK, Registers, CalleeSaved
  <2>4. ~Pending(mem[s], d - 1)
    BY <1>3, <2>1 DEF Shape, Quiet, Pending
  <2>5. n \in StackMem /\ Shape(n, "pop", d - 1) /\ Frames(n, s, d - 1)
        /\ ~Pending(n, d - 1)
    BY <1>1, <1>3, <2>1, <2>2, <2>4, PopTop
  <2>6. /\ mem' \in [Stack -> StackMem] /\ mem'[s] = n
        /\ \A q \in Stack \ {s} : mem'[q] = mem[q]
    BY <1>1, <2>5, WriteOneStack DEF TypeOK
  <2> HIDE DEF n
  <2>7. rsp' = [stack |-> s, depth |-> d - 1] /\ rsp' \in Rsp
    BY <2>1 DEF TypeOK, Rsp
  <2>8. TypeOK'
    BY <2>6, <2>7, <2>3 DEF TypeOK, Label, Pointer
  <2>9. PlaceInv'
    BY <1>1, <2>5, <2>6, <2>7 DEF PlaceInv, OnOwn
  <2>10. SavedInv'
    BY <1>2, <2>6, KeepSaved
  <2>11. SavedSet' /\ RegInv' /\ RoomInv'
    BY <1>1 DEF SavedSet, RegInv, RoomInv, Between
  <2>12. ValueInv'
    <3>1. mem'[rsp'.stack] = n /\ rsp'.stack = s /\ rsp'.depth = d - 1
      BY <2>6, <2>7
    <3> QED
      BY <1>1, <2>5, <2>3, <3>1 DEF ValueInv, Bare
  <2> QED
    BY <2>8, <2>9, <2>10, <2>11, <2>12
<1> QED
  BY <1>4, <1>5

\* The return from an interrupt.
LEMMA ReturnSteps ==
    ASSUME IInv, Iretq
    PROVE  IInv'
<1> DEFINE d == rsp.depth
           s == rsp.stack
           f == mem[s][d]
           n == [mem[s] EXCEPT ![d] = Unused]
<1> USE ContextAssumption DEF IInv
<1>1. /\ pc = "pop" /\ f \in TrapFrame /\ mem' = [mem EXCEPT ![s][d] = Unused]
      /\ pc' = f.pc /\ rsp' = f.rsp /\ intr' = f.intr
      /\ rax' = f.rax /\ rcx' = f.rcx
      /\ regs' = [regs EXCEPT !.r10 = f.r10, !.r11 = f.r11]
      /\ UNCHANGED <<cur_proc, next_proc, ctx, saved, exited>>
  BY DEF Iretq, Top, Popped
<1>2. s \in Stack /\ mem[s] \in StackMem /\ d \in 0 .. MaxDepth
  BY DEF TypeOK, Rsp
<1>3. cur_proc = next_proc
  BY <1>1 DEF RegInv
<1>4. OnOwn \/ OnFault
  BY <1>1 DEF PlaceInv, OnExit, Between
<1>5. d >= 1 /\ d \in 1 .. MaxDepth /\ d - 1 \in 0 .. MaxDepth
  BY <1>1, <1>2, <1>4 DEF OnOwn, OnFault, Shape, InStub
<1>6. n \in StackMem /\ \A i \in 1 .. d - 1 : n[i] = mem[s][i]
  BY <1>2, <1>5, FramesDiffer DEF StackMem
<1>7. /\ mem' \in [Stack -> StackMem] /\ mem'[s] = n
      /\ \A q \in Stack \ {s} : mem'[q] = mem[q]
  BY <1>1, <1>2, <1>6, WriteOneStack DEF TypeOK
<1>8. /\ regs' \in Registers /\ regs'.rbx = regs.rbx
       /\ regs'.ds = Selector /\ regs'.gs = Selector
       /\ \A p : OwnScratch(p, f) => OwnScratch(p, regs')
  BY <1>1 DEF TypeOK, TrapFrame, Registers, OwnScratch, ValueInv
<1>9. TypeOK'
  BY <1>1, <1>7, <1>8 DEF TypeOK, TrapFrame
<1>10. saved' = saved /\ saved = (Proc \ exited) \ {cur_proc}
  BY <1>1 DEF SavedSet, Between
<1>11. SavedInv'
  <2>1. \A p \in saved : p \in Stack \ {s}
    BY <1>4, <1>1, <1>10 DEF OnOwn, OnFault, Stack
  <2> QED
    BY <1>1, <1>7, <2>1, KeepSaved
<1> HIDE DEF f
<1>12. CASE OnOwn
  <2>1. s = cur_proc /\ s \in Proc /\ Frames(mem[s], s, d)
    BY <1>1, <1>12 DEF OnOwn
  <2>2. FrameOK(mem[s], s, d)
    BY <1>1, <1>5, <2>1 DEF Frames, f
  <2>3. /\ rsp' = [stack |-> s, depth |-> d - 1] /\ f.pc \notin SwitchWindow
        /\ Shape(mem[s], f.pc, d - 1)
        /\ f.pc \in {"next", "cmp", "sp_ctx"} => f.rax = s
        /\ f.pc = "sp_store" => f.rcx = s
        /\ f.pc = "cmp" /\ Pending(mem[s], d - 1) => f.rcx = s
        /\ f.pc \in Bare => OwnScratch(s, f)
    BY <1>1, <2>2 DEF FrameOK, f
  <2>4. /\ Frames(n, s, d - 1) /\ Shape(n, f.pc, d - 1)
        /\ Pending(n, d - 1) <=> Pending(mem[s], d - 1)
    BY <1>2, <1>5, <2>1, <2>3, PopTop
  <2> HIDE DEF n
  <2>5. PlaceInv'
    <3>1. rsp'.stack = s /\ rsp'.depth = d - 1 /\ mem'[rsp'.stack] = n
      BY <1>7, <2>3
    <3>2. Shape(mem'[rsp'.stack], pc', rsp'.depth)
      BY <1>1, <2>4, <3>1
    <3>3. Frames(mem'[rsp'.stack], rsp'.stack, rsp'.depth)
      BY <2>4, <3>1
    <3>4. rsp'.stack = cur_proc' /\ rsp'.stack \in Proc /\ pc' # "n_cur"
      BY <1>1, <2>1, <2>3, <3>1 DEF SwitchWindow
    <3> QED
      BY <3>2, <3>3, <3>4 DEF PlaceInv, OnOwn
  <2>6. SavedSet'
    BY <1>1, <1>10, <2>3 DEF SavedSet, Between, SwitchWindow
  <2>7. RegInv'
    BY <1>1, <1>3, <2>1, <2>3 DEF RegInv, SwitchWindow
  <2>8. RoomInv'
    BY <1>1, <1>5, <2>3 DEF RoomInv
  <2>9. ValueInv'
    <3>1. /\ rsp'.stack = s /\ rsp'.depth = d - 1 /\ mem'[rsp'.stack] = n
          /\ s # PF_stack
      BY <1>7, <2>1, <2>3
    <3>2. ASSUME ~Pending(mem[s], d - 1), f.pc # "n_pop"
          PROVE  regs.rbx = Own(cur_proc, "rbx")
      <4>1. ~Pending(mem[s], d)
        BY <1>5, <3>2 DEF Pending, f
      <4> QED
        BY <1>1, <2>1, <4>1 DEF ValueInv, Between
    <3> QED
      BY <1>1, <1>3, <1>8, <2>1, <2>3, <2>4, <3>1, <3>2 DEF ValueInv
  <2> QED
    BY <1>9, <1>11, <2>5, <2>6, <2>7, <2>8, <2>9
<1>13. CASE OnFault
  <2>1. s = PF_stack /\ FaultFrames(mem[s], cur_proc, d) /\ cur_proc \in Thread
    BY <1>13 DEF OnFault
  <2>2. FaultFrameOK(f, cur_proc, d)
    BY <1>5, <2>1 DEF FaultFrames, f
  <2>3. CASE d = 1
    <3>1. /\ rsp' = [stack |-> cur_proc, depth |-> 0] /\ pc' = "run"
          /\ OwnScratch(cur_proc, regs')
      BY <1>1, <1>8, <2>2, <2>3 DEF FaultFrameOK
    <3>2. ~Pending(mem'[rsp'.stack], rsp'.depth)
      BY <3>1 DEF Pending
    <3>3. OnOwn'
      BY <1>1, <2>1, <3>1, <3>2 DEF OnOwn, Proc, Shape, Frames, Bare, InStub,
                                    InSwitch
    <3>4. SavedSet' /\ RegInv' /\ RoomInv'
      BY <1>1, <1>3, <1>10, <3>1 DEF SavedSet, RegInv, RoomInv, Between
    <3>5. ValueInv'
      BY <1>1, <1>8, <2>1, <3>1, <3>2 DEF ValueInv, Proc
    <3> QED
      BY <1>9, <1>11, <3>3, <3>4, <3>5 DEF PlaceInv
  <2>4. CASE d > 1
    <3>1. /\ rsp' = [stack |-> PF_stack, depth |-> d - 1]
          /\ pc' \in Quiet
          /\ pc' \in {"next", "cmp"} => rax' = cur_proc
          /\ pc' = "cmp" => rcx' = cur_proc
      BY <1>1, <2>2, <2>4 DEF FaultFrameOK
    <3>2. FaultFrames(n, cur_proc, d - 1)
      <4>1. \A i \in 1 .. d - 1 : i \in 1 .. d
        BY <1>5
      <4> QED
        BY <1>6, <2>1, <4>1 DEF FaultFrames
    <3> HIDE DEF n
    <3>3. OnFault'
      <4>1. d - 1 >= 1
        BY <1>5, <2>4
      <4>2. FaultFrames(mem'[PF_stack], cur_proc, d - 1)
        BY <1>7, <2>1, <3>2
      <4> QED
        BY <1>1, <1>3, <2>1, <3>1, <4>1, <4>2 DEF OnFault
    <3>4. SavedSet' /\ RegInv'
      BY <1>1, <1>3, <1>10, <2>1, <3>1
      DEF SavedSet, RegInv, Between, Proc, Quiet
    <3>5. RoomInv'
      BY <1>5, <3>1 DEF RoomInv
    <3>6. ValueInv'
      BY <1>1, <1>8, <2>1, <3>1 DEF ValueInv, Proc, Bare, Quiet
    <3> QED
      BY <1>9, <1>11, <3>3, <3>4, <3>5, <3>6 DEF PlaceInv
  <2> QED
    BY <1>5, <2>3, <2>4
<1> QED
  BY <1>4, <1>12, <1>13

-----------------------------------------------------------------------------
\* With interrupts kept out of the window of the switch, every state of the
\* stub of isr_handler.asm satisfies the invariant.
THEOREM ContextInvariant == ASSUME WindowClosed PROVE Spec => []IInv
<1>1. IInv /\ [Next]_vars => IInv'
  <2> SUFFICES ASSUME IInv, [Next]_vars PROVE IInv'
    OBVIOUS
  <2>1. CASE Next
    BY <2>1, RegisterSteps, SwitchSteps, InterruptSteps, CalleeSteps,
       ReturnSteps DEF Next
  <2>2. CASE UNCHANGED vars
    BY <2>2 DEF vars, IInv, TypeOK, PlaceInv, OnOwn, OnFault, OnExit,
                SavedInv, SavedSet, RegInv, ValueInv, RoomInv
  <2> QED
    BY <2>1, <2>2
<1> QED
  BY <1>1, InitIInv, PTL DEF Spec

\* What the stub stores as a process's stack pointer is on that process's own
\* stack, whatever number of threads and nested interrupts there are.
THEOREM StoresOwnStack ==
    ASSUME WindowClosed PROVE Spec => []ContextOnOwnStack
<1>1. IInv => ContextOnOwnStack
  BY DEF IInv, SavedInv, ContextOnOwnStack
<1> QED
  BY <1>1, ContextInvariant, PTL

\* A process's code never runs on another's stack: cur_proc and rsp agree
\* whenever the stub has returned.
THEOREM RunsWhereItShould ==
    ASSUME WindowClosed PROVE Spec => []RunsOnOwnStack
<1>1. IInv => RunsOnOwnStack
  BY DEF IInv, PlaceInv, OnOwn, OnFault, OnExit, Between, Quiet,
         RunsOnOwnStack
<1> QED
  BY <1>1, ContextInvariant, PTL

\* The stub resumes only what a switch has stored and nobody resumed since.
THEOREM ResumesOnce ==
    ASSUME WindowClosed PROVE Spec => []ResumesSavedContext
<1>1. IInv => ResumesSavedContext
  <2> SUFFICES ASSUME IInv, pc = "n_rsp" PROVE rcx \in saved
    BY DEF ResumesSavedContext
  <2>1. rcx = next_proc /\ next_proc # NULL
    BY DEF IInv, RegInv
  <2> QED
    BY <2>1 DEF IInv, SavedSet, Between
<1> QED
  BY <1>1, ContextInvariant, PTL

\* Both halves of a frame are popped where they were pushed, so the iretq of
\* isr_handler.asm always finds a frame, and the code of a process finds its
\* own registers again, with the exception of an r11 that a page fault lost.
THEOREM PopsAreMatched ==
    ASSUME WindowClosed PROVE Spec => []PopsWhatWasPushed
<1>1. IInv => PopsWhatWasPushed
  <2> SUFFICES ASSUME IInv PROVE PopsWhatWasPushed
    OBVIOUS
  <2> USE DEF IInv
  <2>1. ASSUME pc = "n_pop" PROVE rsp.depth > 0 /\ Top \in CalleeSaved
    BY <2>1 DEF PlaceInv, OnOwn, OnFault, OnExit, Between, Quiet, Shape,
                InSwitch, Top, TypeOK, Rsp
  <2>2. ASSUME pc = "pop" PROVE rsp.depth > 0 /\ Top \in TrapFrame
    <3>1. CASE OnOwn
      BY <2>2, <3>1 DEF OnOwn, Shape, InStub, Top, TypeOK, Rsp
    <3>2. CASE OnFault
      <4>1. rsp.depth \in 1 .. rsp.depth /\ rsp.depth > 0
        BY <3>2 DEF OnFault, TypeOK, Rsp
      <4> QED
        BY <3>2, <4>1 DEF OnFault, FaultFrames, FaultFrameOK, Top
    <3> QED
      BY <2>2, <3>1, <3>2 DEF PlaceInv, OnExit, Between
  <2>3. ASSUME pc = "run"
        PROVE  /\ regs.rbx = Own(cur_proc, "rbx")
               /\ regs.ds = Selector /\ regs.gs = Selector
               /\ OwnScratch(cur_proc, regs)
    BY <2>3 DEF PlaceInv, OnOwn, OnFault, OnExit, Between, Quiet, Shape, Bare,
                ValueInv
  <2> QED
    BY <2>1, <2>2, <2>3 DEF PopsWhatWasPushed, OwnScratch
<1> QED
  BY <1>1, ContextInvariant, PTL
=============================================================================
