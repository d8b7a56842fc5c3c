-------------------------- MODULE SchedulerProofs ---------------------------
(***************************************************************************)
(* What Scheduler guarantees for every set of threads, every choice of the *)
(* calls they make and every ring size: the invariant of the control flow  *)
(* and the CPU first, then what it lets one say of the process queues.     *)
(***************************************************************************)
EXTENDS Scheduler, QueueLemmas

\* The labels of a flow that is not suspended there.
Owning == {"g_test", "g_block", "y_load", "y_store", "y_next"}

\* Only the flow on the CPU is in the middle of a test or of a rotation.
SuspendedInv == \A f \in Flow : f # run => pc[f] \notin Owning

\* The loop of ring_consumer_block_next runs with interrupts off, and what it
\* has seen of the ring still holds.
LockInv == /\ pc[run] \in {"g_test", "g_block"} => ~intr
           /\ pc[run] = "g_block" => ring_empty(ring)

RetInv == \A f \in Flow : ret[f] \in {"none", "run", "g_cli", "s_ret"}

\* The successor that cycle_next_proc holds is still queued.
RotateInv == pc[run] = "y_store" => InQueue(loc[run].tmp, avail)

\* cur_proc names the flow on the CPU, and next_proc differs from it only
\* between a reschedule and the end of the switch it asks for.
SwitchInv ==
    /\ cur_proc \in {run, NULL}
    /\ pc[run] \notin {"y_int", "epi"} =>
          \/ cur_proc = next_proc
          \/ run = Source /\ cur_proc = Source /\ next_proc = NULL
    /\ cur_proc = NULL =>
          \/ run \in Thread /\ pc[run] = "epi" /\ next_proc # NULL
          \/ /\ run = Source /\ next_proc = NULL
             /\ pc[run] \in {"s_create", "s_run", "s_check", "s_sti", "hlt"}

Inv == /\ TypeOK /\ SuspendedInv /\ LockInv /\ RetInv /\ RotateInv
       /\ SwitchInv /\ NoSleepOnData

-----------------------------------------------------------------------------
\* The ring operations yield rings, and an initialised ring is empty.
LEMMA RingTypes ==
    /\ ring_init \in Ring /\ ring_empty(ring_init)
    /\ \A r \in Ring : ring_take(r) \in Ring
    /\ \A r \in Ring, c \in Char : ring_producer_add_char(r, c) \in Ring
<1> USE RingAssumption DEF Ring
<1>1. ring_init \in Ring /\ ring_empty(ring_init)
  BY DEF ring_init, ring_empty
<1>2. \A i \in 0 .. BUFF_SIZE - 1 : Advance(i) \in 0 .. BUFF_SIZE - 1
  BY DEF Advance
<1>3. \A r \in Ring : ring_take(r) \in Ring
  BY <1>2 DEF ring_take
<1>4. \A r \in Ring, c \in Char : ring_producer_add_char(r, c) \in Ring
  BY <1>2 DEF ring_producer_add_char, ring_put
<1> QED
  BY <1>1, <1>3, <1>4

\* What the end of the stub can do: it goes on, or it makes next_proc (or
\* Source) the current process; only a flow that has rescheduled or exited
\* can lose the CPU.
LEMMA StubReturnFacts ==
    ASSUME TypeOK, SwitchInv, NEW label \in Label, StubReturn(label)
    PROVE  /\ run' \in Flow
           /\ cur_proc' \in Flow \cup {NULL} /\ next_proc' \in Flow \cup {NULL}
           /\ \E l \in {label, "dead"} : pc' = [pc EXCEPT ![run] = l]
           /\ pc[run] # "epi" => pc' = [pc EXCEPT ![run] = label]
           /\ \/ cur_proc' = run' /\ next_proc' = run'
              \/ /\ cur_proc = next_proc
                 /\ UNCHANGED <<cur_proc, next_proc, run>>
           /\ run' # run => pc[run] \in {"y_int", "epi"}
           /\ cur_proc # next_proc /\ next_proc # NULL => run' = next_proc
           /\ cur_proc # next_proc /\ next_proc = NULL => run' = Source
<1> USE SchedulerAssumption DEF Flow
<1>1. CASE cur_proc = next_proc
  BY <1>1 DEF StubReturn, TypeOK, Switch, Goto
<1>2. CASE cur_proc # next_proc
  <2>1. Switch(label)
    BY <1>2 DEF StubReturn
  <2>2. /\ run' = (IF next_proc = NULL THEN Source ELSE next_proc)
        /\ cur_proc' = run' /\ next_proc' = run'
        /\ pc' = [pc EXCEPT ![run] = IF cur_proc = NULL THEN "dead" ELSE label]
    BY <2>1 DEF Switch, Goto
  <2>3. pc[run] # "epi" => cur_proc # NULL
    BY <1>2 DEF SwitchInv
  <2>4. run' # run => pc[run] \in {"y_int", "epi"}
    BY <1>2, <2>2 DEF SwitchInv
  <2> QED
    BY <1>2, <2>2, <2>3, <2>4 DEF TypeOK
<1> QED
  BY <1>1, <1>2

-----------------------------------------------------------------------------
\* kmain starts in a state that satisfies the invariant.
LEMMA InitInv == Init => Inv
<1> SUFFICES ASSUME Init PROVE Inv
  OBVIOUS
<1> USE SchedulerAssumption DEF Flow, Init
<1>1. TypeOK
  <2>1. avail \in Seq(Thread) /\ blocked \in Seq(Thread) /\ live \subseteq Thread
    OBVIOUS
  <2>2. pc \in [Flow -> Label] /\ ret \in [Flow -> Label]
    BY DEF Label
  <2>3. loc \in [Flow -> [node : Thread \cup {NULL},
      tmp : Thread \cup {NULL}]]
    OBVIOUS
  <2>4. intr \in BOOLEAN /\ frameIF \in [Flow -> BOOLEAN]
    OBVIOUS
  <2>5. kbd \in BOOLEAN /\ handlers \in BOOLEAN
    OBVIOUS
  <2> QED
    BY <2>1, <2>2, <2>3, <2>4, <2>5, RingTypes DEF TypeOK
<1>2. SuspendedInv /\ LockInv /\ RetInv /\ RotateInv /\ SwitchInv
  BY DEF SuspendedInv, LockInv, RetInv, RotateInv, SwitchInv, Owning
<1> QED
  BY <1>1, <1>2 DEF Inv, NoSleepOnData

-----------------------------------------------------------------------------
\* Every step, of a flow or of an interrupt, preserves the invariant.
LEMMA InvStep == Inv /\ [Next]_vars => Inv'
<1> SUFFICES ASSUME Inv, [Next]_vars PROVE Inv'
  OBVIOUS
<1> USE SchedulerAssumption DEF Flow, At, Goto, procs, ctl
<1> USE DEF Inv
<1>1. ASSUME NEW t \in Thread, PROC_create_kthread(t) PROVE Inv'
  <2>1. TypeOK'
    BY <1>1, AppendMembers DEF PROC_create_kthread, TypeOK, Label
  <2>2. SuspendedInv' /\ LockInv' /\ RetInv' /\ RotateInv'
    BY <1>1 DEF PROC_create_kthread, TypeOK, SuspendedInv, LockInv, RetInv,
       RotateInv, Owning
  <2>3. SwitchInv'
    BY <1>1 DEF PROC_create_kthread, TypeOK, SwitchInv
  <2> QED
    BY <1>1, <2>1, <2>2, <2>3 DEF PROC_create_kthread, NoSleepOnData
<1>2. ASSUME PROC_run PROVE Inv'
  <2>1. TypeOK'
    <3>1. handlers' \in BOOLEAN
      BY <1>2 DEF PROC_run, TypeOK
    <3>2. pc' \in [Flow -> Label] /\ ret' \in [Flow -> Label]
      BY <1>2 DEF PROC_run, TypeOK, Label
    <3> QED
      BY <1>2, <3>1, <3>2 DEF PROC_run, TypeOK
  <2>2. SuspendedInv' /\ LockInv' /\ RetInv' /\ RotateInv'
    BY <1>2 DEF PROC_run, TypeOK, SuspendedInv, LockInv, RetInv,
       RotateInv, Owning
  <2>3. SwitchInv'
    BY <1>2 DEF PROC_run, TypeOK, SwitchInv
  <2> QED
    BY <1>2, <2>1, <2>2, <2>3 DEF PROC_run, NoSleepOnData
<1>3. ASSUME PROC_run_return PROVE Inv'
  <2>1. TypeOK'
    BY <1>3 DEF PROC_run_return, TypeOK, Label, RetInv
  <2>2. SuspendedInv' /\ LockInv' /\ RetInv' /\ RotateInv'
    BY <1>3 DEF PROC_run_return, TypeOK, SuspendedInv, LockInv, RetInv,
       RotateInv, Owning
  <2>3. SwitchInv'
    BY <1>3 DEF PROC_run_return, TypeOK, SwitchInv
  <2> QED
    BY <1>3, <2>1, <2>2, <2>3 DEF PROC_run_return, NoSleepOnData
<1>4. ASSUME PROC_has_unblocked PROVE Inv'
  <2>1. TypeOK'
    BY <1>4 DEF PROC_has_unblocked, TypeOK, Label, RetInv
  <2>2. SuspendedInv' /\ LockInv' /\ RetInv' /\ RotateInv'
    BY <1>4 DEF PROC_has_unblocked, TypeOK, SuspendedInv, LockInv, RetInv,
       RotateInv, Owning
  <2>3. SwitchInv'
    BY <1>4 DEF PROC_has_unblocked, TypeOK, SwitchInv
  <2> QED
    BY <1>4, <2>1, <2>2, <2>3 DEF PROC_has_unblocked, NoSleepOnData
<1>5. ASSUME Halt PROVE Inv'
  <2>1. TypeOK'
    BY <1>5 DEF Halt, TypeOK, Label, RetInv
  <2>2. SuspendedInv' /\ LockInv' /\ RetInv' /\ RotateInv'
    BY <1>5 DEF Halt, TypeOK, SuspendedInv, LockInv, RetInv,
       RotateInv, Owning
  <2>3. SwitchInv'
    BY <1>5 DEF Halt, TypeOK, SwitchInv
  <2> QED
    BY <1>5, <2>1, <2>2, <2>3 DEF Halt, NoSleepOnData
<1>6. ASSUME ps2_initialize PROVE Inv'
  <2>1. TypeOK'
    BY <1>6, RingTypes DEF ps2_initialize, TypeOK, Label, RetInv
  <2>2. SuspendedInv' /\ LockInv' /\ RetInv' /\ RotateInv'
    BY <1>6 DEF ps2_initialize, TypeOK, SuspendedInv, LockInv, RetInv,
       RotateInv, Owning
  <2>3. SwitchInv'
    BY <1>6 DEF ps2_initialize, TypeOK, SwitchInv
  <2> QED
    BY <1>6, <2>1, <2>2, <2>3, RingTypes DEF ps2_initialize, NoSleepOnData
<1>7. ASSUME NEW t \in Thread, CallYield(t) PROVE Inv'
  <2>1. TypeOK'
    BY <1>7 DEF CallYield, TypeOK, Label, RetInv, Calling
  <2>2. SuspendedInv' /\ LockInv' /\ RetInv' /\ RotateInv'
    BY <1>7 DEF CallYield, TypeOK, SuspendedInv, LockInv, RetInv,
       RotateInv, Owning, Calling
  <2>3. SwitchInv'
    BY <1>7 DEF CallYield, TypeOK, SwitchInv, Calling
  <2> QED
    BY <1>7, <2>1, <2>2, <2>3 DEF CallYield, NoSleepOnData
<1>8. ASSUME NEW t \in Thread, CallGetc(t) PROVE Inv'
  <2>1. TypeOK'
    BY <1>8 DEF CallGetc, TypeOK, Label, RetInv, Calling
  <2>2. SuspendedInv' /\ LockInv' /\ RetInv' /\ RotateInv'
    BY <1>8 DEF CallGetc, TypeOK, SuspendedInv, LockInv, RetInv,
       RotateInv, Owning, Calling
  <2>3. SwitchInv'
    BY <1>8 DEF CallGetc, TypeOK, SwitchInv, Calling
  <2> QED
    BY <1>8, <2>1, <2>2, <2>3 DEF CallGetc, NoSleepOnData
<1>9. ASSUME NEW t \in Thread, PageFault(t) PROVE Inv'
  <2>1. TypeOK'
    BY <1>9 DEF PageFault, TypeOK, Label, RetInv
  <2>2. SuspendedInv' /\ LockInv' /\ RetInv' /\ RotateInv'
    BY <1>9 DEF PageFault, TypeOK, SuspendedInv, LockInv, RetInv,
       RotateInv, Owning
  <2>3. SwitchInv'
    BY <1>9 DEF PageFault, TypeOK, SwitchInv
  <2> QED
    BY <1>9, <2>1, <2>2, <2>3 DEF PageFault, NoSleepOnData
<1>10. ASSUME NEW t \in Thread, BlockNextCLI(t) PROVE Inv'
  <2>1. TypeOK'
    BY <1>10 DEF BlockNextCLI, TypeOK, Label, RetInv
  <2>2. SuspendedInv' /\ LockInv' /\ RetInv' /\ RotateInv'
    BY <1>10 DEF BlockNextCLI, TypeOK, SuspendedInv, LockInv, RetInv,
       RotateInv, Owning
  <2>3. SwitchInv'
    BY <1>10 DEF BlockNextCLI, TypeOK, SwitchInv
  <2> QED
    BY <1>10, <2>1, <2>2, <2>3 DEF BlockNextCLI, NoSleepOnData
<1>11. ASSUME NEW t \in Thread, BlockNextTest(t) PROVE Inv'
  <2>1. TypeOK'
    <3>1. intr' \in BOOLEAN
      BY <1>11 DEF BlockNextTest, TypeOK
    <3>2. pc' \in [Flow -> Label] /\ ring' \in Ring
      BY <1>11, RingTypes DEF BlockNextTest, TypeOK, Label
    <3> QED
      BY <1>11, <3>1, <3>2 DEF BlockNextTest, TypeOK
  <2>2. SuspendedInv' /\ LockInv' /\ RetInv' /\ RotateInv'
    BY <1>11 DEF BlockNextTest, TypeOK, SuspendedInv, LockInv, RetInv,
       RotateInv, Owning
  <2>3. SwitchInv'
    BY <1>11 DEF BlockNextTest, TypeOK, SwitchInv
  <2> QED
    BY <1>11, <2>1, <2>2, <2>3, RingTypes DEF BlockNextTest, NoSleepOnData
<1>12. ASSUME NEW t \in Thread, PROC_block_on(t) PROVE Inv'
  <2>1. cur_proc = t
    BY <1>12 DEF PROC_block_on, SwitchInv
  <2>2. avail' \in Seq(Thread) /\ blocked' \in Seq(Thread)
    BY <1>12, <2>1, UnlinkType, AppendMembers DEF PROC_block_on, TypeOK
  <2>3. TypeOK'
    BY <1>12, <2>2 DEF PROC_block_on, TypeOK, Label
  <2>4. SuspendedInv' /\ LockInv' /\ RetInv' /\ RotateInv'
    BY <1>12 DEF PROC_block_on, TypeOK, SuspendedInv, LockInv, RetInv,
       RotateInv, Owning
  <2>5. SwitchInv'
    BY <1>12 DEF PROC_block_on, TypeOK, SwitchInv
  <2>6. NoSleepOnData'
    BY <1>12 DEF PROC_block_on, LockInv, NoSleepOnData
  <2> QED
    BY <2>3, <2>4, <2>5, <2>6
<1>13. ASSUME NEW f \in Flow, CycleLoad(f) PROVE Inv'
  <2>1. avail # <<>> => /\ avail[1] \in Thread
                       /\ head_next(avail) \in Thread
                       /\ InQueue(head_next(avail), avail)
    BY HeadMembers DEF TypeOK
  <2>2. TypeOK'
    <3>1. loc' \in [Flow -> [node : Thread \cup {NULL},
        tmp : Thread \cup {NULL}]]
      <4>1. CASE UNCHANGED loc
        BY <4>1 DEF TypeOK
      <4>2. CASE /\ avail # <<>>
                 /\ loc' = [loc EXCEPT ![f] = [node |-> avail[1],
                                             tmp |-> head_next(avail)]]
        BY <2>1, <4>2 DEF TypeOK
      <4> QED
        BY <1>13, <4>1, <4>2 DEF CycleLoad
    <3>2. pc' \in [Flow -> Label]
      BY <1>13 DEF CycleLoad, TypeOK, Label
    <3> QED
      BY <1>13, <3>1, <3>2 DEF CycleLoad, TypeOK
  <2>3. SuspendedInv' /\ LockInv' /\ RetInv'
    BY <1>13 DEF CycleLoad, TypeOK, SuspendedInv, LockInv, RetInv, Owning
  <2>4. RotateInv'
    BY <1>13, <2>1 DEF CycleLoad, TypeOK, RotateInv
  <2>5. SwitchInv'
    BY <1>13 DEF CycleLoad, TypeOK, SwitchInv
  <2> QED
    BY <1>13, <2>2, <2>3, <2>4, <2>5 DEF CycleLoad, NoSleepOnData
<1>14. ASSUME NEW f \in Flow, CycleStore(f) PROVE Inv'
  <2>1. avail' \in Seq(Thread)
    BY <1>14, SetHeadMembers DEF CycleStore, TypeOK, RotateInv
  <2>2. TypeOK'
    BY <1>14, <2>1 DEF CycleStore, TypeOK, Label
  <2>3. SuspendedInv' /\ LockInv' /\ RetInv' /\ RotateInv'
    BY <1>14 DEF CycleStore, TypeOK, SuspendedInv, LockInv, RetInv,
       RotateInv, Owning
  <2>4. SwitchInv'
    BY <1>14 DEF CycleStore, TypeOK, SwitchInv
  <2> QED
    BY <1>14, <2>2, <2>3, <2>4 DEF CycleStore, NoSleepOnData
<1>15. ASSUME NEW f \in Flow, PROC_reschedule(f) PROVE Inv'
  <2>1. TypeOK'
    BY <1>15 DEF PROC_reschedule, TypeOK, Label, RetInv
  <2>2. SuspendedInv' /\ LockInv' /\ RetInv' /\ RotateInv'
    BY <1>15 DEF PROC_reschedule, TypeOK, SuspendedInv, LockInv, RetInv,
       RotateInv, Owning
  <2>3. SwitchInv'
    BY <1>15 DEF PROC_reschedule, TypeOK, SwitchInv
  <2> QED
    BY <1>15, <2>1, <2>2, <2>3 DEF PROC_reschedule, NoSleepOnData
<1>16. ASSUME NEW f \in Flow, TrapYield(f) PROVE Inv'
  <2>1. TypeOK'
    BY <1>16 DEF TrapYield, TypeOK, Label, RetInv
  <2>2. SuspendedInv' /\ LockInv' /\ RetInv' /\ RotateInv'
    BY <1>16 DEF TrapYield, TypeOK, SuspendedInv, LockInv, RetInv,
       RotateInv, Owning
  <2>3. SwitchInv'
    BY <1>16 DEF TrapYield, TypeOK, SwitchInv
  <2> QED
    BY <1>16, <2>1, <2>2, <2>3 DEF TrapYield, NoSleepOnData
<1>17. ASSUME NEW t \in Thread, kexit_handler(t) PROVE Inv'
  <2>1. avail' \in Seq(Thread)
    BY <1>17, UnlinkType DEF kexit_handler, TypeOK
  <2>2. avail' # <<>> => avail'[1] \in Thread
    BY <2>1, HeadMembers
  <2>3. next_proc' \in Flow
    BY <1>17, <2>2 DEF kexit_handler
  <2>4. TypeOK'
    BY <1>17, <2>1, <2>3 DEF kexit_handler, TypeOK, Label
  <2>5. SuspendedInv' /\ LockInv' /\ RetInv' /\ RotateInv'
    BY <1>17 DEF kexit_handler, Calling, TypeOK, SuspendedInv, LockInv,
                 RetInv,
       RotateInv, Owning
  <2>6. SwitchInv'
    BY <1>17, <2>3 DEF kexit_handler, Calling, TypeOK, SwitchInv
  <2> QED
    BY <1>17, <2>4, <2>5, <2>6 DEF kexit_handler, NoSleepOnData
<1>18. ASSUME NEW f \in Flow, Epilogue(f) PROVE Inv'
  <2>1. "iret" \in Label
    BY DEF Label
  <2>2. /\ run' \in Flow
        /\ cur_proc' \in Flow \cup {NULL} /\ next_proc' \in Flow \cup {NULL}
        /\ \E l \in {"iret", "dead"} : pc' = [pc EXCEPT ![run] = l]
        /\ pc[run] # "epi" => pc' = [pc EXCEPT ![run] = "iret"]
        /\ \/ cur_proc' = run' /\ next_proc' = run'
           \/ /\ cur_proc = next_proc
              /\ UNCHANGED <<cur_proc, next_proc, run>>
        /\ run' # run => pc[run] \in {"y_int", "epi"}
    BY <1>18, <2>1, StubReturnFacts DEF Epilogue
  <2>3. TypeOK'
    BY <1>18, <2>1, <2>2 DEF Epilogue, TypeOK, Label
  <2>4. SuspendedInv'
    BY <1>18, <2>1, <2>2 DEF Epilogue, TypeOK, SuspendedInv, Owning
  <2>5. LockInv' /\ RotateInv'
    BY <1>18, <2>1, <2>2 DEF Epilogue, TypeOK, SuspendedInv, LockInv,
       RotateInv, Owning
  <2>6. SwitchInv'
    BY <1>18, <2>1, <2>2 DEF Epilogue, TypeOK, SwitchInv
  <2> QED
    BY <1>18, <2>3, <2>4, <2>5, <2>6 DEF Epilogue, RetInv, NoSleepOnData
<1>19. ASSUME NEW f \in Flow, Iretq(f) PROVE Inv'
  <2>1. TypeOK'
    BY <1>19 DEF Iretq, TypeOK, Label, RetInv
  <2>2. SuspendedInv' /\ LockInv' /\ RetInv' /\ RotateInv'
    BY <1>19 DEF Iretq, TypeOK, SuspendedInv, LockInv, RetInv,
       RotateInv, Owning
  <2>3. SwitchInv'
    BY <1>19 DEF Iretq, TypeOK, SwitchInv
  <2> QED
    BY <1>19, <2>1, <2>2, <2>3 DEF Iretq, NoSleepOnData
<1>20. ASSUME NEW c \in Char, ps2_irq_handler(c) PROVE Inv'
  <2>1. Resumed \in Label /\ (Resumed = pc[run] \/ Resumed = "s_run")
    BY DEF Resumed, TypeOK, Label
  <2>2. /\ run' \in Flow
        /\ cur_proc' \in Flow \cup {NULL} /\ next_proc' \in Flow \cup {NULL}
        /\ \E l \in {Resumed, "dead"} : pc' = [pc EXCEPT ![run] = l]
        /\ pc[run] # "epi" => pc' = [pc EXCEPT ![run] = Resumed]
        /\ \/ cur_proc' = run' /\ next_proc' = run'
           \/ /\ cur_proc = next_proc
              /\ UNCHANGED <<cur_proc, next_proc, run>>
        /\ run' # run => pc[run] \in {"y_int", "epi"}
    BY <1>20, <2>1, StubReturnFacts DEF ps2_irq_handler
  <2>3. TypeOK'
    BY <1>20, <2>1, <2>2, ConcatMembers, RingTypes DEF ps2_irq_handler,
                                                       TypeOK, Label
  <2>4. SuspendedInv'
    BY <1>20, <2>1, <2>2 DEF ps2_irq_handler, TypeOK, SuspendedInv, Owning,
                             Resumed
  <2>5. LockInv' /\ RotateInv'
    BY <1>20, <2>1, <2>2, ConcatMembers, RingTypes DEF ps2_irq_handler,
                                                       TypeOK, SuspendedInv,
                                                           LockInv,
       RotateInv, Owning, Resumed
  <2>6. SwitchInv'
    BY <1>20, <2>1, <2>2 DEF ps2_irq_handler, TypeOK, SwitchInv, Resumed
  <2> QED
    BY <1>20, <2>3, <2>4, <2>5, <2>6 DEF ps2_irq_handler, RetInv,
                                         NoSleepOnData
<1>21. ASSUME OtherIrq PROVE Inv'
  <2>1. Resumed \in Label /\ (Resumed = pc[run] \/ Resumed = "s_run")
    BY DEF Resumed, TypeOK, Label
  <2>2. /\ run' \in Flow
        /\ cur_proc' \in Flow \cup {NULL} /\ next_proc' \in Flow \cup {NULL}
        /\ \E l \in {Resumed, "dead"} : pc' = [pc EXCEPT ![run] = l]
        /\ pc[run] # "epi" => pc' = [pc EXCEPT ![run] = Resumed]
        /\ \/ cur_proc' = run' /\ next_proc' = run'
           \/ /\ cur_proc = next_proc
              /\ UNCHANGED <<cur_proc, next_proc, run>>
        /\ run' # run => pc[run] \in {"y_int", "epi"}
    BY <1>21, <2>1, StubReturnFacts DEF OtherIrq
  <2>3. TypeOK'
    BY <1>21, <2>1, <2>2 DEF OtherIrq, TypeOK, Label
  <2>4. SuspendedInv'
    BY <1>21, <2>1, <2>2 DEF OtherIrq, TypeOK, SuspendedInv, Owning, Resumed
  <2>5. LockInv' /\ RotateInv'
    BY <1>21, <2>1, <2>2 DEF OtherIrq, TypeOK, SuspendedInv, LockInv,
       RotateInv, Owning, Resumed
  <2>6. SwitchInv'
    BY <1>21, <2>1, <2>2 DEF OtherIrq, TypeOK, SwitchInv, Resumed
  <2> QED
    BY <1>21, <2>3, <2>4, <2>5, <2>6 DEF OtherIrq, RetInv, NoSleepOnData
<1>22. CASE UNCHANGED vars
  BY <1>22 DEF vars, TypeOK, SuspendedInv, LockInv, RetInv, RotateInv,
     SwitchInv, NoSleepOnData
<1> QED
  BY <1>1, <1>2, <1>3, <1>4, <1>5, <1>6, <1>7, <1>8, <1>9, <1>10, <1>11,
     <1>12, <1>13, <1>14, <1>15, <1>16, <1>17, <1>18, <1>19, <1>20, <1>21,
         <1>22 DEF Next, SourceStep, CallStep,
     GetcStep, YieldStep
-----------------------------------------------------------------------------
\* The whole invariant holds in every reachable state.
THEOREM Invariance == Spec => []Inv
BY InitInv, InvStep, PTL DEF Spec

\* Type correctness: the queues hold threads, the process pointers name flows
\* and the ring pointers stay inside keyboard_ring.buff.
THEOREM TypeCorrect == Spec => []TypeOK
<1>1. Inv => TypeOK
  BY DEF Inv
<1> QED
  BY <1>1, Invariance, PTL

\* No thread is ever in the keyboard's queue while a character is in the
\* ring: testing and blocking under CLI makes the wake-up of
\* ps2_irq_handler impossible to miss.
THEOREM NoLostWakeup == Spec => []NoSleepOnData
<1>1. Inv => NoSleepOnData
  BY DEF Inv
<1> QED
  BY <1>1, Invariance, PTL

\* An interrupt never takes the CPU from a thread that has not rescheduled or
\* exited: irq_handler's way out finds cur_proc = next_proc.
THEOREM CpuIsYielded == Spec => Cooperative
<1>1. Inv /\ [Next]_vars => [run' # run => pc[run] \in {"y_int", "epi"}]_vars
  <2> SUFFICES ASSUME Inv, Next, run' # run
               PROVE  pc[run] \in {"y_int", "epi"}
    BY DEF vars
  <2>1. Resumed \in Label
    BY DEF Inv, TypeOK, Resumed, Label
  <2>2. ASSUME NEW f \in Flow, Epilogue(f) PROVE pc[run] = "epi"
    BY <2>2 DEF Epilogue, At
  <2>3. ASSUME NEW c \in Char, ps2_irq_handler(c)
        PROVE  pc[run] \in {"y_int", "epi"}
    BY <2>1, <2>3, StubReturnFacts DEF ps2_irq_handler, Inv
  <2>4. ASSUME OtherIrq PROVE pc[run] \in {"y_int", "epi"}
    BY <2>1, <2>4, StubReturnFacts DEF OtherIrq, Inv
  <2>5. ASSUME NEW t \in Thread,
               PROC_create_kthread(t) \/ CallStep(t) \/ GetcStep(t)
        PROVE  FALSE
    BY <2>5 DEF PROC_create_kthread, CallStep, GetcStep, CallYield, CallGetc,
       kexit_handler, PageFault, BlockNextCLI, BlockNextTest, PROC_block_on
  <2>6. ASSUME SourceStep \/ ps2_initialize PROVE FALSE
    BY <2>6 DEF SourceStep, PROC_run, PROC_run_return, PROC_has_unblocked,
                Halt,
       ps2_initialize
  <2>7. ASSUME NEW f \in Flow, YieldStep(f), ~Epilogue(f) PROVE FALSE
    BY <2>7 DEF YieldStep, CycleLoad, CycleStore, PROC_reschedule, TrapYield,
       Iretq
  <2> QED
    BY <2>2, <2>3, <2>4, <2>5, <2>6, <2>7 DEF Next
<1> QED
  BY <1>1, Invariance, PTL DEF Spec, Cooperative

-----------------------------------------------------------------------------
(* The process queues: no node is lost, duplicated or used after it was    *)
(* freed.                                                                  *)

\* A thread that runs its own code, and one about to be switched to, can run.
RunnableInv ==
    /\ run \in Thread /\ pc[run] \in {"run", "g_cli", "g_test", "g_block",
        "iret"}
          => InQueue(run, avail)
    /\ pc[run] \in {"y_store", "y_next"} /\ loc[run].node # NULL
          => InQueue(loc[run].node, avail)
    /\ pc[run] \in {"y_int", "epi"} /\ next_proc \in Thread
          => InQueue(next_proc, avail)

\* The local of cycle_next_proc is set only between its load and its use.
LocalInv == \A f \in Flow :
               pc[f] \notin {"y_store", "y_next"} => loc[f].node = NULL

InTrap == {"y_load", "y_store", "y_next", "y_int", "epi", "iret"}

\* Every stack that can still be switched to holds a place to go on at; the
\* only stack in use without a process is that of the thread that exits.
StackInv ==
    /\ \A f \in live \cup {Source} : /\ pc[f] \notin {"none", "dead"}
                                     /\ pc[f] \in InTrap => ret[f] # "none"
    /\ run \in Thread /\ run \notin live => cur_proc = NULL /\ pc[run] = "epi"
    /\ run \in Thread /\ cur_proc = NULL => run \notin live

\* The vectors are set whenever kmain is not in its own loop.
HandlerInv ==
    \/ handlers
    \/ /\ run = Source
       /\ pc[run] \in {"s_create", "s_run", "s_check", "s_sti", "hlt"}

SafetyInv == QueuedOnce /\ RunnableInv /\ LocalInv /\ StackInv /\ HandlerInv

-----------------------------------------------------------------------------
\* Before the first PROC_create_kthread there is nothing in any queue.
LEMMA InitSafety == Init => SafetyInv
<1> SUFFICES ASSUME Init PROVE SafetyInv
  OBVIOUS
<1> USE SchedulerAssumption DEF Flow, Init
<1>1. QueuedOnce
  BY DEF QueuedOnce, Distinct, InQueue
<1>2. RunnableInv /\ LocalInv /\ StackInv /\ HandlerInv
  BY DEF RunnableInv, LocalInv, StackInv, HandlerInv, InTrap
<1> QED
  BY <1>1, <1>2 DEF SafetyInv

-----------------------------------------------------------------------------
\* Every step preserves the second invariant, given the first.
LEMMA SafetyStep == Inv /\ SafetyInv /\ [Next]_vars => SafetyInv'
<1> SUFFICES ASSUME Inv, SafetyInv, [Next]_vars PROVE SafetyInv'
  OBVIOUS
<1> USE SchedulerAssumption DEF Flow, At, Goto, procs, ctl, Inv, SafetyInv
<1>1. ASSUME NEW t \in Thread, PROC_create_kthread(t) PROVE SafetyInv'
  <2>1. /\ Distinct(avail')
        /\ \A x : InQueue(x, avail') <=> InQueue(x, avail) \/ x = t
    BY <1>1, AppendMembers DEF PROC_create_kthread, TypeOK, QueuedOnce
  <2>2. QueuedOnce'
    BY <1>1, <2>1 DEF PROC_create_kthread, QueuedOnce
  <2>3. RunnableInv'
    BY <1>1, <2>1 DEF PROC_create_kthread, TypeOK, RunnableInv, SwitchInv,
                      SuspendedInv,
       LocalInv, RetInv, Owning
  <2>4. LocalInv'
    BY <1>1 DEF PROC_create_kthread, TypeOK, LocalInv, SuspendedInv, Owning
  <2>5. StackInv'
    BY <1>1, <2>1 DEF PROC_create_kthread, TypeOK, StackInv, SwitchInv,
                      RunnableInv, InTrap,
       QueuedOnce
  <2>6. HandlerInv'
    BY <1>1 DEF PROC_create_kthread, TypeOK, HandlerInv
  <2> QED
    BY <2>2, <2>3, <2>4, <2>5, <2>6
<1>2. ASSUME PROC_run PROVE SafetyInv'
  <2>1. QueuedOnce'
    BY <1>2 DEF PROC_run, QueuedOnce
  <2>2. RunnableInv'
    BY <1>2 DEF PROC_run, TypeOK, RunnableInv, SwitchInv, SuspendedInv,
       LocalInv, RetInv, Owning
  <2>3. LocalInv'
    BY <1>2 DEF PROC_run, TypeOK, LocalInv, RetInv
  <2>4. StackInv'
    BY <1>2 DEF PROC_run, TypeOK, StackInv, SwitchInv, RunnableInv, InTrap,
       QueuedOnce
  <2>5. HandlerInv'
    BY <1>2 DEF PROC_run, TypeOK, HandlerInv
  <2> QED
    BY <2>1, <2>2, <2>3, <2>4, <2>5
<1>3. ASSUME PROC_run_return PROVE SafetyInv'
  <2>1. QueuedOnce'
    BY <1>3 DEF PROC_run_return, QueuedOnce
  <2>2. RunnableInv'
    BY <1>3 DEF PROC_run_return, TypeOK, RunnableInv, SwitchInv, SuspendedInv,
       LocalInv, RetInv, Owning
  <2>3. LocalInv'
    BY <1>3 DEF PROC_run_return, TypeOK, LocalInv, RetInv
  <2>4. StackInv'
    BY <1>3 DEF PROC_run_return, TypeOK, StackInv, SwitchInv, RunnableInv,
                InTrap,
       QueuedOnce
  <2>5. HandlerInv'
    BY <1>3 DEF PROC_run_return, TypeOK, HandlerInv
  <2> QED
    BY <2>1, <2>2, <2>3, <2>4, <2>5
<1>4. ASSUME PROC_has_unblocked PROVE SafetyInv'
  <2>1. QueuedOnce'
    BY <1>4 DEF PROC_has_unblocked, QueuedOnce
  <2>2. RunnableInv'
    BY <1>4 DEF PROC_has_unblocked, TypeOK, RunnableInv, SwitchInv,
                SuspendedInv,
       LocalInv, RetInv, Owning
  <2>3. LocalInv'
    BY <1>4 DEF PROC_has_unblocked, TypeOK, LocalInv, RetInv
  <2>4. StackInv'
    BY <1>4 DEF PROC_has_unblocked, TypeOK, StackInv, SwitchInv, RunnableInv,
                InTrap,
       QueuedOnce
  <2>5. HandlerInv'
    BY <1>4 DEF PROC_has_unblocked, TypeOK, HandlerInv
  <2> QED
    BY <2>1, <2>2, <2>3, <2>4, <2>5
<1>5. ASSUME Halt PROVE SafetyInv'
  <2>1. QueuedOnce'
    BY <1>5 DEF Halt, QueuedOnce
  <2>2. RunnableInv'
    BY <1>5 DEF Halt, TypeOK, RunnableInv, SwitchInv, SuspendedInv,
       LocalInv, RetInv, Owning
  <2>3. LocalInv'
    BY <1>5 DEF Halt, TypeOK, LocalInv, RetInv
  <2>4. StackInv'
    BY <1>5 DEF Halt, TypeOK, StackInv, SwitchInv, RunnableInv, InTrap,
       QueuedOnce
  <2>5. HandlerInv'
    BY <1>5 DEF Halt, TypeOK, HandlerInv
  <2> QED
    BY <2>1, <2>2, <2>3, <2>4, <2>5
<1>6. ASSUME ps2_initialize PROVE SafetyInv'
  <2>1. QueuedOnce'
    BY <1>6 DEF ps2_initialize, QueuedOnce
  <2>2. RunnableInv'
    BY <1>6 DEF ps2_initialize, TypeOK, RunnableInv, SwitchInv, SuspendedInv,
       LocalInv, RetInv, Owning
  <2>3. LocalInv'
    BY <1>6 DEF ps2_initialize, TypeOK, LocalInv, RetInv
  <2>4. StackInv'
    BY <1>6 DEF ps2_initialize, TypeOK, StackInv, SwitchInv, RunnableInv,
                InTrap,
       QueuedOnce
  <2>5. HandlerInv'
    BY <1>6 DEF ps2_initialize, TypeOK, HandlerInv
  <2> QED
    BY <2>1, <2>2, <2>3, <2>4, <2>5
<1>7. ASSUME NEW t \in Thread, CallYield(t) PROVE SafetyInv'
  <2>1. QueuedOnce'
    BY <1>7 DEF CallYield, QueuedOnce
  <2>2. RunnableInv'
    BY <1>7 DEF CallYield, Calling, TypeOK, RunnableInv, SwitchInv,
                SuspendedInv,
       LocalInv, RetInv, Owning
  <2>3. LocalInv'
    BY <1>7 DEF CallYield, Calling, TypeOK, LocalInv, RetInv
  <2>4. StackInv'
    BY <1>7 DEF CallYield, Calling, TypeOK, StackInv, SwitchInv, RunnableInv,
                InTrap,
       QueuedOnce
  <2>5. HandlerInv'
    BY <1>7 DEF CallYield, Calling, TypeOK, HandlerInv
  <2> QED
    BY <2>1, <2>2, <2>3, <2>4, <2>5
<1>8. ASSUME NEW t \in Thread, CallGetc(t) PROVE SafetyInv'
  <2>1. QueuedOnce'
    BY <1>8 DEF CallGetc, QueuedOnce
  <2>2. RunnableInv'
    BY <1>8 DEF CallGetc, Calling, TypeOK, RunnableInv, SwitchInv,
                SuspendedInv,
       LocalInv, RetInv, Owning
  <2>3. LocalInv'
    BY <1>8 DEF CallGetc, Calling, TypeOK, LocalInv, RetInv
  <2>4. StackInv'
    BY <1>8 DEF CallGetc, Calling, TypeOK, StackInv, SwitchInv, RunnableInv,
                InTrap,
       QueuedOnce
  <2>5. HandlerInv'
    BY <1>8 DEF CallGetc, Calling, TypeOK, HandlerInv
  <2> QED
    BY <2>1, <2>2, <2>3, <2>4, <2>5
<1>9. ASSUME NEW t \in Thread, PageFault(t) PROVE SafetyInv'
  <2>1. QueuedOnce'
    BY <1>9 DEF PageFault, QueuedOnce
  <2>2. RunnableInv'
    BY <1>9 DEF PageFault, TypeOK, RunnableInv, SwitchInv, SuspendedInv,
       LocalInv, RetInv, Owning
  <2>3. LocalInv'
    BY <1>9 DEF PageFault, TypeOK, LocalInv, RetInv
  <2>4. StackInv'
    BY <1>9 DEF PageFault, TypeOK, StackInv, SwitchInv, RunnableInv, InTrap,
       QueuedOnce
  <2>5. HandlerInv'
    BY <1>9 DEF PageFault, TypeOK, HandlerInv
  <2> QED
    BY <2>1, <2>2, <2>3, <2>4, <2>5
<1>10. ASSUME NEW t \in Thread, BlockNextCLI(t) PROVE SafetyInv'
  <2>1. QueuedOnce'
    BY <1>10 DEF BlockNextCLI, QueuedOnce
  <2>2. RunnableInv'
    BY <1>10 DEF BlockNextCLI, TypeOK, RunnableInv, SwitchInv, SuspendedInv,
       LocalInv, RetInv, Owning
  <2>3. LocalInv'
    BY <1>10 DEF BlockNextCLI, TypeOK, LocalInv, RetInv
  <2>4. StackInv'
    BY <1>10 DEF BlockNextCLI, TypeOK, StackInv, SwitchInv, RunnableInv,
                 InTrap,
       QueuedOnce
  <2>5. HandlerInv'
    BY <1>10 DEF BlockNextCLI, TypeOK, HandlerInv
  <2> QED
    BY <2>1, <2>2, <2>3, <2>4, <2>5
<1>11. ASSUME NEW t \in Thread, BlockNextTest(t) PROVE SafetyInv'
  <2>1. QueuedOnce'
    BY <1>11 DEF BlockNextTest, QueuedOnce
  <2>2. RunnableInv'
    BY <1>11 DEF BlockNextTest, TypeOK, RunnableInv, SwitchInv, SuspendedInv,
       LocalInv, RetInv, Owning
  <2>3. LocalInv'
    BY <1>11 DEF BlockNextTest, TypeOK, LocalInv, RetInv
  <2>4. StackInv'
    BY <1>11 DEF BlockNextTest, TypeOK, StackInv, SwitchInv, RunnableInv,
                 InTrap,
       QueuedOnce
  <2>5. HandlerInv'
    BY <1>11 DEF BlockNextTest, TypeOK, HandlerInv
  <2> QED
    BY <2>1, <2>2, <2>3, <2>4, <2>5
<1>12. ASSUME NEW t \in Thread, PROC_block_on(t) PROVE SafetyInv'
  <2>1. cur_proc = t /\ InQueue(t, avail)
    BY <1>12 DEF PROC_block_on, SwitchInv, RunnableInv
  <2>2. /\ Distinct(avail')
        /\ \A x : InQueue(x, avail') <=> InQueue(x, avail) /\ x # t
    BY <1>12, <2>1, UnlinkMembers DEF PROC_block_on, TypeOK, QueuedOnce
  <2>3. /\ Distinct(blocked')
        /\ \A x : InQueue(x, blocked') <=> InQueue(x, blocked) \/ x = t
    BY <1>12, <2>1, AppendMembers DEF PROC_block_on, TypeOK, QueuedOnce
  <2>4. QueuedOnce'
    BY <1>12, <2>1, <2>2, <2>3 DEF PROC_block_on, QueuedOnce
  <2>5. RunnableInv'
    BY <1>12, <2>1, <2>2, <2>3 DEF PROC_block_on, TypeOK, RunnableInv,
                                   SwitchInv, SuspendedInv,
       LocalInv, RetInv, Owning
  <2>6. LocalInv'
    BY <1>12 DEF PROC_block_on, TypeOK, LocalInv, RetInv
  <2>7. StackInv'
    BY <1>12, <2>1, <2>2, <2>3 DEF PROC_block_on, TypeOK, StackInv,
                                   SwitchInv, RunnableInv, InTrap,
       QueuedOnce
  <2>8. HandlerInv'
    BY <1>12 DEF PROC_block_on, TypeOK, HandlerInv
  <2> QED
    BY <2>4, <2>5, <2>6, <2>7, <2>8
<1>13. ASSUME NEW f \in Flow, CycleLoad(f) PROVE SafetyInv'
  <2>1. avail # <<>> => InQueue(avail[1], avail)
    BY HeadMembers DEF TypeOK
  <2>2. QueuedOnce'
    BY <1>13, <2>1 DEF CycleLoad, QueuedOnce
  <2>3. RunnableInv'
    BY <1>13, <2>1 DEF CycleLoad, TypeOK, RunnableInv, SwitchInv,
                       SuspendedInv,
       LocalInv, RetInv, Owning
  <2>4. LocalInv'
    BY <1>13 DEF CycleLoad, TypeOK, LocalInv, RetInv
  <2>5. StackInv'
    BY <1>13, <2>1 DEF CycleLoad, TypeOK, StackInv, SwitchInv, RunnableInv,
                       InTrap,
       QueuedOnce
  <2>6. HandlerInv'
    BY <1>13 DEF CycleLoad, TypeOK, HandlerInv
  <2> QED
    BY <2>2, <2>3, <2>4, <2>5, <2>6
<1>14. ASSUME NEW f \in Flow, CycleStore(f) PROVE SafetyInv'
  <2>1. /\ Distinct(avail')
        /\ \A x : InQueue(x, avail') <=> InQueue(x, avail)
    BY <1>14, SetHeadMembers DEF CycleStore, TypeOK, QueuedOnce, RotateInv
  <2>2. QueuedOnce'
    BY <1>14, <2>1 DEF CycleStore, QueuedOnce
  <2>3. RunnableInv'
    BY <1>14, <2>1 DEF CycleStore, TypeOK, RunnableInv, SwitchInv,
                       SuspendedInv,
       LocalInv, RetInv, Owning
  <2>4. LocalInv'
    BY <1>14 DEF CycleStore, TypeOK, LocalInv, RetInv
  <2>5. StackInv'
    BY <1>14, <2>1 DEF CycleStore, TypeOK, StackInv, SwitchInv, RunnableInv,
                       InTrap,
       QueuedOnce
  <2>6. HandlerInv'
    BY <1>14 DEF CycleStore, TypeOK, HandlerInv
  <2> QED
    BY <2>2, <2>3, <2>4, <2>5, <2>6
<1>15. ASSUME NEW f \in Flow, PROC_reschedule(f) PROVE SafetyInv'
  <2>1. QueuedOnce'
    BY <1>15 DEF PROC_reschedule, QueuedOnce
  <2>2. RunnableInv'
    BY <1>15 DEF PROC_reschedule, TypeOK, RunnableInv, SwitchInv,
                 SuspendedInv,
       LocalInv, RetInv, Owning
  <2>3. LocalInv'
    BY <1>15 DEF PROC_reschedule, TypeOK, LocalInv, RetInv
  <2>4. StackInv'
    BY <1>15 DEF PROC_reschedule, TypeOK, StackInv, SwitchInv, RunnableInv,
                 InTrap,
       QueuedOnce
  <2>5. HandlerInv'
    BY <1>15 DEF PROC_reschedule, TypeOK, HandlerInv
  <2> QED
    BY <2>1, <2>2, <2>3, <2>4, <2>5
<1>16. ASSUME NEW f \in Flow, TrapYield(f) PROVE SafetyInv'
  <2>1. QueuedOnce'
    BY <1>16 DEF TrapYield, QueuedOnce
  <2>2. RunnableInv'
    BY <1>16 DEF TrapYield, TypeOK, RunnableInv, SwitchInv, SuspendedInv,
       LocalInv, RetInv, Owning
  <2>3. LocalInv'
    BY <1>16 DEF TrapYield, TypeOK, LocalInv, RetInv
  <2>4. StackInv'
    BY <1>16 DEF TrapYield, TypeOK, StackInv, SwitchInv, RunnableInv, InTrap,
       QueuedOnce
  <2>5. HandlerInv'
    BY <1>16 DEF TrapYield, TypeOK, HandlerInv
  <2> QED
    BY <2>1, <2>2, <2>3, <2>4, <2>5
<1>17. ASSUME NEW t \in Thread, kexit_handler(t) PROVE SafetyInv'
  <2>1. cur_proc = t /\ InQueue(t, avail)
    BY <1>17 DEF kexit_handler, Calling, SwitchInv, RunnableInv
  <2>2. /\ Distinct(avail')
        /\ \A x : InQueue(x, avail') <=> InQueue(x, avail) /\ x # t
    BY <1>17, <2>1, UnlinkMembers DEF kexit_handler, TypeOK, QueuedOnce
  <2>3. next_proc' = Source \/ InQueue(next_proc', avail')
    <3>1. avail' \in Seq(Thread)
      BY <1>17, UnlinkType DEF kexit_handler, TypeOK
    <3> QED
      BY <1>17, <3>1, HeadMembers DEF kexit_handler
  <2>4. QueuedOnce'
    BY <1>17, <2>1, <2>2, <2>3 DEF kexit_handler, QueuedOnce
  <2>5. RunnableInv'
    BY <1>17, <2>1, <2>2, <2>3 DEF kexit_handler, Calling, TypeOK,
                                   RunnableInv, SwitchInv, SuspendedInv,
       LocalInv, RetInv, Owning
  <2>6. LocalInv'
    BY <1>17 DEF kexit_handler, Calling, TypeOK, LocalInv, RetInv
  <2>7. StackInv'
    BY <1>17, <2>1, <2>2, <2>3 DEF kexit_handler, Calling, TypeOK, StackInv,
                                   SwitchInv, RunnableInv, InTrap,
       QueuedOnce
  <2>8. HandlerInv'
    BY <1>17 DEF kexit_handler, Calling, TypeOK, HandlerInv
  <2> QED
    BY <2>4, <2>5, <2>6, <2>7, <2>8
<1>18. ASSUME NEW f \in Flow, Epilogue(f) PROVE SafetyInv'
  <2>1. "iret" \in Label
    BY DEF Label
  <2>2. /\ \E l \in {"iret", "dead"} : pc' = [pc EXCEPT ![run] = l]
        /\ cur_proc # NULL => pc' = [pc EXCEPT ![run] = "iret"]
        /\ \/ cur_proc' = run' /\ next_proc' = run' /\ cur_proc # next_proc
           \/ /\ cur_proc = next_proc
              /\ UNCHANGED <<cur_proc, next_proc, run>>
              /\ pc' = [pc EXCEPT ![run] = "iret"]
        /\ run' # run => pc[run] \in {"y_int", "epi"}
        /\ cur_proc # next_proc /\ next_proc # NULL => run' = next_proc
        /\ cur_proc # next_proc /\ next_proc = NULL => run' = Source
    BY <1>18, <2>1, StubReturnFacts DEF Epilogue, StubReturn, Switch
  <2>3. QueuedOnce'
    BY <1>18 DEF Epilogue, QueuedOnce
  <2>4. RunnableInv'
    BY <1>18, <2>1, <2>2 DEF Epilogue, TypeOK, RunnableInv, SwitchInv,
                             SuspendedInv,
       LocalInv, RetInv, Owning
  <2>5. LocalInv'
    BY <1>18, <2>1, <2>2 DEF Epilogue, TypeOK, LocalInv, RetInv
  <2>6. StackInv'
    BY <1>18, <2>1, <2>2 DEF Epilogue, TypeOK, StackInv, SwitchInv,
                             RunnableInv, InTrap,
       QueuedOnce
  <2>7. HandlerInv'
    BY <1>18, <2>1, <2>2 DEF Epilogue, TypeOK, HandlerInv
  <2> QED
    BY <2>3, <2>4, <2>5, <2>6, <2>7
<1>19. ASSUME NEW f \in Flow, Iretq(f) PROVE SafetyInv'
  <2>1. QueuedOnce'
    BY <1>19 DEF Iretq, QueuedOnce
  <2>2. RunnableInv'
    BY <1>19 DEF Iretq, TypeOK, RunnableInv, SwitchInv, SuspendedInv,
       LocalInv, RetInv, Owning
  <2>3. LocalInv'
    BY <1>19 DEF Iretq, TypeOK, LocalInv, RetInv
  <2>4. StackInv'
    BY <1>19 DEF Iretq, TypeOK, StackInv, RetInv, InTrap
  <2>5. HandlerInv'
    BY <1>19 DEF Iretq, TypeOK, HandlerInv
  <2> QED
    BY <2>1, <2>2, <2>3, <2>4, <2>5
<1>20. ASSUME NEW c \in Char, ps2_irq_handler(c) PROVE SafetyInv'
  <2>1. Resumed \in Label /\ (Resumed = pc[run] \/ (pc[run] = "hlt" /\ Resumed = "s_run"))
    BY DEF Resumed, TypeOK, Label
  <2>2. /\ \E l \in {Resumed, "dead"} : pc' = [pc EXCEPT ![run] = l]
        /\ cur_proc # NULL => pc' = [pc EXCEPT ![run] = Resumed]
        /\ pc[run] # "epi" => pc' = [pc EXCEPT ![run] = Resumed]
        /\ \/ cur_proc' = run' /\ next_proc' = run' /\ cur_proc # next_proc
           \/ /\ cur_proc = next_proc
              /\ UNCHANGED <<cur_proc, next_proc, run>>
              /\ pc' = [pc EXCEPT ![run] = Resumed]
        /\ run' # run => pc[run] \in {"y_int", "epi"}
        /\ cur_proc # next_proc /\ next_proc # NULL => run' = next_proc
        /\ cur_proc # next_proc /\ next_proc = NULL => run' = Source
    BY <1>20, <2>1, StubReturnFacts DEF ps2_irq_handler, StubReturn, Switch
  <2>3. /\ Distinct(avail')
        /\ \A x : InQueue(x, avail') <=> InQueue(x, avail) \/ InQueue(x,
            blocked)
    BY <1>20, ConcatMembers DEF ps2_irq_handler, TypeOK, QueuedOnce
  <2>4. Distinct(blocked') /\ \A x : ~InQueue(x, blocked')
    BY <1>20 DEF ps2_irq_handler, Distinct, InQueue
  <2>5. QueuedOnce'
    BY <1>20, <2>3, <2>4 DEF ps2_irq_handler, QueuedOnce
  <2>6. RunnableInv'
    BY <1>20, <2>1, <2>2, <2>3, <2>4 DEF ps2_irq_handler, TypeOK,
                                         RunnableInv, SwitchInv, SuspendedInv,
       LocalInv, RetInv, Owning
  <2>7. LocalInv'
    BY <1>20, <2>1, <2>2 DEF ps2_irq_handler, TypeOK, LocalInv, RetInv
  <2>8. StackInv'
    BY <1>20, <2>1, <2>2, <2>3, <2>4 DEF ps2_irq_handler, TypeOK, StackInv,
                                         SwitchInv, RunnableInv, InTrap,
       QueuedOnce
  <2>9. HandlerInv'
    BY <1>20, <2>1, <2>2 DEF ps2_irq_handler, TypeOK, HandlerInv
  <2> QED
    BY <2>5, <2>6, <2>7, <2>8, <2>9
<1>21. ASSUME OtherIrq PROVE SafetyInv'
  <2>1. Resumed \in Label /\ (Resumed = pc[run] \/ (pc[run] = "hlt" /\ Resumed = "s_run"))
    BY DEF Resumed, TypeOK, Label
  <2>2. /\ \E l \in {Resumed, "dead"} : pc' = [pc EXCEPT ![run] = l]
        /\ cur_proc # NULL => pc' = [pc EXCEPT ![run] = Resumed]
        /\ pc[run] # "epi" => pc' = [pc EXCEPT ![run] = Resumed]
        /\ \/ cur_proc' = run' /\ next_proc' = run' /\ cur_proc # next_proc
           \/ /\ cur_proc = next_proc
              /\ UNCHANGED <<cur_proc, next_proc, run>>
              /\ pc' = [pc EXCEPT ![run] = Resumed]
        /\ run' # run => pc[run] \in {"y_int", "epi"}
        /\ cur_proc # next_proc /\ next_proc # NULL => run' = next_proc
        /\ cur_proc # next_proc /\ next_proc = NULL => run' = Source
    BY <1>21, <2>1, StubReturnFacts DEF OtherIrq, StubReturn, Switch
  <2>3. QueuedOnce'
    BY <1>21 DEF OtherIrq, QueuedOnce
  <2>4. RunnableInv'
    BY <1>21, <2>1, <2>2 DEF OtherIrq, TypeOK, RunnableInv, SwitchInv,
                             SuspendedInv,
       LocalInv, RetInv, Owning
  <2>5. LocalInv'
    BY <1>21, <2>1, <2>2 DEF OtherIrq, TypeOK, LocalInv, RetInv
  <2>6. StackInv'
    BY <1>21, <2>1, <2>2 DEF OtherIrq, TypeOK, StackInv, SwitchInv,
                             RunnableInv, InTrap,
       QueuedOnce
  <2>7. HandlerInv'
    BY <1>21, <2>1, <2>2 DEF OtherIrq, TypeOK, HandlerInv
  <2> QED
    BY <2>3, <2>4, <2>5, <2>6, <2>7
<1>22. CASE UNCHANGED vars
  BY <1>22 DEF vars, QueuedOnce, RunnableInv, LocalInv, StackInv, HandlerInv
<1> QED
  BY <1>1, <1>2, <1>3, <1>4, <1>5, <1>6, <1>7, <1>8, <1>9, <1>10, <1>11,
     <1>12, <1>13, <1>14, <1>15, <1>16, <1>17, <1>18, <1>19, <1>20, <1>21,
         <1>22
     DEF Next, SourceStep, CallStep, GetcStep, YieldStep

-----------------------------------------------------------------------------
\* Both invariants hold in every reachable state.
THEOREM SafetyInvariance == Spec => [](Inv /\ SafetyInv)
BY InitInv, InitSafety, InvStep, SafetyStep, PTL DEF Spec

\* Every live thread is in exactly one queue, once, whenever interrupts come.
THEOREM QueuesPartitionThreads == Spec => []QueuedOnce
<1>1. SafetyInv => QueuedOnce
  BY DEF SafetyInv
<1> QED
  BY <1>1, SafetyInvariance, PTL

\* cur_proc, next_proc and the stack the CPU is on never belong to a thread
\* that kexit_handler has freed, but for the last steps of that thread.
THEOREM NoUseAfterExit == Spec => []NoDangling
<1>1. Inv /\ SafetyInv => NoDangling
  <2> SUFFICES ASSUME Inv, SafetyInv PROVE NoDangling
    OBVIOUS
  <2> USE SchedulerAssumption DEF Flow, Inv, SafetyInv, TypeOK
  <2>1. pc[run] \notin {"none", "dead"}
    BY DEF StackInv
  <2>2. cur_proc \in live \cup {Source, NULL}
    BY DEF SwitchInv, StackInv
  <2>3. next_proc \in live \cup {Source, NULL}
    BY <2>2 DEF SwitchInv, RunnableInv, QueuedOnce
  <2> QED
    BY <2>1, <2>2, <2>3 DEF NoDangling
<1> QED
  BY <1>1, SafetyInvariance, PTL

\* A thread that exits finds kexit_handler behind int 0x81.
THEOREM ExitIsHandled == Spec => []ExitHandled
<1>1. SafetyInv => ExitHandled
  BY SchedulerAssumption DEF SafetyInv, HandlerInv, ExitHandled
<1> QED
  BY <1>1, SafetyInvariance, PTL
=============================================================================
