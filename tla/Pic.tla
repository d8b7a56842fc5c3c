-------------------------------- MODULE Pic --------------------------------
(***************************************************************************)
(* The interrupt controllers as src/interrupts.c uses them: masks, handler *)
(* table, irq_handler and PIC_sendEOI, with the lines the drivers unmask.  *)
(*                                                                         *)
(* The two 8259s are external: edges are latched, also of a masked line; a *)
(* request is delivered unless one of the same or a higher priority is in  *)
(* service; an end of interrupt clears the highest one in service.  Lines  *)
(* 8 to 15 reach the processor through line 2.                             *)
(***************************************************************************)
EXTENDS Integers, Sequences, FiniteSets

CONSTANTS Line,       \* the lines the drivers use, 1, 4 and 14
          MaxRaise    \* bound on the edges of a line

ASSUME PicAssumption == Line \subseteq 0 .. 15 \ {2} /\ MaxRaise \in Nat

VARIABLES
    up,               \* IRQ_init has run
    imr, irr, isr,    \* the masked, requested and serviced lines
    irq_table,        \* the lines that have a handler
    setup,            \* where the driver of a line is in its initialisation
    frames,           \* the interrupts not returned from, innermost first
    enabled,          \* the interrupt flag
    raised            \* edges so far

picVars == <<up, imr, irr, isr, irq_table, setup, frames, enabled, raised>>

All == 0 .. 15
Slave == 8 .. 15

\* The firmware leaves lines unmasked and requests pending.
PicInit == /\ up = FALSE
           /\ imr = {} /\ irr \in SUBSET Line /\ isr = {} /\ irq_table = {}
           /\ setup = [l \in Line |-> "no"]
           /\ frames = <<>> /\ enabled = FALSE
           /\ raised = [l \in Line |-> 0]

-----------------------------------------------------------------------------
\* PIC_remap resets both controllers and masks every line; the table is
\* cleared and interrupts are turned on.
PIC_remap == imr' = All /\ irr' = {} /\ isr' = {}

IRQ_init ==
    /\ ~up
    /\ up' = TRUE
    /\ PIC_remap
    /\ irq_table' = {}
    /\ enabled' = TRUE
    /\ UNCHANGED <<setup, frames, raised>>

IRQ_handler_set(l) == irq_table' = irq_table \cup {l}

IRQ_clear_mask(ls) == imr' = imr \ ls

\* SER_init, ps2_initialize and ata_probe: the handler, then the mask, for
\* a line of the second controller that of line 2 before it.
DriverInit(l) ==
    /\ up /\ frames = <<>>
    /\ \/ /\ setup[l] = "no" /\ IRQ_handler_set(l)
          /\ setup' = [setup EXCEPT ![l] = "set"] /\ UNCHANGED imr
       \/ /\ setup[l] = "set"
          /\ IRQ_clear_mask(IF l \in Slave THEN {2} ELSE {l})
          /\ setup' = [setup EXCEPT ![l] = IF l \in Slave THEN "two"
                                                          ELSE "done"]
          /\ UNCHANGED irq_table
       \/ /\ setup[l] = "two" /\ IRQ_clear_mask({l})
          /\ setup' = [setup EXCEPT ![l] = "done"] /\ UNCHANGED irq_table
    /\ UNCHANGED <<up, irr, isr, frames, enabled, raised>>

\* A device raises its line.
Raise(l) ==
    /\ raised[l] < MaxRaise
    /\ raised' = [raised EXCEPT ![l] = @ + 1]
    /\ irr' = irr \cup {l}
    /\ UNCHANGED <<up, imr, isr, irq_table, setup, frames, enabled>>

\* Lines of one controller, by falling priority; line 2 stands for 8 .. 15.
Clear(l, chip) == \A k \in isr \cap chip : k > l

Deliverable(l) ==
    /\ l \in irr \ imr
    /\ IF l \in Slave THEN Clear(l, Slave) /\ 2 \notin imr /\ Clear(2, 0 .. 7)
                      ELSE Clear(l, 0 .. 7)

Priority(l) == IF l \in Slave THEN 2 ELSE l

\* The gate turns interrupts off.  A line with no handler is not ended.
Deliver(l) ==
    /\ enabled /\ Deliverable(l)
    /\ \A k \in Line : Deliverable(k) => Priority(l) <= Priority(k)
    /\ irr' = irr \ {l}
    /\ isr' = isr \cup {l} \cup (IF l \in Slave THEN {2} ELSE {})
    /\ enabled' = FALSE
    /\ frames' = <<[line |-> l, at |-> IF l \in irq_table THEN "body"
                                                          ELSE "tail"]>>
                 \o frames
    /\ UNCHANGED <<up, imr, irq_table, setup, raised>>

Highest(s) == {l \in s : \A k \in s : l <= k}

\* Fault: the second controller is never told.
EndMasterOnly(irq) == isr \ Highest(isr \cap (0 .. 7))

\* The handlers pass the vector, which is at least 8 for every line: both
\* controllers are told, whatever the line.
PIC_sendEOI(irq) ==
    isr \ (Highest(isr \cap (0 .. 7))
           \cup (IF irq >= 8 THEN Highest(isr \cap Slave) ELSE {}))

\* The handler, its EOI, and the STI at the end of irq_handler.
irq_handler ==
    /\ frames # <<>> /\ frames[1].at = "body"
    /\ isr' = PIC_sendEOI(32 + frames[1].line)
    /\ enabled' = TRUE
    /\ frames' = [frames EXCEPT ![1].at = "tail"]
    /\ UNCHANGED <<up, imr, irr, irq_table, setup, raised>>

\* The return to what was interrupted, which had interrupts on.
Return ==
    /\ frames # <<>> /\ frames[1].at = "tail"
    /\ frames' = Tail(frames)
    /\ enabled' = TRUE
    /\ UNCHANGED <<up, imr, irr, isr, irq_table, setup, raised>>

Drivers == \E l \in Line : DriverInit(l)
Gate == \E l \in Line : Deliver(l)

PicNext == \/ IRQ_init
           \/ Drivers
           \/ \E l \in Line : Raise(l)
           \/ Gate
           \/ irq_handler
           \/ Return

PicSpec == PicInit /\ [][PicNext]_picVars

\* The processor executes and takes the interrupts it is given.
PicFairSpec == /\ PicSpec
               /\ WF_picVars(IRQ_init) /\ WF_picVars(Drivers)
               /\ WF_picVars(Gate) /\ WF_picVars(irq_handler)
               /\ WF_picVars(Return)

-----------------------------------------------------------------------------
\* What the controllers hold in service is what a handler has been entered
\* for and has not ended: the EOI of one line, sent to both controllers
\* whatever the line, never ends the service of another, and none is left
\* behind, which would block its line and all below it for good.
Lines(at) == {frames[i].line : i \in {j \in DOMAIN frames : frames[j].at = at}}

InService ==
    isr = Lines("body") \cup (IF Lines("body") \cap Slave = {} THEN {} ELSE {2})

\* Every request of a line its driver has set up is served, also one from
\* before the line was unmasked.
Served == \A l \in Line : (up /\ l \in irr) ~> (l \notin irr)
=============================================================================
