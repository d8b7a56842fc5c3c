----------------------------- MODULE MCDrivers -----------------------------
(* The drivers and the tables of their interrupts for TLC.  They share no   *)
(* variable: in a behaviour one of them moves.                              *)
(*                                                                          *)
(* A serial ring of three slots and strings longer than it holds; lines of  *)
(* both controllers; one thread that reads blocks and one that yields; up   *)
(* to two keys pressed too early; all 256 vectors.                          *)
EXTENDS Serial, Pic, Ata, Ps2Init, GateTables

CONSTANTS a, b    \* characters

VARIABLE moves

mcVars == <<moves, vars, picVars, ataVars, kbdVars, gateVars>>

MCStrings == {<<a>>, <<a, b>>, <<b, a, a>>}

\* Stubs spread over the address space.
MCStubs == [v \in 0 .. 255 |-> (37 * v + 11) % 256]

-----------------------------------------------------------------------------
\* The inputs of the parts that do not move are fixed.
Fixed ==
    /\ IF moves = "serial" THEN TRUE ELSE thr = None
    /\ IF moves = "pic" THEN TRUE ELSE irr = {}
    /\ IF moves = "kbd" THEN TRUE
       ELSE /\ config = [interrupt |-> FALSE, translation |-> FALSE,
                         off |-> FALSE]
            /\ port = config /\ output = Empty
    /\ IF moves = "gates" THEN TRUE ELSE tss = 0

MCInit == /\ moves \in {"serial", "pic", "disk", "kbd", "gates"}
          /\ Fixed
          /\ Init /\ PicInit /\ AtaInit /\ KbdInit /\ GateInit

OnlySerial == /\ moves = "serial"
              /\ UNCHANGED <<moves, picVars, ataVars, kbdVars, gateVars>>
OnlyPic == /\ moves = "pic"
           /\ UNCHANGED <<moves, vars, ataVars, kbdVars, gateVars>>
OnlyDisk == /\ moves = "disk"
            /\ UNCHANGED <<moves, vars, picVars, kbdVars, gateVars>>
OnlyKbd == /\ moves = "kbd"
           /\ UNCHANGED <<moves, vars, picVars, ataVars, gateVars>>
OnlyGates == /\ moves = "gates"
             /\ UNCHANGED <<moves, vars, picVars, ataVars, kbdVars>>

MCNext == \/ OnlySerial /\ Next
          \/ OnlyPic /\ PicNext
          \/ OnlyDisk /\ AtaNext
          \/ OnlyKbd /\ KbdNext
          \/ OnlyGates /\ GateNext

\* The fairness of the parts: see the FairSpec of each.
MCSpec ==
    /\ MCInit /\ [][MCNext]_mcVars
    /\ WF_mcVars(OnlySerial /\ WriteStep)
    /\ WF_mcVars(OnlySerial /\ CallerFlag)
    /\ WF_mcVars(OnlySerial /\ UartShift)
    /\ SF_mcVars(OnlySerial /\ serial_transmit_ready_handler)
    /\ WF_mcVars(OnlyPic /\ IRQ_init) /\ WF_mcVars(OnlyPic /\ Drivers)
    /\ WF_mcVars(OnlyPic /\ Gate) /\ WF_mcVars(OnlyPic /\ irq_handler)
    /\ WF_mcVars(OnlyPic /\ Return)
    /\ WF_mcVars(OnlyDisk /\ CPU) /\ WF_mcVars(OnlyDisk /\ Drive)
=============================================================================
