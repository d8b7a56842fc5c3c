------------------------------- MODULE Serial -------------------------------
(***************************************************************************)
(* The serial driver, src/serial.c: SER_write fills a ring that SER_write  *)
(* itself and the transmitter-empty interrupt drain, one character each.   *)
(*                                                                         *)
(* The UART and the latch of IRQ 4 in the interrupt controller are         *)
(* external.  The transmitter holds one character.  Its interrupt line     *)
(* goes up when it becomes empty and down when it is written; the driver   *)
(* never reads the register that would clear it otherwise.  The controller *)
(* is edge triggered: it latches a request only when the line goes up.     *)
(***************************************************************************)
EXTENDS RingOps

CONSTANTS None,       \* an empty transmitter
          Strings,    \* the buffers SER_write is called with
          MaxChars    \* bound on the characters the ring accepts

ASSUME SerialAssumption == /\ None \notin Char
                           /\ Strings \subseteq Seq(Char) /\ MaxChars \in Nat

VARIABLES
    phase,         \* "boot" until SER_init, then "up", or "stopped"
    ring,
    thr, thri,     \* the transmitter and its interrupt line
    latched,       \* IRQ 4 is latched
    intr,          \* the interrupt flag
    pc, buff, c,   \* SER_write: where it is, what is left of buff, char c
    enable_ints,   \* CLI_GUARD's local
    sent, wire     \* what the ring accepted and what left the UART, so far

call == <<pc, buff, c, enable_ints>>
vars == <<phase, ring, thr, thri, latched, intr, pc, buff, c, enable_ints, sent,
          wire>>

\* Before SER_init: text printed by IRQ_init may still be in the UART.
Init == /\ phase = "boot"
        /\ ring = ring_init
        /\ thr \in Char \cup {None} /\ thri = FALSE /\ latched = FALSE
        /\ intr = TRUE
        /\ pc = "idle" /\ buff = <<>> /\ c = NUL /\ enable_ints = FALSE
        /\ sent = <<>> /\ wire = <<>>

-----------------------------------------------------------------------------
\* The FIFO is cleared, the chip is tested in loopback, the handler is set,
\* IRQ 4 unmasked and the interrupt enabled with the transmitter empty; a
\* chip that fails the test stops the kernel.
SER_init ==
    /\ phase = "boot"
    /\ phase' \in {"up", "stopped"}
    /\ ring' = ring_init
    /\ thr' = None
    /\ thri' = (phase' = "up") /\ latched' = thri'
    /\ UNCHANGED <<intr, call, sent, wire>>

\* CLI_GUARD.  Fault: the flag is noted and left set.
GuardWithoutCLI(s) ==
    /\ phase = "up" /\ pc = "idle"
    /\ Len(sent) + Len(s) <= MaxChars
    /\ pc' = "add" /\ buff' = s /\ enable_ints' = intr
    /\ UNCHANGED <<phase, ring, thr, thri, latched, intr, c, sent, wire>>

SER_write(s) ==
    /\ phase = "up" /\ pc = "idle"
    /\ Len(sent) + Len(s) <= MaxChars
    /\ pc' = "add" /\ buff' = s /\ enable_ints' = intr
    /\ intr' = FALSE
    /\ UNCHANGED <<phase, ring, thr, thri, latched, c, sent, wire>>

\* A character the full ring refuses is dropped.
AddChar ==
    /\ pc = "add" /\ buff # <<>>
    /\ ring' = ring_producer_add_char(ring, Head(buff))
    /\ sent' = IF ring_full(ring) THEN sent ELSE Append(sent, Head(buff))
    /\ buff' = Tail(buff)
    /\ UNCHANGED <<phase, thr, thri, latched, intr, pc, c, enable_ints, wire>>

is_transmit_empty == thr = None

\* Fault: SER_write leaves all sending to the interrupt.
NeverPrime ==
    /\ pc = "add" /\ buff = <<>>
    /\ pc' = "end"
    /\ UNCHANGED <<phase, ring, thr, thri, latched, intr, buff, c, enable_ints,
                   sent, wire>>

\* serial_ring_consumer_serial_write in SER_write: the test and the take ...
TakeChar ==
    /\ pc = "add" /\ buff = <<>>
    /\ \/ /\ is_transmit_empty /\ ~ring_empty(ring)
          /\ c' = ring_peek(ring)
          /\ ring' = ring_take(ring)
          /\ pc' = "out"
       \/ /\ ~is_transmit_empty \/ ring_empty(ring)
          /\ pc' = "end"
          /\ UNCHANGED <<c, ring>>
    /\ UNCHANGED <<phase, thr, thri, latched, intr, buff, enable_ints, sent,
                   wire>>

\* ... and write_serial.
write_serial(ch) == thr' = ch /\ thri' = FALSE

WriteChar ==
    /\ pc = "out"
    /\ write_serial(c)
    /\ pc' = "end"
    /\ UNCHANGED <<phase, ring, latched, intr, buff, c, enable_ints, sent,
                   wire>>

\* The inner STI needs a flag that CLI_GUARD has just cleared; STI_GUARD.
WriteReturn ==
    /\ pc = "end"
    /\ intr' = (intr \/ enable_ints)
    /\ pc' = "idle"
    /\ UNCHANGED <<phase, ring, thr, thri, latched, buff, c, enable_ints, sent,
                   wire>>

\* The callers' CLI and STI around their calls of printk.
CallerFlag ==
    /\ pc = "idle" /\ phase = "up"
    /\ intr' = ~intr
    /\ UNCHANGED <<phase, ring, thr, thri, latched, call, sent, wire>>

\* The character leaves, the line goes up and the controller latches it.
UartShift ==
    /\ phase = "up"
    /\ thr # None
    /\ wire' = Append(wire, thr)
    /\ thr' = None
    /\ thri' = TRUE
    /\ latched' = (latched \/ ~thri)
    /\ UNCHANGED <<phase, ring, intr, call, sent>>

\* The handler, its EOI and the way back: interrupts are off from the gate
\* on, so nothing of SER_write happens in between.
serial_transmit_ready_handler ==
    /\ phase = "up" /\ intr /\ latched
    /\ latched' = FALSE
    /\ \/ /\ is_transmit_empty /\ ~ring_empty(ring)
          /\ write_serial(ring_peek(ring))
          /\ ring' = ring_take(ring)
       \/ /\ ~is_transmit_empty \/ ring_empty(ring)
          /\ UNCHANGED <<ring, thr, thri>>
    /\ UNCHANGED <<phase, intr, call, sent, wire>>

WriteStep == AddChar \/ TakeChar \/ WriteChar \/ WriteReturn

Next == \/ SER_init
        \/ \E s \in Strings : SER_write(s)
        \/ WriteStep
        \/ CallerFlag
        \/ UartShift
        \/ serial_transmit_ready_handler

Spec == Init /\ [][Next]_vars

\* The CPU executes and the line shifts.  A caller sets the interrupt flag
\* again and again, so a pending interrupt is taken in the end (strong).
FairSpec == /\ Spec
            /\ WF_vars(WriteStep) /\ WF_vars(CallerFlag) /\ WF_vars(UartShift)
            /\ SF_vars(serial_transmit_ready_handler)

-----------------------------------------------------------------------------
\* SER_write and its interrupt never lose, repeat or reorder a character
\* the ring has accepted: what left, what is leaving and what waits are,
\* in this order, what was accepted.
InThr == IF thr = None THEN <<>> ELSE <<thr>>
InHand == IF pc = "out" THEN <<c>> ELSE <<>>

InOrder == phase = "up" => wire \o InThr \o InHand \o Contents(ring) = sent

\* Every accepted character is transmitted in the end.
Transmitted ==
    \A n \in 1 .. MaxChars : (Len(sent) >= n) ~> (Len(wire) >= n)
=============================================================================
