------------------------------ MODULE Ps2Init ------------------------------
(***************************************************************************)
(* ps2_initialize, src/ps2.c: commands to the controller and to the        *)
(* keyboard, and the answers that come back through the one-byte output    *)
(* buffer; then the interrupt handler that reads keys from that buffer.    *)
(*                                                                         *)
(* Controller and keyboard are external.  The keyboard answers every byte  *)
(* it is sent, in order and in its own time.  Bit 4 of the configuration,  *)
(* here off, is what the port commands set and clear.                      *)
(***************************************************************************)
EXTENDS Integers, Sequences

CONSTANTS MaxEarly,    \* bound on the keys pressed before ps2_initialize ends
          MaxKeys      \* and on those pressed after

ASSUME Ps2Assumption == MaxEarly \in Nat /\ MaxKeys \in Nat

VARIABLES
    ip,               \* index into Script; 0 once the kernel has stopped
    reset_seq, config,         \* locals of ps2_initialize
    port,             \* the controller's configuration byte
    writing,          \* the controller waits for its new configuration
    output,           \* its output buffer
    pend,             \* bytes the keyboard has yet to send
    asked, scan_set,  \* the keyboard waits for a scan set; the one it uses
    handler, irq,     \* ps2_irq_handler is set and unmasked; IRQ 1 latched
    got,              \* the last byte the handler took
    early, keys       \* keys pressed so far

device == <<asked, scan_set>>
count == <<early, keys>>
kbdVars == <<ip, reset_seq, config, port, writing, output, pend, asked,
             scan_set, handler, irq, got, early, keys>>

Empty == "none"
ACK == "ack"
RESEND == "resend"
RESET_SUCCESS == "aa"
Fail == "fail"
Key == "key"
Byte == {ACK, RESEND, RESET_SUCCESS, Fail, Key, "pass", "config"}

Config == [interrupt : BOOLEAN, translation : BOOLEAN, off : BOOLEAN]

\* One call of ps2_initialize per element.
Cmd(c) == [op |-> "command", arg |-> c, ok |-> {}]
Data(d) == [op |-> "data", arg |-> d, ok |-> {}]
Expect(s) == [op |-> "read", arg |-> Empty, ok |-> s]
Do(o) == [op |-> o, arg |-> Empty, ok |-> {}]

Script ==
    << Cmd("disable1"), Cmd("disable2"), Do("flush"),
       Cmd("read_config"), Do("config"), Cmd("write_config"), Data("quiet"),
       Cmd("test"), Expect({"pass"}), Cmd("test_port"), Expect({"pass"}),
       Data("reset"), Do("reset_seq"), Do("reset_seq"), Do("reset_seq"),
       Do("reset_seq"), Do("check"),
       Data("scan_set"), Expect({ACK, RESEND}),
       Data("one"), Expect({ACK}), Do("handler"),
       Cmd("read_config"), Do("config"), Cmd("write_config"), Data("loud"),
       Cmd("enable1"), Do("done") >>

Done == ip = Len(Script)
At(o) == ip # 0 /\ Script[ip].op = o
NextCall == ip' = ip + 1

\* A key may wait in the buffer; the bytes of reset_seq are not initialised.
KbdInit == /\ ip = 1
           /\ reset_seq = <<>>
           /\ config \in Config /\ port \in Config
           /\ writing = FALSE /\ output \in {Empty, Key} /\ pend = <<>>
           /\ asked = FALSE /\ scan_set = 2
           /\ handler = FALSE /\ irq = FALSE /\ got = Empty
           /\ early = 0 /\ keys = 0

-----------------------------------------------------------------------------
\* A byte reaches the output buffer; IRQ 1 follows if the port is on and may
\* interrupt.
Arrives(b) == /\ output' = b
              /\ irq' = (irq \/ (port.interrupt /\ ~port.off))

\* ps2_send_command, and the controller's answer, which waits for a full
\* buffer.
Answers(c) == CASE c \in {"test", "test_port"} -> {"pass", Fail}
                [] c = "read_config" -> {"config"}
                [] OTHER -> {}

ps2_send_command ==
    /\ At("command")
    /\ LET c == Script[ip].arg IN
       /\ writing' = (c = "write_config")
       /\ port' = IF c \in {"disable1", "enable1"}
                  THEN [port EXCEPT !.off = c = "disable1"] ELSE port
       /\ \/ /\ Answers(c) # {} /\ output = Empty
             /\ \E b \in Answers(c) : Arrives(b)
             /\ UNCHANGED pend
          \/ /\ Answers(c) # {} /\ output # Empty
             /\ \E b \in Answers(c) : pend' = <<b>> \o pend
             /\ UNCHANGED <<output, irq>>
          \/ Answers(c) = {} /\ UNCHANGED <<output, irq, pend>>
    /\ NextCall
    /\ UNCHANGED <<reset_seq, config, device, handler, got, count>>

\* What the keyboard answers to a byte, and its state after it.
KeyboardTakes(d) ==
    \/ /\ d = "reset"
       /\ \E b \in {RESET_SUCCESS, Fail} : pend' = pend \o <<ACK, b>>
       /\ asked' = FALSE /\ scan_set' = 2
    \/ /\ d = "scan_set"
       /\ \E b \in {ACK, RESEND} :
              pend' = Append(pend, b) /\ asked' = (b = ACK)
       /\ UNCHANGED scan_set
    \/ /\ d = "one"
       /\ \E b \in IF asked THEN {ACK, RESEND} ELSE {RESEND} :
              /\ pend' = Append(pend, b)
              /\ scan_set' = IF b = ACK THEN 1 ELSE scan_set
       /\ asked' = FALSE

\* Faults: the first configuration enables the interrupt already; it leaves
\* the translation on.
ConfigLoud(d) == [config EXCEPT !.interrupt = TRUE, !.translation = FALSE,
                                !.off = FALSE]
ConfigTranslated(d) == [config EXCEPT !.interrupt = d # "quiet", !.off = FALSE]

\* The configuration before the tests and the one after them.
NewConfig(d) == IF d = "quiet" THEN [config EXCEPT !.interrupt = FALSE,
                                                   !.translation = FALSE,
                                                   !.off = FALSE]
                               ELSE [config EXCEPT !.interrupt = TRUE]

\* ps2_send_data: the new configuration, or a byte for the keyboard.
ps2_send_data ==
    /\ At("data")
    /\ LET d == Script[ip].arg IN
       \/ /\ writing
          /\ port' = NewConfig(d)
          /\ writing' = FALSE
          /\ UNCHANGED <<pend, device>>
       \/ /\ ~writing /\ KeyboardTakes(d)
          /\ UNCHANGED <<port, writing>>
    /\ NextCall
    /\ UNCHANGED <<reset_seq, config, output, handler, irq, got, count>>

\* The flush of the output buffer.
Flush ==
    /\ At("flush")
    /\ output' = Empty
    /\ NextCall
    /\ UNCHANGED <<reset_seq, config, port, writing, pend, device, handler,
                   irq, got, count>>

\* Fault: a refusal is taken for an answer.
AnyAnswer ==
    /\ At("read") /\ output # Empty
    /\ output' = Empty
    /\ ip' = IF output \in Script[ip].ok \cup {RESEND} THEN ip + 1 ELSE 0
    /\ UNCHANGED <<reset_seq, config, port, writing, pend, device, handler,
                   irq, got, count>>

\* ps2_read_data_block, then the test that stops the kernel.
ReadAnswer ==
    /\ At("read") /\ output # Empty
    /\ output' = Empty
    /\ ip' = IF output \in Script[ip].ok THEN ip + 1 ELSE 0
    /\ UNCHANGED <<reset_seq, config, port, writing, pend, device, handler,
                   irq, got, count>>

\* ps2_get_controller_config: whatever byte is read is the configuration.
ps2_get_controller_config ==
    /\ At("config") /\ output # Empty
    /\ output' = Empty
    /\ config' \in IF output = "config" THEN {port} ELSE Config
    /\ NextCall
    /\ UNCHANGED <<reset_seq, port, writing, pend, device, handler, irq, got,
                   count>>

\* ps2_read_data with its timeout.  It may expire before the keyboard sends,
\* and in the very turn that sees the byte, which then stays in the buffer;
\* the first expiry ends the loop.
TimedRead ==
    /\ At("reset_seq")
    /\ \/ /\ output # Empty
          /\ reset_seq' = Append(reset_seq, output)
          /\ output' = Empty
          /\ NextCall
       \/ /\ ip' = CHOOSE i \in 1 .. Len(Script) : Script[i].op = "check"
          /\ UNCHANGED <<reset_seq, output>>
    /\ UNCHANGED <<config, port, writing, pend, device, handler, irq, got,
                   count>>

\* The test of reset_seq[0] and [1], read or not: a byte that was not read
\* may have any value.
Check ==
    /\ At("check")
    /\ \E g \in [1 .. 2 -> Byte] :
           LET byte(i) == IF i <= Len(reset_seq) THEN reset_seq[i] ELSE g[i]
           IN  ip' = IF \/ byte(1) = ACK /\ byte(2) = RESET_SUCCESS
                        \/ byte(1) = RESET_SUCCESS /\ byte(2) = ACK
                     THEN ip + 1 ELSE 0
    /\ UNCHANGED <<reset_seq, config, port, writing, output, pend, device,
                   handler, irq, got, count>>

\* ring_init, IRQ_handler_set and IRQ_clear_mask.
SetHandler ==
    /\ At("handler")
    /\ handler' = TRUE
    /\ NextCall
    /\ UNCHANGED <<reset_seq, config, port, writing, output, pend, device,
                   irq, got, count>>

ps2_initialize == \/ ps2_send_command \/ ps2_send_data \/ Flush \/ ReadAnswer
                  \/ ps2_get_controller_config \/ TimedRead \/ Check
                  \/ SetHandler

\* The keyboard sends a byte when the buffer is free and the port is on.
KeyboardSends ==
    /\ pend # <<>> /\ output = Empty /\ ~port.off
    /\ Arrives(Head(pend))
    /\ pend' = Tail(pend)
    /\ UNCHANGED <<ip, reset_seq, config, port, writing, device, handler, got,
                   count>>

\* A key is pressed; a keyboard whose port is off keeps it to itself.
PressKey ==
    /\ ~port.off /\ ip # 0
    /\ IF Done THEN keys < MaxKeys /\ keys' = keys + 1 /\ UNCHANGED early
               ELSE early < MaxEarly /\ early' = early + 1 /\ UNCHANGED keys
    /\ pend' = Append(pend, Key)
    /\ UNCHANGED <<ip, reset_seq, config, port, writing, output, device,
                   handler, irq, got>>

\* The thread that initialises runs with interrupts off.  The handler reads
\* with no timeout.
ps2_irq_handler ==
    /\ Done /\ handler /\ irq
    /\ output # Empty
    /\ got' = output
    /\ output' = Empty /\ irq' = FALSE
    /\ UNCHANGED <<ip, reset_seq, config, port, writing, pend, device,
                   handler, count>>

KbdNext == ps2_initialize \/ KeyboardSends \/ PressKey \/ ps2_irq_handler

KbdSpec == KbdInit /\ [][KbdNext]_kbdVars

-----------------------------------------------------------------------------
\* ps2_initialize ends only with a keyboard that uses scan set 1, the one of
\* keycodes.c, whatever the keyboard answers, however late, and whatever the
\* uninitialised bytes of reset_seq hold.
ScanSet1 == Done => scan_set = 1

\* The port is on, untranslated, and interrupts.
WellConfigured ==
    Done => port = [interrupt |-> TRUE, translation |-> FALSE, off |-> FALSE]

\* The handler takes keys, never a late answer to a command.
OnlyKeys == got \in {Empty, Key}

\* If no key is pressed before its end, ps2_initialize leaves a port and a
\* handler that are ready for keys, however late the keyboard answered: its
\* reads, the one that timed out included, have left no answer behind.
ReadyForKeys == early = 0 => WellConfigured /\ OnlyKeys

\* If no key is pressed before the end of ps2_initialize, IRQ 1 is served with
\* its byte in the buffer: the handler's read, which has no timeout, does not
\* hang the kernel with interrupts off.
HandlerHasByte == early = 0 /\ Done /\ irq => output # Empty
=============================================================================
