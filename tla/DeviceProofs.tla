---------------------------- MODULE DeviceProofs ----------------------------
(***************************************************************************)
(* The serial driver keeps its characters in order, the two interrupt      *)
(* controllers service what a handler is in and the disk driver's reader   *)
(* gets its block, for any number of characters, interrupts and reads;     *)
(* once interrupts are on every vector has a gate, a stub and a stack.     *)
(* The cursor of the console stays on the screen, for every screen size    *)
(* and whatever is printed; the keyboard is set up for scan set 1 and, if  *)
(* no key comes too early, ready.                                          *)
(***************************************************************************)
EXTENDS Serial, Pic, Ata, GateTables, Vga, Ps2Init, QueueLemmas,
        SequenceTheorems

(* The serial driver.                                                      *)

SerialType ==
    /\ phase \in {"boot", "up", "stopped"}
    /\ ring \in Ring /\ thr \in Char \cup {None}
    /\ intr \in BOOLEAN /\ enable_ints \in BOOLEAN
    /\ pc \in {"idle", "add", "out", "end"}
    /\ buff \in Seq(Char) /\ c \in Char
    /\ sent \in Seq(Char) /\ wire \in Seq(Char)

\* SER_write runs with interrupts off, so nothing else takes a character
\* while it has one in hand and the transmitter is empty.
SerialInv ==
    /\ SerialType
    /\ phase # "up" => pc = "idle" /\ sent = <<>> /\ wire = <<>>
    /\ pc # "idle" => ~intr
    /\ pc = "out" => thr = None
    /\ InOrder

\* What left, what is in the UART, what SER_write holds and what waits.
Pipe(w, t, h, r) == w \o t \o h \o Contents(r)

\* The first character of a ring moves ahead of the others.
LEMMA HeadMoves ==
    ASSUME NEW w \in Seq(Char), NEW r \in Ring, ~ring_empty(r)
    PROVE  /\ ring_take(r) \in Ring /\ ring_peek(r) \in Char
           /\ Pipe(w, <<>>, <<>>, r)
                = Pipe(w, <<>>, <<ring_peek(r)>>, ring_take(r))
           /\ Pipe(w, <<>>, <<>>, r)
                = Pipe(w, <<ring_peek(r)>>, <<>>, ring_take(r))
<1> DEFINE s == Contents(r)
           x == Head(s)
           t == Tail(s)
<1>1. ring_take(r) \in Ring /\ ring_peek(r) \in Char
  BY AdvanceType DEF ring_take, ring_peek, Ring
<1>2. s \in Seq(Char) /\ s # <<>>
  BY ContentsType, TakeRemovesHead
<1>3. ring_peek(r) = x /\ Contents(ring_take(r)) = t
  BY TakeRemovesHead
<1> HIDE DEF s
<1>4. /\ x \in Char /\ t \in Seq(Char) /\ <<x>> \in Seq(Char)
  BY <1>2
<1>5. s = <<x>> \o t
  BY <1>2, <1>4
<1> HIDE DEF x, t
<1>6. (w \o <<x>>) \o t = w \o s
  BY <1>4, <1>5, ConcatAssociative
<1>7. /\ w \o <<>> = w /\ (w \o <<x>>) \o <<>> = w \o <<x>>
  BY <1>4
<1> QED
  BY <1>1, <1>3, <1>6, <1>7 DEF Pipe, s

\* What the ring accepts goes to the end.
LEMMA TailGrows ==
    ASSUME NEW w \in Seq(Char), NEW t \in Seq(Char), NEW r \in Ring,
           ~ring_full(r), NEW x \in Char
    PROVE  /\ ring_put(r, x) \in Ring
           /\ Pipe(w, t, <<>>, ring_put(r, x))
                = Append(Pipe(w, t, <<>>, r), x)
<1>1. ring_put(r, x) \in Ring
  BY AdvanceType DEF ring_put, Ring
<1>2. /\ Contents(r) \in Seq(Char)
      /\ Contents(ring_put(r, x)) = Append(Contents(r), x)
  BY ContentsType, PutAppends
<1>3. \A u, v \in Seq(Char) : u \o Append(v, x) = Append(u \o v, x)
  <2> SUFFICES ASSUME NEW u \in Seq(Char), NEW v \in Seq(Char)
               PROVE  u \o Append(v, x) = Append(u \o v, x)
    OBVIOUS
  <2>1. <<x>> \in Seq(Char) /\ u \o v \in Seq(Char)
    OBVIOUS
  <2> QED
    BY <2>1, AppendIsConcat, ConcatAssociative
<1>4. w \o t \o <<>> \in Seq(Char)
  OBVIOUS
<1> QED
  BY <1>1, <1>2, <1>3, <1>4 DEF Pipe

\* So the pipe grows with what the ring has accepted.
LEMMA AddCharAppends ==
    ASSUME SerialType, ~ring_full(ring), NEW x \in Char,
           Pipe(wire, InThr, <<>>, ring) = sent
    PROVE  /\ ring_put(ring, x) \in Ring
           /\ Pipe(wire, InThr, <<>>, ring_put(ring, x)) = Append(sent, x)
<1>1. wire \in Seq(Char) /\ ring \in Ring
  BY DEF SerialType
<1>2. InThr \in Seq(Char)
  BY DEF InThr, SerialType
<1> QED
  BY <1>1, <1>2, TailGrows

\* SER_write and its interrupt lose, repeat and reorder no character that the
\* ring accepts, for every ring size, text and timing of the UART.
THEOREM SerialInOrder == Spec => []InOrder
<1> USE RingAssumption, SerialAssumption
<1>1. Init => SerialInv
  <2> SUFFICES ASSUME Init PROVE SerialInv
    OBVIOUS
  <2>1. ring \in Ring
    BY DEF Init, ring_init, Ring
  <2>2. SerialType
    <3>1. <<>> \in Seq(Char)
      OBVIOUS
    <3> QED
      BY <2>1, <3>1 DEF Init, SerialType
  <2>3. InOrder
    BY DEF Init, InOrder
  <2> QED
    BY <2>2, <2>3 DEF Init, SerialInv
<1>2. SerialInv /\ [Next]_vars => SerialInv'
  <2> SUFFICES ASSUME SerialInv, [Next]_vars PROVE SerialInv'
    OBVIOUS
  <2> USE DEF SerialInv
  <2>1. CASE SER_init
    <3>1. ring_init \in Ring
      BY DEF ring_init, Ring
    <3>2. Contents(ring_init) = <<>>
      <4>1. Unread(ring_init) = 0
        BY DEF ring_init, Unread
      <4> QED
        BY <3>1, <4>1, ContentsType
    <3>3. SerialType'
      BY <2>1, <3>1 DEF SER_init, SerialType, call
    <3>4. /\ pc' = "idle" /\ sent' = <<>> /\ wire' = <<>>
          /\ thr' = None /\ ring' = ring_init
      BY <2>1 DEF SER_init, call
    <3>5. InOrder'
      BY <3>2, <3>4 DEF InOrder, InThr, InHand
    <3> QED
      BY <3>3, <3>4, <3>5
  <2>2. ASSUME NEW s \in Strings, SER_write(s) PROVE SerialInv'
    <3>1. SerialType'
      BY <2>2 DEF SER_write, SerialType
    <3>2. InOrder'
      BY <2>2 DEF SER_write, InOrder, InThr, InHand
    <3> QED
      BY <2>2, <3>1, <3>2 DEF SER_write
  <2>3. CASE AddChar
    <3>1. PICK x \in Char : x = Head(buff) /\ Tail(buff) \in Seq(Char)
      BY <2>3 DEF AddChar, SerialType
    <3>2. phase = "up" /\ Pipe(wire, InThr, <<>>, ring) = sent
      BY <2>3 DEF AddChar, InOrder, Pipe, InHand
    <3>4. CASE ring_full(ring)
      <4>1. UNCHANGED <<phase, ring, thr, intr, pc, c, enable_ints, sent,
                        wire>>
        BY <2>3, <3>4 DEF AddChar, ring_producer_add_char
      <4>2. buff' \in Seq(Char)
        BY <2>3, <3>1 DEF AddChar
      <4> QED
        BY <4>1, <4>2 DEF SerialType, InOrder, InThr, InHand
    <3>5. CASE ~ring_full(ring)
      <4>1. /\ ring' = ring_put(ring, x) /\ sent' = Append(sent, x)
            /\ buff' \in Seq(Char)
            /\ UNCHANGED <<phase, thr, intr, pc, c, enable_ints, wire>>
        BY <2>3, <3>1, <3>5 DEF AddChar, ring_producer_add_char
      <4>2. /\ ring' \in Ring
            /\ Pipe(wire, InThr, <<>>, ring') = Append(sent, x)
        BY <3>2, <3>5, <4>1, AddCharAppends
      <4>3. SerialType'
        BY <3>1, <4>1, <4>2 DEF SerialType
      <4>4. InOrder'
        BY <2>3, <4>1, <4>2 DEF InOrder, Pipe, InThr, InHand, AddChar
      <4> QED
        BY <3>2, <4>1, <4>3, <4>4
    <3> QED
      BY <3>4, <3>5
  <2>4. CASE TakeChar
    <3>1. CASE is_transmit_empty /\ ~ring_empty(ring)
      <4>1. /\ pc = "add" /\ thr = None /\ c' = ring_peek(ring)
            /\ ring' = ring_take(ring) /\ pc' = "out"
            /\ UNCHANGED <<phase, thr, intr, buff, enable_ints, sent, wire>>
        BY <2>4, <3>1 DEF TakeChar, is_transmit_empty
      <4>2. phase = "up" /\ Pipe(wire, <<>>, <<>>, ring) = sent
        BY <4>1 DEF InOrder, Pipe, InThr, InHand
      <4>3. /\ ring' \in Ring /\ c' \in Char
            /\ Pipe(wire, <<>>, <<c'>>, ring') = sent
        BY <3>1, <4>1, <4>2, HeadMoves DEF SerialType
      <4>4. SerialType'
        BY <4>1, <4>3 DEF SerialType
      <4>5. InOrder'
        BY <4>1, <4>3 DEF InOrder, Pipe, InThr, InHand
      <4> QED
        BY <4>1, <4>2, <4>4, <4>5
    <3>2. CASE ~is_transmit_empty \/ ring_empty(ring)
      <4>1. /\ pc = "add" /\ pc' = "end"
            /\ UNCHANGED <<phase, ring, thr, intr, buff, c, enable_ints, sent,
                           wire>>
        BY <2>4, <3>2 DEF TakeChar
      <4> QED
        BY <4>1 DEF SerialType, InOrder, InThr, InHand
    <3> QED
      BY <3>1, <3>2
  <2>5. CASE WriteChar
    <3>1. /\ pc = "out" /\ thr = None /\ thr' = c /\ pc' = "end" /\ c # None
          /\ UNCHANGED <<phase, ring, intr, buff, c, enable_ints, sent, wire>>
      BY <2>5 DEF WriteChar, write_serial, SerialType
    <3>2. wire \o <<>> \o <<c>> = wire \o <<c>> \o <<>>
      BY DEF SerialType
    <3>3. InOrder'
      BY <3>1, <3>2 DEF InOrder, InThr, InHand
    <3>4. SerialType'
      BY <3>1 DEF SerialType
    <3> QED
      BY <3>1, <3>3, <3>4
  <2>6. CASE WriteReturn
    BY <2>6 DEF WriteReturn, SerialType, InOrder, InThr, InHand
  <2>7. CASE CallerFlag
    BY <2>7 DEF CallerFlag, call, SerialType, InOrder, InThr, InHand
  <2>8. CASE UartShift
    <3>1. /\ thr \in Char /\ thr # None /\ wire' = Append(wire, thr)
          /\ thr' = None /\ phase = "up" /\ pc # "out"
          /\ UNCHANGED <<phase, ring, intr, pc, buff, c, enable_ints, sent>>
      BY <2>8 DEF UartShift, call, SerialType
    <3>2. wire \o <<thr>> = Append(wire, thr) \o <<>> /\ wire' \in Seq(Char)
      BY <3>1 DEF SerialType
    <3>3. InOrder'
      BY <3>1, <3>2 DEF InOrder, InThr, InHand
    <3>4. SerialType'
      BY <3>1, <3>2 DEF SerialType
    <3> QED
      BY <3>1, <3>3, <3>4
  <2>9. CASE serial_transmit_ready_handler
    <3>1. CASE is_transmit_empty /\ ~ring_empty(ring)
      <4>1. /\ thr = None /\ thr' = ring_peek(ring) /\ ring' = ring_take(ring)
            /\ phase = "up" /\ intr
            /\ UNCHANGED <<phase, intr, pc, buff, c, enable_ints, sent, wire>>
        BY <2>9, <3>1 DEF serial_transmit_ready_handler, write_serial, call,
                          is_transmit_empty
      <4>2. pc = "idle" /\ Pipe(wire, <<>>, <<>>, ring) = sent
        BY <4>1 DEF InOrder, Pipe, InThr, InHand
      <4>3. /\ ring' \in Ring /\ thr' \in Char
            /\ Pipe(wire, <<thr'>>, <<>>, ring') = sent
        BY <3>1, <4>1, <4>2, HeadMoves DEF SerialType
      <4>4. SerialType'
        BY <4>1, <4>3 DEF SerialType
      <4>5. InOrder'
        BY <4>1, <4>2, <4>3 DEF InOrder, Pipe, InThr, InHand
      <4> QED
        BY <4>1, <4>2, <4>4, <4>5
    <3>2. CASE ~is_transmit_empty \/ ring_empty(ring)
      <4>1. UNCHANGED <<phase, ring, thr, intr, pc, buff, c, enable_ints, sent,
                        wire>>
        BY <2>9, <3>2 DEF serial_transmit_ready_handler, call
      <4> QED
        BY <4>1 DEF SerialType, InOrder, InThr, InHand
    <3> QED
      BY <3>1, <3>2
  <2>10. CASE UNCHANGED vars
    BY <2>10 DEF vars, SerialType, InOrder, InThr, InHand
  <2> QED
    BY <2>1, <2>2, <2>3, <2>4, <2>5, <2>6, <2>7, <2>8, <2>9, <2>10
    DEF Next, WriteStep
<1>3. SerialInv => InOrder
  BY DEF SerialInv
<1> QED
  BY <1>1, <1>2, <1>3, PTL DEF Spec

-----------------------------------------------------------------------------
(* The interrupt controllers.                                              *)

Frame == [line : Line, at : {"body", "tail"}]

PicType ==
    /\ up \in BOOLEAN /\ enabled \in BOOLEAN
    /\ setup \in [Line -> {"no", "set", "two", "done"}]
    /\ frames \in Seq(Frame)

\* A line is unmasked by its driver, which has set the handler before, so no
\* request is delivered that nobody would end.
HandlerBeforeMask ==
    /\ ~up => ~enabled /\ frames = <<>> /\ isr = {}
             /\ \A l \in Line : setup[l] = "no"
    /\ up => \A l \in Line \ imr : setup[l] # "no"
    /\ \A l \in Line : setup[l] # "no" => l \in irq_table

\* Interrupts are off from the gate to the EOI, so only the innermost frame
\* can be before its EOI.
OneBody ==
    /\ \A i \in 2 .. Len(frames) : frames[i].at = "tail"
    /\ frames # <<>> /\ frames[1].at = "body" => ~enabled

\* The lines that the frames f have in service, and what both controllers
\* hold for a set of lines.
Serviced(f) == IF f # <<>> /\ f[1].at = "body" THEN {f[1].line} ELSE {}
Held(ls) == ls \cup (IF ls \cap Slave = {} THEN {} ELSE {2})

PicInv == /\ PicType /\ HandlerBeforeMask /\ OneBody
          /\ isr = Held(Serviced(frames))

\* The EOI, sent to both controllers, ends the one line in service.
LEMMA EOIEndsAll ==
    ASSUME NEW l \in Line, isr = Held({l})
    PROVE  PIC_sendEOI(32 + l) = {}
<1>1. l \in 0 .. 15 /\ l # 2 /\ 32 + l >= 8
  BY PicAssumption
<1>2. CASE l \in Slave
  <2>1. isr = {l, 2}
    BY <1>2 DEF Held
  <2>2. l \notin 0 .. 7 /\ 2 \in 0 .. 7 /\ 2 \notin Slave
    BY <1>2 DEF Slave
  <2>3. isr \cap (0 .. 7) = {2} /\ isr \cap Slave = {l}
    BY <1>2, <2>1, <2>2, Zenon
  <2>4. Highest({2}) = {2} /\ Highest({l}) = {l}
    BY <1>1 DEF Highest
  <2> QED
    BY <1>1, <2>1, <2>3, <2>4 DEF PIC_sendEOI
<1>3. CASE l \notin Slave
  <2>1. isr = {l} /\ isr \cap Slave = {}
    BY <1>3 DEF Held
  <2>2. l \in 0 .. 7
    BY <1>1, <1>3 DEF Slave
  <2>3. isr \cap (0 .. 7) = {l}
    BY <2>1, <2>2, Zenon
  <2>4. Highest({l}) = {l} /\ Highest({}) = {}
    BY <1>1 DEF Highest
  <2> QED
    BY <1>1, <2>1, <2>3, <2>4 DEF PIC_sendEOI
<1> QED
  BY <1>2, <1>3

\* The frames with one more on top.
LEMMA FramePushed ==
    ASSUME NEW f \in Seq(Frame), NEW x \in Frame
    PROVE  /\ <<x>> \o f \in Seq(Frame)
           /\ <<x>> \o f # <<>> /\ (<<x>> \o f)[1] = x
           /\ \A i \in 2 .. Len(<<x>> \o f) :
                 i - 1 \in 1 .. Len(f) /\ (<<x>> \o f)[i] = f[i - 1]
<1>1. <<x>> \in Seq(Frame) /\ Len(<<x>>) = 1 /\ <<x>>[1] = x
  OBVIOUS
<1>2. /\ <<x>> \o f \in Seq(Frame) /\ Len(<<x>> \o f) = 1 + Len(f)
      /\ \A i \in 1 .. 1 + Len(f) :
            (<<x>> \o f)[i] = IF i <= 1 THEN x ELSE f[i - 1]
  BY <1>1
<1> QED
  BY <1>2

\* irq_handler and PIC_sendEOI: for every set of lines and every nesting of
\* interrupts, the controllers hold in service exactly what a handler has
\* been entered for and has not ended.
THEOREM ServicesItsHandlers == PicSpec => []InService
<1> USE DEF PicInv
<1>1. PicInit => PicInv
  <2> SUFFICES ASSUME PicInit PROVE PicInv
    OBVIOUS
  <2>1. frames = <<>> /\ frames \in Seq(Frame)
    BY DEF PicInit
  <2>2. PicType
    BY <2>1 DEF PicInit, PicType
  <2>3. HandlerBeforeMask /\ OneBody
    BY <2>1 DEF PicInit, HandlerBeforeMask, OneBody
  <2>4. isr = Held(Serviced(frames))
    BY <2>1 DEF PicInit, Held, Serviced
  <2> QED
    BY <2>2, <2>3, <2>4
<1>2. PicInv /\ [PicNext]_picVars => PicInv'
  <2> SUFFICES ASSUME PicInv, [PicNext]_picVars PROVE PicInv'
    OBVIOUS
  <2>1. CASE IRQ_init
    <3>1. /\ up' /\ ~up /\ imr' = All /\ isr' = {} /\ frames' = frames
          /\ setup' = setup /\ enabled' = TRUE /\ frames = <<>>
          /\ \A l \in Line : setup[l] = "no"
      BY <2>1 DEF IRQ_init, PIC_remap, HandlerBeforeMask
    <3>2. Line \ All = {}
      BY PicAssumption DEF All
    <3> QED
      BY <3>1, <3>2 DEF PicType, HandlerBeforeMask, OneBody, Held, Serviced
  <2>2. ASSUME NEW l \in Line, DriverInit(l) PROVE PicInv'
    <3>1. up /\ UNCHANGED <<up, isr, frames, enabled>>
      BY <2>2 DEF DriverInit
    <3>2. setup' \in [Line -> {"no", "set", "two", "done"}]
      BY <2>2 DEF DriverInit, PicType
    <3>3. /\ \A k \in Line : setup[k] # "no" => setup'[k] # "no"
          /\ \A k \in Line : setup'[k] # "no" => k \in irq_table'
          /\ \A k \in Line \ imr' : k \in imr => setup'[k] # "no"
      BY <2>2, PicAssumption DEF DriverInit, PicType, HandlerBeforeMask,
         IRQ_handler_set, IRQ_clear_mask
    <3>4. PicType'
      BY <3>1, <3>2 DEF PicType
    <3>5. HandlerBeforeMask'
      BY <3>1, <3>3 DEF HandlerBeforeMask
    <3> QED
      BY <3>1, <3>4, <3>5 DEF OneBody, Held, Serviced
  <2>3. ASSUME NEW l \in Line, Raise(l) PROVE PicInv'
    BY <2>3 DEF Raise, PicType, HandlerBeforeMask, OneBody, Held, Serviced
  <2>4. ASSUME NEW l \in Line, Deliver(l) PROVE PicInv'
    <3>1. enabled /\ up /\ l \in irq_table
      BY <2>4 DEF Deliver, Deliverable, HandlerBeforeMask, PicType
    <3> DEFINE x == [line |-> l, at |-> "body"]
    <3>2. x \in Frame /\ x.at = "body" /\ x.line = l
      BY DEF Frame
    <3>3. /\ frames' = <<x>> \o frames /\ enabled' = FALSE
          /\ isr' = isr \cup Held({l})
          /\ UNCHANGED <<up, imr, irq_table, setup>>
      BY <2>4, <3>1 DEF Deliver, Held
    <3>4. \A i \in 1 .. Len(frames) : frames[i].at = "tail"
      <4>1. \A i \in 1 .. Len(frames) : frames[i] \in Frame
        BY DEF PicType
      <4>2. \A i \in 1 .. Len(frames) : i = 1 \/ i \in 2 .. Len(frames)
        BY DEF PicType
      <4> QED
        BY <3>1, <4>1, <4>2 DEF OneBody, Frame, PicType
    <3>5. isr = {}
      <4>1. frames # <<>> => 1 \in 1 .. Len(frames)
        BY DEF PicType
      <4> QED
        BY <3>4, <4>1 DEF Serviced, Held
    <3> HIDE DEF x
    <3>6. /\ frames' \in Seq(Frame) /\ frames' # <<>> /\ frames'[1] = x
          /\ \A i \in 2 .. Len(frames') : frames'[i].at = "tail"
      <4>1. PICK f \in Seq(Frame) : f = frames
        BY DEF PicType
      <4>2. /\ <<x>> \o f \in Seq(Frame)
            /\ <<x>> \o f # <<>> /\ (<<x>> \o f)[1] = x
            /\ \A i \in 2 .. Len(<<x>> \o f) :
                  i - 1 \in 1 .. Len(f) /\ (<<x>> \o f)[i] = f[i - 1]
        BY <3>2, FramePushed, Zenon
      <4>3. \A i \in 1 .. Len(f) : f[i].at = "tail"
        BY <3>4, <4>1
      <4>4. \A i \in 2 .. Len(<<x>> \o f) : (<<x>> \o f)[i].at = "tail"
        BY <4>2, <4>3, Zenon
      <4>5. frames' = <<x>> \o f
        BY <3>3, <4>1
      <4> QED
        BY <4>2, <4>4, <4>5, Zenon
    <3>7. isr' = Held(Serviced(frames'))
      BY <3>2, <3>3, <3>5, <3>6 DEF Serviced
    <3> QED
      BY <3>1, <3>3, <3>6, <3>7 DEF PicType, HandlerBeforeMask, OneBody
  <2>5. CASE irq_handler
    <3>1. /\ frames # <<>> /\ frames[1].at = "body"
          /\ isr' = PIC_sendEOI(32 + frames[1].line) /\ enabled' = TRUE
          /\ frames' = [frames EXCEPT ![1].at = "tail"]
          /\ UNCHANGED <<up, imr, irq_table, setup>>
      BY <2>5 DEF irq_handler
    <3>2. 1 \in 1 .. Len(frames) /\ frames[1] \in Frame
      BY <3>1 DEF PicType
    <3>3. isr' = {}
      <4>1. frames[1].line \in Line
        BY <3>2 DEF Frame
      <4>2. isr = Held({frames[1].line})
        BY <3>1 DEF Serviced
      <4> QED
        BY <3>1, <4>1, <4>2, EOIEndsAll
    <3>4. /\ frames' \in Seq(Frame) /\ Len(frames') = Len(frames)
          /\ frames'[1].at = "tail"
          /\ \A i \in 2 .. Len(frames) : frames'[i] = frames[i]
      BY <3>1, <3>2 DEF PicType, Frame
    <3>5. Serviced(frames') = {}
      BY <3>4 DEF Serviced
    <3>6. up
      BY <3>1 DEF HandlerBeforeMask
    <3>7. OneBody'
      BY <3>4 DEF OneBody
    <3>8. isr' = Held(Serviced(frames'))
      BY <3>3, <3>5 DEF Held
    <3> QED
      BY <3>1, <3>4, <3>6, <3>7, <3>8 DEF PicType, HandlerBeforeMask
  <2>6. CASE Return
    <3>1. /\ frames # <<>> /\ frames[1].at = "tail"
          /\ frames' = Tail(frames) /\ enabled' = TRUE
          /\ UNCHANGED <<up, imr, isr, irq_table, setup>>
      BY <2>6 DEF Return
    <3>2. /\ frames' \in Seq(Frame) /\ Len(frames') = Len(frames) - 1
          /\ \A i \in 1 .. Len(frames') :
                /\ i + 1 \in 2 .. Len(frames)
                /\ frames'[i] = frames[i + 1]
      BY <3>1 DEF PicType
    <3>3. \A i \in 1 .. Len(frames') : frames'[i].at = "tail"
      BY <3>2 DEF OneBody
    <3>4. isr = {}
      BY <3>1 DEF Serviced, Held
    <3>5. frames' # <<>> => 1 \in 1 .. Len(frames')
      BY <3>2
    <3>6. Serviced(frames') = {}
      BY <3>3, <3>5 DEF Serviced
    <3>7. OneBody'
      BY <3>2, <3>3, <3>5 DEF OneBody
    <3>8. isr' = Held(Serviced(frames'))
      BY <3>1, <3>4, <3>6 DEF Held
    <3>9. up
      BY <3>1 DEF HandlerBeforeMask
    <3> QED
      BY <3>1, <3>2, <3>7, <3>8, <3>9 DEF PicType, HandlerBeforeMask
  <2>7. CASE UNCHANGED picVars
    BY <2>7 DEF picVars, PicType, HandlerBeforeMask, OneBody, Held, Serviced
  <2> QED
    BY <2>1, <2>2, <2>3, <2>4, <2>5, <2>6, <2>7 DEF PicNext, Drivers, Gate
<1>3. PicInv => InService
  <2> SUFFICES ASSUME PicInv PROVE InService
    OBVIOUS
  <2>1. DOMAIN frames = 1 .. Len(frames)
    BY DEF PicType
  <2>2. \A i \in 1 .. Len(frames) : frames[i].at = "body" => i = 1
    BY DEF OneBody, PicType
  <2>3. frames # <<>> => 1 \in 1 .. Len(frames)
    BY DEF PicType
  <2>4. \A i \in 1 .. Len(frames) : frames # <<>>
    BY DEF PicType
  <2>5. Lines("body") = Serviced(frames)
    BY <2>1, <2>2, <2>3, <2>4 DEF Lines, Serviced
  <2> QED
    BY <2>5 DEF InService, Held
<1> QED
  BY <1>1, <1>2, <1>3, PTL DEF PicSpec

-----------------------------------------------------------------------------
(* The disk.                                                               *)

\* The hypotheses: kmain starts one thread that reads blocks, and it reads.
OneReader == \E r : Reader = {r}
Reads == MaxReads # 0

Asking == {"poll", "yield", "woken", "data", "finish"}

DiskType ==
    /\ probe \in {"boot", "signature", "wait", "ready", "nodev"}
    /\ flag \in [Thread \cup {Source} -> BOOLEAN]
    /\ step \in [Reader -> {"idle", "gone"} \cup Asking]
    /\ blk_num \in [Reader -> Block \cup {Junk}]
    /\ dst \in [Reader -> Block \cup {Junk}]
    /\ reads \in [Reader -> Nat]
    /\ edge \in BOOLEAN /\ wild \in BOOLEAN

\* The reader has its request in the list from Submit to Finish, and only
\* while it has is the drive at work on a command: on its own.
RequestInv ==
    \A r \in Reader :
       /\ step[r] \in Asking => probe = "ready" /\ req = <<r>>
       /\ step[r] \notin Asking => req = <<>>
       /\ step[r] \notin Asking /\ probe = "ready" => st # "busy"
       /\ step[r] \in Asking \ {"finish"} => at = blk_num[r]
       /\ step[r] = "data" => st \in {"drq", "err"}
       /\ step[r] = "finish" => \/ st = "idle" /\ dst[r] = blk_num[r]
                                \/ st = "err" /\ at = blk_num[r]

\* An interrupt that IDENTIFY has left waits until the reader, whose flag is
\* clear as it is new, has put a request in the list; that of a command is
\* taken before the reader has the data.
LatchInv ==
    \A r \in Reader :
       /\ probe # "ready" => reads[r] = 0
       /\ reads[r] = 0 => step[r] = "idle" /\ ~flag[r]
       /\ step[r] = "data" => flag[r] /\ cur = r
       /\ step[r] = "finish" => ~edge
       /\ probe = "ready" /\ edge /\ req = <<>> => cur = r /\ reads[r] = 0

DiskInv == DiskType /\ RequestInv /\ LatchInv /\ ~wild

\* The probe, the reads and the drive keep it.
LEMMA DiskSteps ==
    ASSUME OneReader, Reads, DiskInv, [AtaNext]_ataVars
    PROVE  DiskInv'
<1>1. PICK r : Reader = {r}
  BY DEF OneReader
<1>2. /\ r \in Thread /\ r # Source /\ MaxReads \in Nat \ {0}
      /\ Junk \notin Block
  BY <1>1, AtaAssumption DEF Reads
<1>3. DiskType /\ RequestInv /\ LatchInv /\ ~wild
  BY DEF DiskInv
<1>4. CASE detect_devtype(r)
  <2>1. DiskType'
    BY <1>3, <1>4 DEF detect_devtype, DiskType
  <2>2. RequestInv'
    BY <1>1, <1>3, <1>4 DEF detect_devtype, RequestInv, Asking
  <2>3. LatchInv'
    BY <1>1, <1>3, <1>4 DEF detect_devtype, LatchInv
  <2> QED
    BY <1>3, <1>4, <2>1, <2>2, <2>3 DEF detect_devtype, DiskInv
<1>5. CASE Signature(r)
  <2>1. DiskType'
    BY <1>3, <1>5 DEF Signature, DiskType
  <2>2. RequestInv'
    BY <1>1, <1>3, <1>5 DEF Signature, RequestInv, Asking
  <2>3. LatchInv'
    BY <1>1, <1>3, <1>5 DEF Signature, LatchInv
  <2> QED
    BY <1>3, <1>5, <2>1, <2>2, <2>3 DEF Signature, DiskInv
<1>6. CASE dev_identify(r)
  <2>1. DiskType'
    BY <1>3, <1>6 DEF dev_identify, DiskType
  <2>2. RequestInv'
    BY <1>1, <1>3, <1>6 DEF dev_identify, RequestInv, Asking
  <2>3. LatchInv'
    <3>1. reads[r] = 0 /\ step[r] = "idle" /\ ~flag[r]
      BY <1>1, <1>3, <1>6 DEF dev_identify, LatchInv
    <3>2. cur' = r /\ UNCHANGED <<reads, step, flag>>
      BY <1>6 DEF dev_identify, Runs
    <3> QED
      BY <1>1, <3>1, <3>2 DEF LatchInv
  <2> QED
    BY <1>3, <1>6, <2>1, <2>2, <2>3 DEF dev_identify, DiskInv
<1>7. ASSUME NEW b \in Block, Submit(r, b) PROVE DiskInv'
  <2>1. DiskType'
    <3>1. /\ flag' = [flag EXCEPT ![r] = FALSE]
          /\ step' = [step EXCEPT ![r] = "poll"]
          /\ blk_num' = [blk_num EXCEPT ![r] = b]
          /\ reads' = [reads EXCEPT ![r] = @ + 1]
          /\ UNCHANGED <<probe, dst, edge, wild>>
      BY <1>7 DEF Submit
    <3>2. reads' \in [Reader -> Nat]
      <4>1. reads \in [Reader -> Nat] /\ reads[r] + 1 \in Nat
        BY <1>1, <1>3 DEF DiskType
      <4> QED
        BY <3>1, <4>1
    <3>3. flag' \in [Thread \cup {Source} -> BOOLEAN]
      BY <1>3, <3>1 DEF DiskType
    <3> QED
      BY <1>3, <1>7, <3>1, <3>2, <3>3 DEF DiskType, Asking
  <2>2. step[r] = "idle" /\ req = <<>> /\ probe = "ready"
    BY <1>1, <1>3, <1>7 DEF Submit, RequestInv, Asking
  <2>3. /\ req' = <<r>> /\ st' = "busy" /\ at' = b /\ probe' = probe
        /\ step'[r] = "poll" /\ blk_num'[r] = b /\ reads'[r] = reads[r] + 1
    BY <1>1, <1>3, <1>7, <2>2 DEF Submit, DiskType
  <2>4. RequestInv'
    BY <1>1, <2>2, <2>3 DEF RequestInv, Asking
  <2>5. LatchInv'
    <3>1. reads[r] \in Nat /\ reads'[r] # 0
      BY <1>1, <1>3, <2>3 DEF DiskType
    <3> QED
      BY <1>1, <2>2, <2>3, <3>1 DEF LatchInv
  <2> QED
    BY <1>3, <1>7, <2>1, <2>4, <2>5 DEF Submit, DiskInv
<1>8. CASE Poll(r)
  <2>1. DiskType'
    BY <1>1, <1>2, <1>3, <1>8 DEF Poll, DiskType, drive, Asking
  <2>2. /\ cur = r /\ step[r] = "poll" /\ flag'[r]
        /\ UNCHANGED <<probe, st, at, edge, req, cur, blk_num, dst, reads>>
        /\ UNCHANGED wild
        /\ step'[r] = "yield" \/ (step'[r] = "data" /\ st \in {"drq", "err"})
    BY <1>1, <1>2, <1>3, <1>8 DEF Poll, Runs, DiskType, drive
  <2>3. RequestInv'
    BY <1>1, <1>3, <2>2 DEF RequestInv, Asking
  <2>4. LatchInv'
    BY <1>1, <1>3, <2>2 DEF LatchInv
  <2> QED
    BY <1>3, <2>1, <2>2, <2>3, <2>4 DEF DiskInv
<1>9. CASE Yield(r)
  <2>1. DiskType'
    BY <1>1, <1>3, <1>9 DEF Yield, DiskType, drive, Asking
  <2>2. /\ step[r] = "yield" /\ step'[r] = "woken"
        /\ UNCHANGED <<probe, st, at, edge, req, flag, blk_num, dst>>
        /\ UNCHANGED <<reads, wild>>
    BY <1>1, <1>3, <1>9 DEF Yield, DiskType, drive
  <2>3. RequestInv'
    BY <1>1, <1>3, <2>2 DEF RequestInv, Asking
  <2>4. LatchInv'
    <3>1. req # <<>>
      BY <1>1, <1>3, <2>2 DEF RequestInv, Asking
    <3> QED
      BY <1>1, <1>3, <2>2, <3>1 DEF LatchInv
  <2> QED
    BY <1>3, <2>1, <2>2, <2>3, <2>4 DEF DiskInv
<1>10. CASE Woken(r)
  <2>1. DiskType'
    BY <1>1, <1>2, <1>3, <1>10 DEF Woken, DiskType, drive, Asking
  <2>2. /\ step[r] = "woken" /\ step'[r] = "poll"
        /\ UNCHANGED <<probe, st, at, edge, req, cur, blk_num, dst>>
        /\ UNCHANGED <<reads, wild>>
    BY <1>1, <1>3, <1>10 DEF Woken, DiskType, drive
  <2>3. RequestInv'
    BY <1>1, <1>3, <2>2 DEF RequestInv, Asking
  <2>4. LatchInv'
    BY <1>1, <1>3, <2>2 DEF LatchInv
  <2> QED
    BY <1>3, <2>1, <2>2, <2>3, <2>4 DEF DiskInv
<1>11. CASE ReadData(r)
  <2>1. /\ step[r] = "data" /\ step'[r] = "finish" /\ cur = r /\ ~Interrupted
        /\ dst'[r] = (IF st = "drq" THEN at ELSE Junk)
        /\ st' = (IF st = "drq" THEN "idle" ELSE st)
        /\ UNCHANGED <<probe, at, edge, req, cur, flag, blk_num, reads, wild>>
    BY <1>1, <1>3, <1>11 DEF ReadData, Runs, DiskType
  <2>2. /\ probe = "ready" /\ req = <<r>> /\ at = blk_num[r]
        /\ st \in {"drq", "err"}
    BY <1>1, <1>3, <2>1 DEF RequestInv, Asking
  <2>3. DiskType'
    <3>1. at \in Block \cup {Junk}
      BY <1>1, <1>3, <2>2 DEF DiskType
    <3>2. /\ dst' = [dst EXCEPT ![r] = IF st = "drq" THEN at ELSE Junk]
          /\ step' = [step EXCEPT ![r] = "finish"]
      BY <1>11 DEF ReadData
    <3> QED
      BY <1>1, <1>3, <2>1, <3>1, <3>2 DEF DiskType, Asking
  <2>4. RequestInv'
    BY <1>1, <2>1, <2>2 DEF RequestInv, Asking
  <2>5. LatchInv'
    <3>1. flag[r] /\ ~edge
      BY <1>1, <1>3, <2>1, <2>2 DEF LatchInv, Interrupted
    <3> QED
      BY <1>1, <1>3, <2>1, <2>2, <3>1 DEF LatchInv
  <2> QED
    BY <1>3, <2>1, <2>3, <2>4, <2>5 DEF DiskInv
<1>12. CASE Finish(r)
  <2>1. /\ step[r] = "finish" /\ step'[r] = "idle"
        /\ UNCHANGED <<probe, st, at, edge, cur, flag, blk_num, dst>>
        /\ UNCHANGED <<reads, wild>>
    BY <1>1, <1>3, <1>12 DEF Finish, DiskType, drive
  <2>2. probe = "ready" /\ req = <<r>> /\ st # "busy" /\ ~edge
    BY <1>1, <1>3, <2>1 DEF RequestInv, LatchInv, Asking
  <2>3. req' = <<>>
    BY <1>12, <2>2 DEF Finish
  <2>4. DiskType'
    BY <1>1, <1>3, <1>12 DEF Finish, DiskType, drive, Asking
  <2>5. RequestInv'
    BY <1>1, <2>1, <2>2, <2>3 DEF RequestInv, Asking
  <2>6. LatchInv'
    BY <1>1, <1>3, <2>1, <2>2 DEF LatchInv
  <2> QED
    BY <1>3, <2>1, <2>4, <2>5, <2>6 DEF DiskInv
<1>13. CASE Exit(r)
  <2>1. /\ step[r] = "idle" /\ step'[r] = "gone" /\ reads[r] # 0
        /\ UNCHANGED <<probe, st, at, edge, req, flag, blk_num, dst>>
        /\ UNCHANGED <<reads, wild>>
    BY <1>1, <1>2, <1>3, <1>13 DEF Exit, DiskType, drive
  <2>2. DiskType'
    BY <1>1, <1>3, <1>13 DEF Exit, DiskType, drive, Asking
  <2>3. RequestInv'
    BY <1>1, <1>3, <2>1 DEF RequestInv, Asking
  <2>4. LatchInv'
    BY <1>1, <1>3, <2>1 DEF LatchInv
  <2> QED
    BY <1>3, <2>1, <2>2, <2>3, <2>4 DEF DiskInv
<1>14. CASE Other
  <2>1. /\ cur # r
        /\ UNCHANGED <<probe, st, at, edge, req, flag, step, blk_num, dst>>
        /\ UNCHANGED <<reads, wild>>
    BY <1>1, <1>2, <1>14 DEF Other, Runs, drive
  <2>2. DiskType' /\ RequestInv'
    BY <1>3, <2>1 DEF DiskType, RequestInv
  <2>3. LatchInv'
    BY <1>1, <1>3, <2>1 DEF LatchInv
  <2> QED
    BY <1>3, <2>1, <2>2, <2>3 DEF DiskInv
<1>15. CASE read_block_handler
  <2>1. /\ Interrupted /\ edge' = FALSE /\ wild' = (wild \/ req = <<>>)
        /\ UNCHANGED <<probe, st, at, req, cur, flag, step, blk_num, dst>>
        /\ UNCHANGED reads
    BY <1>15 DEF read_block_handler
  <2>2. req # <<>>
    BY <1>1, <1>3, <2>1 DEF LatchInv, Interrupted
  <2>3. DiskType' /\ RequestInv'
    BY <1>3, <2>1, <2>2 DEF DiskType, RequestInv
  <2>4. LatchInv'
    BY <1>3, <2>1 DEF LatchInv
  <2> QED
    BY <1>3, <2>1, <2>2, <2>3, <2>4 DEF DiskInv
<1>16. CASE Drive
  <2>1. /\ UNCHANGED <<probe, at, req, cur, flag, step, blk_num, dst, reads>>
        /\ UNCHANGED wild
        /\ \/ st = "reset" /\ st' = "idle" /\ edge' = edge
           \/ /\ st = "busy" /\ st' \in {"drq", "err"}
              /\ edge' = (edge \/ ~intrq)
    BY <1>16 DEF Drive
  <2>2. DiskType'
    BY <1>3, <2>1 DEF DiskType
  <2>3. RequestInv'
    BY <1>1, <1>3, <2>1 DEF RequestInv, Asking
  <2>4. LatchInv'
    <3>1. st = "busy" /\ probe = "ready" => req # <<>>
      <4>1. \/ step[r] \in Asking /\ req = <<r>>
            \/ ~(st = "busy" /\ probe = "ready")
        BY <1>1, <1>3 DEF RequestInv
      <4>2. <<r>> # <<>>
        OBVIOUS
      <4> QED
        BY <4>1, <4>2
    <3>2. step[r] = "finish" => edge' = edge
      BY <1>1, <1>3, <2>1 DEF RequestInv
    <3> QED
      BY <1>1, <1>3, <2>1, <3>1, <3>2 DEF LatchInv
  <2> QED
    BY <1>3, <2>1, <2>2, <2>3, <2>4 DEF DiskInv
<1>17. CASE UNCHANGED ataVars
  BY <1>17 DEF ataVars, DiskInv, DiskType, RequestInv, LatchInv
<1> QED
  BY <1>1, <1>4, <1>5, <1>6, <1>7, <1>8, <1>9, <1>10, <1>11, <1>12, <1>13,
     <1>14, <1>15, <1>16, <1>17
     DEF AtaNext, CPU, ata_probe, ata_48_read_block

\* ata_probe starts with no request and a new thread that reads.
LEMMA DiskStart ==
    ASSUME OneReader, Reads, AtaInit
    PROVE  DiskInv
<1>1. PICK r : Reader = {r}
  BY DEF OneReader
<1>2. DiskType
  BY DEF AtaInit, DiskType
<1>3. RequestInv
  BY <1>1 DEF AtaInit, RequestInv, Asking
<1>4. LatchInv
  <2>1. r \in Thread /\ r \in Reader
    BY <1>1, AtaAssumption
  <2> QED
    BY <1>1, <2>1 DEF AtaInit, LatchInv
<1> QED
  BY <1>2, <1>3, <1>4 DEF AtaInit, DiskInv

\* For any number of threads, blocks and reads, and whenever the drive answers
\* or fails, the one reader of the tree gets the block it asked for or the
\* drive's error, however often it is woken too early.
THEOREM ReaderGetsItsBlock ==
    ASSUME OneReader, Reads
    PROVE  AtaSpec => []ReadsOwnBlock
<1>1. AtaInit => DiskInv
  BY DiskStart
<1>2. DiskInv /\ [AtaNext]_ataVars => DiskInv'
  BY DiskSteps
<1>3. DiskInv => ReadsOwnBlock
  BY DEF DiskInv, RequestInv, ReadsOwnBlock
<1> QED
  BY <1>1, <1>2, <1>3, PTL DEF AtaSpec

\* read_block_handler finds a request at req_head whenever it runs, also for
\* the interrupt of IDENTIFY that may be waiting when IRQ 14 is unmasked.
THEOREM HandlerFindsRequest ==
    ASSUME OneReader, Reads
    PROVE  AtaSpec => []HandlerHasRequest
<1>1. AtaInit => DiskInv
  BY DiskStart
<1>2. DiskInv /\ [AtaNext]_ataVars => DiskInv'
  BY DiskSteps
<1>3. DiskInv => HandlerHasRequest
  BY DEF DiskInv, HandlerHasRequest
<1> QED
  BY <1>1, <1>2, <1>3, PTL DEF AtaSpec

-----------------------------------------------------------------------------
(* The tables of the processor.                                            *)

\* The descriptor of a vector.
GateOf(v) ==
    [isr_low |-> Part(isr_stub_table[v], 0, 2),
     isr_mid |-> Part(isr_stub_table[v], 2, 4),
     isr_high |-> Part(isr_stub_table[v], 4, 8), cs |-> 8, ist |-> IstIndex(v)]

\* What the table of GDT_setup holds, and that of IRQ_init_tss.
TwoSegments == <<[kind |-> "null"], [kind |-> "code"]>>

SegmentsInv ==
    /\ Len(table) = 4 /\ limit = 31 /\ tr = 16 /\ ist = Stacks
    /\ kernel_desc_offset = 8
    /\ table[2].kind = "code" /\ table[3].kind = "tss"
    /\ table[3].base_low = Part(tss, 0, 3)
    /\ table[3].base_mid = Part(tss, 3, 4)
    /\ table[4].base_high = Part(tss, 4, 8)

\* The descriptors set so far, from vector 0 on.
IdtInv ==
    /\ idt \in Seq({GateOf(v) : v \in Vector})
    /\ Len(idt) <= IDT_MAX_DESCRIPTORS
    /\ \A v \in Vector : v < Len(idt) => idt[v + 1] = GateOf(v)

GateInv ==
    /\ gate_pc \in {"gdt", "tss", "idt", "up"}
    /\ tss \in 0 .. 255 /\ IdtInv
    /\ gate_intr => gate_pc = "up"
    /\ gate_pc = "tss" => table = TwoSegments /\ kernel_desc_offset = 8
    /\ gate_pc \in {"idt", "up"} => SegmentsInv
    /\ gate_pc = "up" => Len(idt) = IDT_MAX_DESCRIPTORS

\* The parts of a descriptor as remainders.
LEMMA PartValues ==
    ASSUME NEW x \in 0 .. 255
    PROVE  /\ Part(x, 0, 3) = x % 8 /\ Part(x, 3, 4) = (x \div 8) % 2
           /\ Part(x, 0, 2) = x % 4 /\ Part(x, 2, 4) = (x \div 4) % 4
           /\ Part(x, 4, 8) = (x \div 16) % 16
<1>1. 2^0 = 1 /\ 2^1 = 2 /\ 2^2 = 4 /\ 2^3 = 8 /\ 2^4 = 16
  OBVIOUS
<1>2. 3 - 0 = 3 /\ 4 - 3 = 1 /\ 2 - 0 = 2 /\ 4 - 2 = 2 /\ 8 - 4 = 4
  OBVIOUS
<1>3. x \div 1 = x
  OBVIOUS
<1>4. Part(x, 0, 3) = (x \div 2^0) % 2^3 /\ Part(x, 3, 4) = (x \div 2^3) % 2^1
  BY <1>2 DEF Part
<1>5. Part(x, 0, 2) = (x \div 2^0) % 2^2 /\ Part(x, 2, 4) = (x \div 2^2) % 2^2
  BY <1>2 DEF Part
<1>6. Part(x, 4, 8) = (x \div 2^4) % 2^4
  BY <1>2 DEF Part
<1> QED
  BY <1>1, <1>3, <1>4, <1>5, <1>6

\* The parts make up the address again: of the task state and of a stub.
LEMMA PartsMakeAddress ==
    ASSUME NEW x \in 0 .. 255
    PROVE  /\ Part(x, 0, 3) + 8 * Part(x, 3, 4) + 16 * Part(x, 4, 8) = x
           /\ Part(x, 0, 2) + 4 * Part(x, 2, 4) + 16 * Part(x, 4, 8) = x
<1>1. (x % 8) + 8 * ((x \div 8) % 2) + 16 * ((x \div 16) % 16) = x
  OBVIOUS
<1>2. (x % 4) + 4 * ((x \div 4) % 4) + 16 * ((x \div 16) % 16) = x
  OBVIOUS
<1> QED
  BY <1>1, <1>2, PartValues

LEMMA GateInvInit == GateInit => GateInv
<1> SUFFICES ASSUME GateInit PROVE GateInv
  OBVIOUS
<1>1. tss \in 0 .. 255 /\ IDT_MAX_DESCRIPTORS \in Nat
  BY GateAssumption DEF GateInit
<1>2. IdtInv
  <2>1. idt = <<>> /\ Len(idt) = 0
    BY DEF GateInit
  <2>2. \A v \in Vector : ~(v < 0)
    BY <1>1 DEF Vector
  <2> QED
    BY <1>1, <2>1, <2>2 DEF IdtInv
<1> QED
  BY <1>1, <1>2 DEF GateInit, GateInv

LEMMA GateInvStep == GateInv /\ [GateNext]_gateVars => GateInv'
<1> SUFFICES ASSUME GateInv, [GateNext]_gateVars
             PROVE  GateInv'
  OBVIOUS
<1>1. CASE GDT_setup
  <2>1. /\ table' = TwoSegments /\ gate_pc' = "tss"
        /\ UNCHANGED <<tss, ist, tr, idt, gate_intr>> /\ gate_pc = "gdt"
        /\ kernel_desc_offset' = 8
    <3>1. Len(<<[kind |-> "null"]>>) = 1
      OBVIOUS
    <3> QED
      BY <1>1, <3>1 DEF GDT_setup, TwoSegments, GDT_offset
  <2>2. IdtInv' /\ ~gate_intr'
    BY <2>1 DEF GateInv, IdtInv
  <2> QED
    BY <2>1, <2>2 DEF GateInv
<1>2. CASE IRQ_init_tss
  <2>1. /\ table' = table \o tss_set_descriptor
        /\ limit' = GDT_limit(table') /\ tr' = GDT_offset(table)
        /\ ist' = Stacks /\ gate_pc' = "idt" /\ gate_pc = "tss"
        /\ UNCHANGED <<kernel_desc_offset, tss, idt, gate_intr>>
    BY <1>2 DEF IRQ_init_tss
  <2>2. table = TwoSegments /\ kernel_desc_offset = 8
    BY <2>1 DEF GateInv
  <2>3. /\ Len(TwoSegments) = 2 /\ Len(tss_set_descriptor) = 2
        /\ TwoSegments[2].kind = "code"
        /\ tss_set_descriptor[1].kind = "tss"
        /\ tss_set_descriptor[1].base_low = Part(tss, 0, 3)
        /\ tss_set_descriptor[1].base_mid = Part(tss, 3, 4)
        /\ tss_set_descriptor[2].base_high = Part(tss, 4, 8)
    BY DEF TwoSegments, tss_set_descriptor
  <2>4. /\ Len(table') = 4 /\ table'[2] = TwoSegments[2]
        /\ table'[3] = tss_set_descriptor[1]
        /\ table'[4] = tss_set_descriptor[2]
    BY <2>1, <2>2 DEF TwoSegments, tss_set_descriptor
  <2>5. limit' = 31 /\ tr' = 16
    BY <2>1, <2>2, <2>3, <2>4 DEF GDT_limit, GDT_offset
  <2>6. SegmentsInv'
    BY <2>1, <2>2, <2>3, <2>4, <2>5 DEF SegmentsInv
  <2>7. IdtInv' /\ ~gate_intr'
    BY <2>1 DEF GateInv, IdtInv
  <2> QED
    BY <2>1, <2>6, <2>7 DEF GateInv
<1>3. CASE SetDescriptor
  <2> DEFINE n == Len(idt)
  <2>1. /\ gate_pc = "idt" /\ n < IDT_MAX_DESCRIPTORS
        /\ idt' = Append(idt, idt_set_descriptor(isr_stub_table[n],
                                                 IstIndex(n)))
        /\ UNCHANGED <<gate_pc, table, limit, kernel_desc_offset, tss, ist, tr,
                       gate_intr>>
    BY <1>3 DEF SetDescriptor
  <2>2. SegmentsInv /\ IdtInv
    BY <2>1 DEF GateInv
  <2>3. idt_set_descriptor(isr_stub_table[n], IstIndex(n)) = GateOf(n)
    BY <2>2 DEF SegmentsInv, idt_set_descriptor, GateOf
  <2>4. n \in Nat /\ IDT_MAX_DESCRIPTORS \in Nat /\ n \in Vector
    BY <2>1, <2>2, GateAssumption DEF IdtInv, Vector
  <2>5. IdtInv'
    <3>1. /\ idt \in Seq({GateOf(v) : v \in Vector})
          /\ GateOf(n) \in {GateOf(v) : v \in Vector}
      BY <2>2, <2>4 DEF IdtInv
    <3>2. /\ idt' \in Seq({GateOf(v) : v \in Vector}) /\ Len(idt') = n + 1
          /\ idt'[n + 1] = GateOf(n)
          /\ \A k \in 1 .. n : idt'[k] = idt[k]
      <4> HIDE DEF n
      <4> QED
        BY <2>1, <2>3, <3>1 DEF n
    <3>3. ASSUME NEW v \in Vector, v < n + 1 PROVE idt'[v + 1] = GateOf(v)
      <4>1. v \in Nat
        BY <2>4 DEF Vector
      <4>2. CASE v = n
        BY <3>2, <4>2
      <4>3. CASE v < n
        <5>1. v + 1 \in 1 .. n
          BY <2>4, <4>1, <4>3
        <5> QED
          BY <2>2, <3>2, <4>3, <5>1 DEF IdtInv
      <4> QED
        BY <2>4, <3>3, <4>1, <4>2, <4>3
    <3>4. Len(idt') <= IDT_MAX_DESCRIPTORS
      BY <2>1, <2>4, <3>2
    <3>5. \A v \in Vector : v < Len(idt') => idt'[v + 1] = GateOf(v)
      BY <3>2, <3>3
    <3> QED
      BY <3>2, <3>4, <3>5 DEF IdtInv
  <2>6. SegmentsInv'
    BY <2>1, <2>2 DEF SegmentsInv
  <2> QED
    BY <2>1, <2>5, <2>6 DEF GateInv
<1>4. CASE IRQ_init_end
  <2>1. /\ gate_pc = "idt" /\ Len(idt) = IDT_MAX_DESCRIPTORS /\ gate_pc' = "up"
        /\ UNCHANGED <<table, limit, kernel_desc_offset, tss, ist, tr, idt>>
    BY <1>4 DEF IRQ_init_end
  <2>2. SegmentsInv' /\ IdtInv'
    BY <2>1 DEF GateInv, SegmentsInv, IdtInv
  <2> QED
    BY <2>1, <2>2 DEF GateInv
<1>5. CASE UNCHANGED gateVars
  BY <1>5 DEF gateVars, GateInv, SegmentsInv, IdtInv
<1> QED
  BY <1>1, <1>2, <1>3, <1>4, <1>5 DEF GateNext

\* For every place of the stubs and of tss: once IRQ_init has turned interrupts
\* on, each vector leads to its stub through a loaded code segment, and the
\* four that need one to their own stack, found through a loaded task state.
THEOREM EveryVectorReady == GateSpec => []VectorsReady
<1>1. GateInv => VectorsReady
  <2> SUFFICES ASSUME GateInv, gate_intr PROVE VectorsReady
    BY DEF VectorsReady
  <2>1. /\ SegmentsInv /\ IdtInv /\ Len(idt) = IDT_MAX_DESCRIPTORS
        /\ tss \in 0 .. 255
    BY DEF GateInv
  <2>2. /\ IDT_MAX_DESCRIPTORS \in Nat /\ IDT_MAX_DESCRIPTORS > 129
        /\ GDT_SIZE \in Nat /\ GDT_SIZE >= 4
        /\ isr_stub_table \in [Vector -> 0 .. 255]
    BY GateAssumption
  <2>3. Len(table) <= GDT_SIZE
    BY <2>1, <2>2 DEF SegmentsInv
  <2>4. 16 \div 8 + 1 = 3 /\ 8 \div 8 + 1 = 2 /\ 3 + 1 = 4
    OBVIOUS
  <2>5. Selects(tr, "tss", 16) /\ Selects(8, "code", 8)
    BY <2>1, <2>4 DEF SegmentsInv, Selects
  <2>6. TaskState = tss
    <3>1. TaskState = Part(tss, 0, 3) + 8 * Part(tss, 3, 4)
                      + 16 * Part(tss, 4, 8)
      BY <2>1, <2>4 DEF SegmentsInv, TaskState
    <3> QED
      BY <2>1, <3>1, PartsMakeAddress
  <2>7. ASSUME NEW v \in Vector PROVE idt[v + 1] = GateOf(v)
    BY <2>1, <2>2 DEF IdtInv, Vector
  <2>8. ASSUME NEW v \in Vector
        PROVE  /\ Target(idt[v + 1]) = isr_stub_table[v]
               /\ Selects(idt[v + 1].cs, "code", 8)
               /\ (idt[v + 1].ist = 0) = (v \notin {8, 13, 14, 129})
    <3>1. isr_stub_table[v] \in 0 .. 255
      BY <2>2
    <3>2. Target(GateOf(v)) = isr_stub_table[v]
      BY <3>1, PartsMakeAddress DEF Target, GateOf
    <3>3. GateOf(v).cs = 8 /\ GateOf(v).ist = IstIndex(v)
      BY DEF GateOf
    <3>4. IstIndex(v) = 0 <=> v \notin {8, 13, 14, 129}
      BY <2>2 DEF IstIndex, Vector
    <3> QED
      BY <2>5, <2>7, <3>2, <3>3, <3>4
  <2>9. /\ 8 \in Vector /\ 14 \in Vector /\ 13 \in Vector /\ 129 \in Vector
        /\ 8 + 1 = 9 /\ 14 + 1 = 15 /\ 13 + 1 = 14 /\ 129 + 1 = 130
    BY <2>2 DEF Vector
  <2>10. /\ idt[9].ist = 1 /\ idt[15].ist = 2
         /\ idt[14].ist = 3 /\ idt[130].ist = 4
    <3>1. /\ idt[9] = GateOf(8) /\ idt[15] = GateOf(14)
          /\ idt[14] = GateOf(13) /\ idt[130] = GateOf(129)
      BY <2>7, <2>9
    <3>2. /\ IstIndex(8) = 1 /\ IstIndex(14) = 2
          /\ IstIndex(13) = 3 /\ IstIndex(129) = 4
      BY DEF IstIndex
    <3> QED
      BY <3>1, <3>2 DEF GateOf
  <2>11. /\ ist[1] = "DF_stack" /\ ist[2] = "PF_stack"
         /\ ist[3] = "GP_stack" /\ ist[4] = "EX_stack"
    BY <2>1 DEF SegmentsInv, Stacks
  <2> QED
    BY <2>3, <2>5, <2>6, <2>8, <2>10, <2>11 DEF VectorsReady
<1> QED
  BY <1>1, GateInvInit, GateInvStep, PTL DEF GateSpec

-----------------------------------------------------------------------------
(* The console.                                                            *)

\* The cursor as a line and a column.
LEMMA LineColumn ==
    ASSUME NEW x \in Nat
    PROVE  \E l \in Nat, r \in 0 .. VGA_WIDTH - 1, m \in Nat :
              /\ LINE(x) = l /\ COLUMN(x) = r /\ m = l * VGA_WIDTH
              /\ x = m + r /\ (l + 1) * VGA_WIDTH = m + VGA_WIDTH
              /\ l <= m
<1>1. VGA_WIDTH \in Nat \ {0, 1}
  BY VgaAssumption
<1>2. PICK d \in Nat \ {0, 1} : d = VGA_WIDTH
  BY <1>1
<1>3. x \div d \in Nat /\ x % d \in 0 .. d - 1
  OBVIOUS
<1>4. PICK l \in Nat, r \in 0 .. d - 1 : l = x \div d /\ r = x % d
  BY <1>3
<1>5. l * d \in Nat /\ (l + 1) * d = l * d + d /\ l <= l * d
  OBVIOUS
<1>6. x = l * d + r
  BY <1>4
<1> QED
  BY <1>2, <1>4, <1>5, <1>6 DEF LINE, COLUMN

\* A newline scrolls a full screen and stays on its last line.
LEMMA NewLineOnScreen ==
    ASSUME NEW buf, CursorOnScreen, NewLine(buf)
    PROVE  CursorOnScreen'
<1>1. VGA_WIDTH \in Nat \ {0, 1} /\ VGA_HEIGHT \in Nat \ {0, 1}
  BY VgaAssumption
<1>2. VGA_SIZE \in Nat /\ VGA_cursor \in Nat /\ VGA_cursor < VGA_SIZE
  BY <1>1 DEF VGA_SIZE, CursorOnScreen
<1>3. PICK l \in Nat, r \in 0 .. VGA_WIDTH - 1, m \in Nat :
         /\ LINE(VGA_cursor) = l /\ m = l * VGA_WIDTH
         /\ VGA_cursor = m + r /\ (l + 1) * VGA_WIDTH = m + VGA_WIDTH
  BY <1>2, LineColumn
<1>4. PICK cursor \in Nat : cursor = m + VGA_WIDTH
  BY <1>1
<1>5. (LINE(cursor) - 1) * VGA_WIDTH = m
  <2>1. cursor = (l + 1) * VGA_WIDTH
    BY <1>3, <1>4
  <2>2. LINE(cursor) = l + 1
    <3>1. ASSUME NEW d \in Nat \ {0}, NEW k \in Nat PROVE (k * d) \div d = k
      OBVIOUS
    <3> QED
      BY <1>1, <2>1, <3>1 DEF LINE
  <2>3. LINE(cursor) - 1 = l
    BY <2>2
  <2> QED
    BY <1>3, <2>3
<1>6. VGA_cursor' = IF cursor >= VGA_SIZE THEN m ELSE cursor
  BY <1>3, <1>4, <1>5 DEF NewLine
<1>7. VGA_cursor' \in 0 .. VGA_SIZE - 1
  BY <1>1, <1>2, <1>3, <1>4, <1>6
<1> QED
  BY <1>7 DEF CursorOnScreen, VGA_SIZE

\* VGA_display_char, with its three kinds of characters.
LEMMA CharOnScreen ==
    ASSUME NEW ch \in Input, CursorOnScreen, VGA_display_char(ch)
    PROVE  CursorOnScreen'
<1>1. VGA_WIDTH \in Nat \ {0, 1} /\ VGA_HEIGHT \in Nat \ {0, 1}
  BY VgaAssumption
<1>2. VGA_SIZE \in Nat /\ VGA_cursor \in Nat /\ VGA_cursor < VGA_SIZE
  BY <1>1 DEF VGA_SIZE, CursorOnScreen
<1>3. PICK l \in Nat, r \in 0 .. VGA_WIDTH - 1, m \in Nat :
         /\ LINE(VGA_cursor) = l /\ COLUMN(VGA_cursor) = r
         /\ m = l * VGA_WIDTH /\ VGA_cursor = m + r
         /\ (l + 1) * VGA_WIDTH = m + VGA_WIDTH /\ l <= m
  BY <1>2, LineColumn
<1>4. CASE NewLine(VGA_buf) \/ NewLine([VGA_buf EXCEPT ![VGA_cursor] = ch])
  BY <1>4, NewLineOnScreen
<1>5. CASE VGA_cursor' = LINE(VGA_cursor)
  <2>1. VGA_cursor' \in 0 .. VGA_SIZE - 1
    BY <1>2, <1>3, <1>5
  <2> QED
    BY <2>1 DEF CursorOnScreen, VGA_SIZE
<1>6. CASE /\ COLUMN(VGA_cursor) < VGA_WIDTH - 1
           /\ VGA_cursor' = VGA_cursor + 1
  <2>1. m + VGA_WIDTH <= VGA_SIZE
    <3>1. ASSUME NEW d \in Nat \ {0}, NEW h \in Nat, NEW k \in Nat,
                 k * d < d * h
          PROVE  (k + 1) * d <= d * h
      <4>1. k < h
        BY <3>1
      <4> QED
        BY <4>1
    <3>2. l * VGA_WIDTH < VGA_WIDTH * VGA_HEIGHT
      BY <1>1, <1>2, <1>3 DEF VGA_SIZE
    <3>3. (l + 1) * VGA_WIDTH <= VGA_WIDTH * VGA_HEIGHT
      BY <1>1, <3>1, <3>2
    <3> QED
      BY <1>3, <3>3 DEF VGA_SIZE
  <2>2. VGA_cursor' \in 0 .. VGA_SIZE - 1
    BY <1>1, <1>2, <1>3, <1>6, <2>1
  <2> QED
    BY <2>2 DEF CursorOnScreen, VGA_SIZE
<1> QED
  BY <1>4, <1>5, <1>6 DEF VGA_display_char

\* For every width and height of at least two and every text, carriage returns
\* that leave the line included, VGA_display_char writes to a cell of the
\* screen.
THEOREM CursorStaysOnScreen == VgaSpec => []CursorOnScreen
<1>1. VgaInit => CursorOnScreen
  <2>1. VGA_WIDTH \in Nat \ {0, 1} /\ VGA_HEIGHT \in Nat \ {0, 1}
    BY VgaAssumption
  <2>2. VGA_SIZE \in Nat \ {0}
    BY <2>1 DEF VGA_SIZE
  <2> QED
    BY <2>2 DEF VgaInit, CursorOnScreen
<1>2. CursorOnScreen /\ [VgaNext]_vgaVars => CursorOnScreen'
  <2> SUFFICES ASSUME CursorOnScreen, [VgaNext]_vgaVars PROVE CursorOnScreen'
    OBVIOUS
  <2>1. CASE VGA_cursor' = VGA_cursor
    BY <2>1 DEF CursorOnScreen, VGA_SIZE
  <2>2. CASE VGA_clear
    BY <2>1, <2>2 DEF VGA_clear
  <2>3. ASSUME NEW ch \in Input, VGA_display_char(ch) PROVE CursorOnScreen'
    BY <2>3, CharOnScreen
  <2>4. ASSUME NEW k \in Cells, NEW ch \in Glyph, VGA_display_attr_char(k, ch)
        PROVE  CursorOnScreen'
    BY <2>1, <2>4 DEF VGA_display_attr_char
  <2>5. CASE UNCHANGED vgaVars
    BY <2>1, <2>5 DEF vgaVars
  <2> QED
    BY <2>2, <2>3, <2>4, <2>5 DEF VgaNext
<1> QED
  BY <1>1, <1>2, PTL DEF VgaSpec

-----------------------------------------------------------------------------
(* The keyboard.                                                           *)

KbdType ==
    /\ ip \in 0 .. 28
    /\ reset_seq \in Seq(Byte)
    /\ config \in Config /\ port \in Config
    /\ output \in Byte \cup {Empty} /\ pend \in Seq(Byte)
    /\ asked \in BOOLEAN /\ scan_set \in {1, 2} /\ irq \in BOOLEAN
    /\ early \in Nat /\ keys \in Nat
    /\ ip # 0 => writing = (ip \in {7, 26})

\* What ps2_initialize and the handler will read, in this order.
Stream == IF output = Empty THEN pend ELSE <<output>> \o pend

\* How a reset ends.
Tested == {RESET_SUCCESS, Fail}

\* A read that times out leaves answers behind.  The commands before the
\* reset give none that could be taken for one of the keyboard's; the two
\* bytes of a reset stay side by side.  So an acknowledgement that the last
\* test sees is that of the scan set.
NoAnswer(s) == \A i \in 1 .. Len(s) : s[i] \notin {ACK, RESEND}

ResetAnswer(s) ==
    \A i \in 1 .. Len(s) :
       /\ s[i] # RESEND
       /\ s[i] = ACK => i + 1 \in 1 .. Len(s) /\ s[i + 1] \in Tested

Apart(s) ==
    \A i \in 1 .. Len(s) - 1 : s[i] \in {ACK, RESEND} => s[i + 1] # ACK

AnswerInv ==
    /\ ip \in 1 .. 12 => NoAnswer(Stream)
    /\ ip \in 13 .. 18 => ResetAnswer(Stream)
    /\ ip = 19 => Apart(Stream)
    /\ ip = 20 /\ Stream # <<>> => Stream[1] # ACK
    /\ ip = 21 /\ scan_set # 1 => Stream # <<>> /\ Stream[1] # ACK
    /\ ip \in 22 .. 28 => scan_set = 1

\* With no key before the end, the answers are the only bytes, and a reset
\* answer that is left stops the kernel.
Quiet == [interrupt |-> FALSE, translation |-> FALSE, off |-> FALSE]
Loud == [interrupt |-> TRUE, translation |-> FALSE, off |-> FALSE]

OnlyAnswers ==
    /\ ip \in {1, 2, 3} => pend = <<>>
    /\ ip \in {4, 6, 7, 8, 10, 12, 22, 23, 25, 26, 27} => Stream = <<>>
    /\ ip \in {5, 24} => Stream = <<"config">>
    /\ ip \in {9, 11} => Stream \in {<<"pass">>, <<Fail>>}
    /\ ip \in 13 .. 18 =>
          \/ Stream = <<>>
          \/ \E b \in Tested : Stream \in {<<b>>, <<ACK, b>>}
    /\ ip = 19 => \/ Len(Stream) = 1
                  \/ Stream # <<>> /\ Stream[1] \in Tested
                  \/ Len(Stream) > 1 /\ Stream[2] \in Tested
    /\ ip = 20 => Stream = <<>> \/ Stream[1] \in Tested
    /\ ip = 21 => Len(Stream) = 1 \/ (Stream # <<>> /\ Stream[1] \in Tested)
    /\ ip = 28 => \A i \in 1 .. Len(Stream) : Stream[i] = Key

PortInv ==
    /\ ip \in 2 .. 7 => port.off
    /\ ip \in 8 .. 26 => port = Quiet
    /\ ip \in {25, 26} => config = Quiet
    /\ ip \in {27, 28} => port = Loud

QuietInv == /\ OnlyAnswers /\ PortInv
            /\ ip \in 1 .. 27 => ~irq
            /\ ip = 28 /\ irq => output # Empty
            /\ got \in {Empty, Key}

KbdInv == KbdType /\ AnswerInv /\ (early = 0 => QuietInv)

\* What the call at each place of ps2_initialize is.
LEMMA ScriptCalls ==
    /\ Len(Script) = 28
    /\ \A p \in 1 .. 28 :
          /\ Script[p].op = "command" => p \in {1, 2, 4, 6, 8, 10, 23, 25, 27}
          /\ Script[p].op = "data" => p \in {7, 12, 18, 20, 26}
          /\ Script[p].op = "flush" => p = 3
          /\ Script[p].op = "read" => p \in {9, 11, 19, 21}
          /\ Script[p].op = "config" => p \in {5, 24}
          /\ Script[p].op = "reset_seq" => p \in 13 .. 16
          /\ Script[p].op = "check" => p = 17
          /\ Script[p].op = "handler" => p = 22
  BY DEF Script, Cmd, Data, Expect, Do

LEMMA ScriptArguments ==
    /\ Script[1].arg = "disable1" /\ Script[2].arg = "disable2"
    /\ Script[4].arg = "read_config" /\ Script[6].arg = "write_config"
    /\ Script[7].arg = "quiet" /\ Script[8].arg = "test"
    /\ Script[10].arg = "test_port" /\ Script[12].arg = "reset"
    /\ Script[18].arg = "scan_set" /\ Script[20].arg = "one"
    /\ Script[23].arg = "read_config" /\ Script[25].arg = "write_config"
    /\ Script[26].arg = "loud" /\ Script[27].arg = "enable1"
    /\ Script[9].ok = {"pass"} /\ Script[11].ok = {"pass"}
    /\ Script[19].ok = {ACK, RESEND} /\ Script[21].ok = {ACK}
    /\ Script[17].op = "check"
  BY DEF Script, Cmd, Data, Expect, Do

\* A byte is read, sent by the keyboard, or put into the buffer.
LEMMA StreamTake ==
    ASSUME KbdType, output # Empty, output' = Empty, pend' = pend
    PROVE  /\ Stream \in Seq(Byte) /\ Stream # <<>> /\ Stream[1] = output
           /\ Stream' = pend /\ Len(Stream) = Len(pend) + 1
           /\ \A i \in 1 .. Len(pend) : pend[i] = Stream[i + 1]
<1>1. pend \in Seq(Byte) /\ output \in Byte
  BY DEF KbdType
<1> QED
  BY <1>1 DEF Stream

LEMMA StreamPut ==
    ASSUME KbdType, NEW b \in Byte, output' = output, pend' = Append(pend, b)
    PROVE  /\ Stream \in Seq(Byte) /\ Stream' \in Seq(Byte)
           /\ Len(Stream') = Len(Stream) + 1 /\ Stream'[Len(Stream')] = b
           /\ \A i \in 1 .. Len(Stream) : Stream'[i] = Stream[i]
<1>1. pend \in Seq(Byte) /\ output \in Byte \cup {Empty}
  BY DEF KbdType
<1>2. CASE output = Empty
  BY <1>1, <1>2 DEF Stream
<1>3. CASE output # Empty
  <2>1. Stream = <<output>> \o pend /\ Stream' = <<output>> \o pend'
    BY <1>3 DEF Stream
  <2>2. <<output>> \in Seq(Byte) /\ pend' \in Seq(Byte)
    BY <1>1, <1>3
  <2> QED
    BY <1>1, <2>1, <2>2
<1> QED
  BY <1>2, <1>3

LEMMA StreamSend ==
    ASSUME KbdType, output = Empty, pend # <<>>, output' = Head(pend),
           pend' = Tail(pend)
    PROVE  Stream' = Stream
<1>1. pend \in Seq(Byte) /\ Head(pend) \in Byte
  BY DEF KbdType
<1>2. Head(pend) # Empty
  BY <1>1 DEF Byte, Empty, ACK, RESEND, RESET_SUCCESS, Fail, Key
<1>3. <<Head(pend)>> \o Tail(pend) = pend
  <2>1. /\ Len(<<Head(pend)>> \o Tail(pend)) = Len(pend)
        /\ <<Head(pend)>> \o Tail(pend) \in Seq(Byte)
        /\ \A i \in 1 .. Len(pend) :
              (<<Head(pend)>> \o Tail(pend))[i] = pend[i]
    BY <1>1
  <2> QED
    BY <1>1, <2>1, SeqEqual
<1> QED
  BY <1>2, <1>3 DEF Stream

\* The first byte and the rest, in the two states of the buffer.
LEMMA StreamIs ==
    ASSUME KbdType
    PROVE  /\ Stream \in Seq(Byte)
           /\ output = Empty => Stream = pend
           /\ output # Empty => Stream # <<>> /\ Stream[1] = output
           /\ Stream = <<>> <=> output = Empty /\ pend = <<>>
<1>1. pend \in Seq(Byte) /\ output \in Byte \cup {Empty}
  BY DEF KbdType
<1>2. CASE output = Empty
  BY <1>1, <1>2 DEF Stream
<1>3. CASE output # Empty
  <2>1. <<output>> \in Seq(Byte) /\ Len(<<output>> \o pend) = 1 + Len(pend)
    BY <1>1, <1>3
  <2> QED
    BY <1>1, <1>3, <2>1 DEF Stream
<1> QED
  BY <1>2, <1>3

\* The call that ps2_initialize is at.
LEMMA AtCall ==
    ASSUME KbdType
    PROVE  /\ At("command") => ip \in {1, 2, 4, 6, 8, 10, 23, 25, 27}
           /\ At("data") => ip \in {7, 12, 18, 20, 26}
           /\ At("flush") => ip = 3
           /\ At("read") => ip \in {9, 11, 19, 21}
           /\ At("config") => ip \in {5, 24}
           /\ At("reset_seq") => ip \in 13 .. 16
           /\ At("check") => ip = 17
           /\ At("handler") => ip = 22
           /\ Done <=> ip = 28
<1>1. ip \in 0 .. 28
  BY DEF KbdType
<1>2. ip # 0 => ip \in 1 .. 28
  BY <1>1
<1> QED
  BY <1>2, ScriptCalls DEF At, Done

LEMMA NoAnswerBefore ==
    ASSUME NEW x \in Byte \ {ACK, RESEND}, NEW s \in Seq(Byte), NoAnswer(s)
    PROVE  NoAnswer(<<x>> \o s)
<1>1. SUFFICES ASSUME NEW i \in 1 .. Len(<<x>> \o s)
               PROVE  (<<x>> \o s)[i] \notin {ACK, RESEND}
  BY DEF NoAnswer
<1>2. <<x>> \in Seq(Byte) /\ Len(s) \in Nat
  OBVIOUS
<1>3. CASE i = 1
  BY <1>2, <1>3
<1>4. CASE i - 1 \in 1 .. Len(s)
  <2>1. (<<x>> \o s)[i] = s[i - 1]
    BY <1>2, <1>4
  <2> QED
    BY <1>4, <2>1 DEF NoAnswer
<1> QED
  BY <1>2, <1>3, <1>4

\* A command, and the controller's answer before what the keyboard has sent.
LEMMA CommandKeeps ==
    ASSUME KbdInv, ps2_send_command
    PROVE  KbdInv'
<1>1. KbdType /\ AnswerInv /\ (early = 0 => QuietInv)
  BY DEF KbdInv
<1>2. /\ ip \in {1, 2, 4, 6, 8, 10, 23, 25, 27} /\ ip' = ip + 1
      /\ writing' = (Script[ip].arg = "write_config")
      /\ UNCHANGED <<reset_seq, config, asked, scan_set, got, early, keys>>
  BY <1>1, AtCall DEF ps2_send_command, NextCall, device, count
<1>3. writing' = (ip' \in {7, 26})
  BY <1>2, ScriptArguments
<1>4. /\ port' \in Config
      /\ ip # 1 /\ ip # 27 => port' = port
      /\ ip = 1 => port'.off
      /\ ip = 27 => port' = [port EXCEPT !.off = FALSE]
  <2>1. port \in Config
    BY <1>1 DEF KbdType
  <2>2. port' = IF Script[ip].arg \in {"disable1", "enable1"}
                THEN [port EXCEPT !.off = Script[ip].arg = "disable1"]
                ELSE port
    BY DEF ps2_send_command
  <2>3. CASE ip = 1
    <3>1. port' = [port EXCEPT !.off = TRUE]
      BY <2>2, <2>3, ScriptArguments
    <3>2. port' \in Config /\ port'.off
      BY <2>1, <3>1 DEF Config
    <3> QED
      BY <2>3, <3>2
  <2>4. CASE ip = 27
    <3>1. port' = [port EXCEPT !.off = FALSE]
      BY <2>2, <2>4, ScriptArguments
    <3>2. port' \in Config
      BY <2>1, <3>1 DEF Config
    <3> QED
      BY <2>4, <3>1, <3>2
  <2>5. CASE ip # 1 /\ ip # 27
    <3>1. Script[ip].arg \notin {"disable1", "enable1"}
      BY <1>2, <2>5, ScriptArguments
    <3> QED
      BY <2>1, <2>2, <2>5, <3>1
  <2> QED
    BY <2>3, <2>4, <2>5
<1>5. CASE ip \in {1, 2, 6, 25, 27}
  <2>1. UNCHANGED <<output, irq, pend>>
    BY <1>2, <1>5, ScriptArguments DEF ps2_send_command, Answers
  <2>2. Stream' = Stream
    BY <2>1 DEF Stream
  <2>3. KbdType'
    <3>1. ip' \in 0 .. 28
      BY <1>2
    <3> QED
      BY <1>1, <1>2, <1>3, <1>4, <2>1, <3>1 DEF KbdType
  <2>4. AnswerInv'
    <3>1. \/ ip' \in {2, 3, 7} /\ ip \in 1 .. 12
          \/ ip' \in {26, 28} /\ ip \in 22 .. 28
      BY <1>2, <1>5
    <3>2. /\ ip \in 1 .. 12 => NoAnswer(Stream')
          /\ ip \in 22 .. 28 => scan_set' = 1
      BY <1>1, <1>2, <2>2 DEF AnswerInv
    <3>3. CASE ip' \in {2, 3, 7} /\ NoAnswer(Stream')
      BY <3>3 DEF AnswerInv
    <3>4. CASE ip' \in {26, 28} /\ scan_set' = 1
      BY <3>4 DEF AnswerInv
    <3> QED
      BY <3>1, <3>2, <3>3, <3>4
  <2>5. ASSUME early = 0 PROVE QuietInv'
    <3>1. OnlyAnswers /\ PortInv
      BY <1>1, <2>5 DEF QuietInv
    <3>2. OnlyAnswers'
      <4>1. /\ ip \in {1, 2} => pend = <<>>
            /\ ip \in {6, 25, 27} => Stream = <<>>
        BY <3>1 DEF OnlyAnswers
      <4>2. /\ ip' \in {2, 3} => pend' = <<>>
            /\ ip' \in {7, 26, 28} => Stream' = <<>>
            /\ ip' \in {2, 3, 7, 26, 28}
        BY <1>2, <1>5, <2>1, <2>2, <4>1
      <4> QED
        BY <4>2 DEF OnlyAnswers
    <3>3. PortInv'
      <4>1. ASSUME ip = 27 PROVE port' = Loud
        <5>1. port = Loud /\ port' = [port EXCEPT !.off = FALSE]
          BY <1>4, <3>1, <4>1 DEF PortInv
        <5> QED
          BY <5>1 DEF Loud
      <4> QED
        BY <1>2, <1>4, <1>5, <3>1, <4>1 DEF PortInv
    <3> QED
      BY <1>1, <1>2, <1>5, <2>1, <2>5, <3>2, <3>3 DEF QuietInv
  <2> QED
    BY <1>2, <2>3, <2>4, <2>5 DEF KbdInv
<1>6. CASE ip \in {4, 8, 10, 23}
  <2>1. PICK b \in {"pass", Fail, "config"} :
           /\ ip \in {4, 23} => b = "config"
           /\ ip \in {8, 10} => b \in {"pass", Fail}
           /\ \/ /\ output = Empty /\ output' = b /\ pend' = pend
                 /\ irq' = (irq \/ (port.interrupt /\ ~port.off))
              \/ /\ output # Empty /\ pend' = <<b>> \o pend
                 /\ output' = output /\ irq' = irq
    <3>1. PICK cmd : cmd = Script[ip].arg
      OBVIOUS
    <3>2. /\ ip \in {4, 23} => cmd = "read_config"
          /\ ip \in {8, 10} => cmd \in {"test", "test_port"}
      BY <3>1, ScriptArguments
    <3>3. /\ ip \in {4, 23} => Answers(cmd) = {"config"}
          /\ ip \in {8, 10} => Answers(cmd) = {"pass", Fail}
      BY <3>2 DEF Answers
    <3>4. \/ /\ output = Empty
             /\ \E b \in Answers(cmd) : Arrives(b)
             /\ UNCHANGED pend
          \/ /\ output # Empty
             /\ \E b \in Answers(cmd) : pend' = <<b>> \o pend
             /\ UNCHANGED <<output, irq>>
          \/ Answers(cmd) = {}
      BY <3>1 DEF ps2_send_command
    <3>5. Answers(cmd) # {}
      BY <1>6, <3>3
    <3> QED
      BY <1>6, <3>3, <3>4, <3>5 DEF Arrives
  <2>2. b \in Byte
    BY DEF Byte
  <2>3. KbdType'
    <3>1. pend \in Seq(Byte) /\ irq \in BOOLEAN
      BY <1>1 DEF KbdType
    <3>2. pend' \in Seq(Byte)
      <4>1. <<b>> \o pend \in Seq(Byte)
        BY <2>2, <3>1
      <4>2. pend' = pend \/ pend' = <<b>> \o pend
        BY <2>1
      <4> QED
        BY <3>1, <4>1, <4>2
    <3>3. ip' \in 0 .. 28
      BY <1>2
    <3>4. irq' \in BOOLEAN
      BY <2>1, <3>1
    <3>5. output' \in Byte \cup {Empty}
      BY <1>1, <2>1, <2>2 DEF KbdType
    <3> QED
      BY <1>1, <1>2, <1>3, <1>4, <3>2, <3>3, <3>4, <3>5 DEF KbdType
  <2>4. AnswerInv'
    <3>1. CASE ip = 23
      BY <1>1, <1>2, <3>1 DEF AnswerInv
    <3>2. CASE ip # 23
      <4>1. ip \in 1 .. 12 /\ ip' \in 1 .. 12 /\ NoAnswer(Stream)
        BY <1>1, <1>2, <1>6, <3>2 DEF AnswerInv
      <4>2. b \notin {ACK, RESEND} /\ b # Empty
        BY DEF ACK, RESEND, Fail, Empty
      <4>3. NoAnswer(Stream')
        <5>1. CASE output = Empty
          <6>1. Stream' = <<b>> \o pend /\ Stream = pend
            BY <2>1, <4>2, <5>1 DEF Stream
          <6>2. pend \in Seq(Byte) /\ <<b>> \in Seq(Byte)
            BY <1>1, <2>2 DEF KbdType
          <6> QED
            BY <2>2, <4>1, <4>2, <6>1, <6>2, NoAnswerBefore
        <5>2. CASE output # Empty
          <6>1. Stream' = <<output>> \o (<<b>> \o pend)
            BY <2>1, <5>2 DEF Stream
          <6>2. Stream = <<output>> \o pend
            BY <5>2 DEF Stream
          <6>3. /\ pend \in Seq(Byte) /\ <<b>> \in Seq(Byte)
                /\ <<output>> \in Seq(Byte)
            BY <1>1, <2>2, <5>2 DEF KbdType
          <6>4. output \notin {ACK, RESEND}
            BY <4>1, <6>2, <6>3 DEF NoAnswer
          <6>5. \A i \in 1 .. Len(pend) : pend[i] \notin {ACK, RESEND}
            <7>1. TAKE i \in 1 .. Len(pend)
            <7>2. i + 1 \in 1 .. Len(Stream) /\ Stream[i + 1] = pend[i]
              BY <6>2, <6>3
            <7> QED
              BY <4>1, <7>2 DEF NoAnswer
          <6>6. NoAnswer(<<b>> \o pend) /\ <<b>> \o pend \in Seq(Byte)
            <7>1. NoAnswer(pend)
              BY <6>5 DEF NoAnswer
            <7> QED
              BY <2>2, <4>2, <6>3, <7>1, NoAnswerBefore
          <6>7. output \in Byte
            BY <1>1, <5>2 DEF KbdType
          <6> QED
            BY <6>1, <6>4, <6>6, <6>7, NoAnswerBefore
        <5> QED
          BY <5>1, <5>2
      <4> QED
        BY <1>2, <4>1, <4>3 DEF AnswerInv
    <3> QED
      BY <3>1, <3>2
  <2>5. ASSUME early = 0 PROVE QuietInv'
    <3>1. OnlyAnswers /\ PortInv /\ ~irq
      BY <1>1, <1>6, <2>5 DEF QuietInv
    <3>2. output = Empty /\ pend = <<>>
      BY <1>1, <1>6, <3>1, StreamIs DEF OnlyAnswers
    <3>3. output' = b /\ pend' = <<>> /\ b # Empty
      BY <2>1, <3>2 DEF Fail, Empty
    <3>4. Stream' = <<b>>
      BY <3>3 DEF Stream
    <3>5. OnlyAnswers'
      BY <1>2, <1>6, <2>1, <3>4 DEF OnlyAnswers
    <3>6. PortInv'
      BY <1>2, <1>4, <1>6, <3>1 DEF PortInv
    <3>7. ~irq'
      <4>1. port.off \/ ~port.interrupt
        BY <1>6, <3>1 DEF PortInv, Quiet
      <4> QED
        BY <2>1, <3>1, <3>2, <4>1
    <3> QED
      BY <1>1, <1>2, <1>6, <2>5, <3>5, <3>6, <3>7 DEF QuietInv
  <2> QED
    BY <1>2, <2>3, <2>4, <2>5 DEF KbdInv
<1> QED
  BY <1>2, <1>5, <1>6

LEMMA StreamReset ==
    ASSUME KbdType, NEW b \in Byte, output' = output,
           pend' = pend \o <<ACK, b>>
    PROVE  /\ Stream \in Seq(Byte) /\ Stream' \in Seq(Byte)
           /\ Len(Stream') = Len(Stream) + 2
           /\ Stream'[Len(Stream) + 1] = ACK /\ Stream'[Len(Stream) + 2] = b
           /\ \A i \in 1 .. Len(Stream) : Stream'[i] = Stream[i]
           /\ Stream = <<>> => Stream' = <<ACK, b>>
<1>1. pend \in Seq(Byte) /\ output \in Byte \cup {Empty}
  BY DEF KbdType
<1>2. <<ACK, b>> \in Seq(Byte)
  BY DEF Byte
<1>3. Len(<<ACK, b>>) = 2 /\ <<ACK, b>>[1] = ACK /\ <<ACK, b>>[2] = b
  OBVIOUS
<1>4. CASE output = Empty
  <2>1. Stream = pend /\ Stream' = pend \o <<ACK, b>>
    BY <1>4 DEF Stream
  <2>2. pend = <<>> => pend \o <<ACK, b>> = <<ACK, b>>
    BY <1>1, <1>2
  <2> QED
    BY <1>1, <1>2, <1>3, <2>1, <2>2
<1>5. CASE output # Empty
  <2>1. Stream = <<output>> \o pend /\ Stream' = <<output>> \o pend'
    BY <1>5 DEF Stream
  <2>2. <<output>> \in Seq(Byte) /\ pend' \in Seq(Byte)
    BY <1>1, <1>2, <1>5
  <2>3. /\ Len(pend') = Len(pend) + 2
        /\ pend'[Len(pend) + 1] = ACK /\ pend'[Len(pend) + 2] = b
        /\ \A i \in 1 .. Len(pend) : pend'[i] = pend[i]
    BY <1>1, <1>2, <1>3
  <2>4. Len(Stream) = Len(pend) + 1 /\ Len(Stream') = Len(pend) + 3
    BY <1>1, <2>1, <2>2, <2>3
  <2>5. /\ Stream'[Len(Stream) + 1] = ACK /\ Stream'[Len(Stream) + 2] = b
        /\ \A i \in 1 .. Len(Stream) : Stream'[i] = Stream[i]
    BY <1>1, <2>1, <2>2, <2>3, <2>4
  <2> QED
    BY <1>1, <2>1, <2>2, <2>4, <2>5
<1> QED
  BY <1>4, <1>5

\* A byte for the controller or for the keyboard, which answers.
LEMMA DataKeeps ==
    ASSUME KbdInv, ps2_send_data
    PROVE  KbdInv'
<1>1. KbdType /\ AnswerInv /\ (early = 0 => QuietInv)
  BY DEF KbdInv
<1>2. /\ ip \in {7, 12, 18, 20, 26} /\ ip' = ip + 1
      /\ UNCHANGED <<reset_seq, config, output, irq, got, early, keys>>
  BY <1>1, AtCall DEF ps2_send_data, NextCall, count
<1>3. /\ writing = (ip \in {7, 26}) /\ ip' \in 0 .. 28
      /\ config \in Config /\ port \in Config /\ pend \in Seq(Byte)
  BY <1>1, <1>2 DEF KbdType
<1>4. ~writing'
  BY <1>2, <1>3 DEF ps2_send_data
<1>5. writing' = (ip' \in {7, 26})
  <2>1. ip' \notin {7, 26}
    BY <1>2
  <2>2. writing' \in BOOLEAN
    <3>1. writing \in BOOLEAN
      BY <1>3
    <3>2. writing' = FALSE \/ writing' = writing
      BY DEF ps2_send_data
    <3> QED
      BY <3>1, <3>2
  <2> QED
    BY <1>4, <2>1, <2>2
<1>6. CASE ip \in {7, 26}
  <2>1. /\ port' = NewConfig(Script[ip].arg)
        /\ UNCHANGED <<pend, asked, scan_set>>
    <3>1. writing
      BY <1>3, <1>6
    <3> QED
      BY <3>1 DEF ps2_send_data, device
  <2>2. /\ ip = 7 => port' = Quiet
        /\ ip = 26 => port' = [config EXCEPT !.interrupt = TRUE]
    BY <1>3, <2>1, ScriptArguments DEF NewConfig, Config, Quiet
  <2>3. port' \in Config
    <3>1. [config EXCEPT !.interrupt = TRUE] \in Config /\ Quiet \in Config
      BY <1>3 DEF Config, Quiet
    <3> QED
      BY <1>6, <2>2, <3>1
  <2>4. KbdType'
    BY <1>1, <1>2, <1>3, <1>5, <2>1, <2>3 DEF KbdType
  <2>5. Stream' = Stream
    BY <1>2, <2>1 DEF Stream
  <2>6. AnswerInv'
    BY <1>1, <1>2, <1>6, <2>1, <2>5 DEF AnswerInv
  <2>7. ASSUME early = 0 PROVE QuietInv'
    <3>1. OnlyAnswers /\ PortInv /\ ~irq /\ got \in {Empty, Key}
      BY <1>1, <1>6, <2>7 DEF QuietInv
    <3>2. Stream' = <<>> /\ ip' \in {8, 27}
      BY <1>2, <1>6, <2>5, <3>1 DEF OnlyAnswers
    <3>3. ip = 26 => port' = Loud
      BY <2>2, <3>1 DEF PortInv, Loud, Quiet
    <3>4. OnlyAnswers'
      BY <3>2 DEF OnlyAnswers
    <3>5. PortInv'
      BY <1>2, <1>6, <2>2, <3>3 DEF PortInv
    <3> QED
      BY <1>2, <3>1, <3>2, <3>4, <3>5 DEF QuietInv
  <2> QED
    BY <1>2, <2>4, <2>6, <2>7 DEF KbdInv
<1>7. CASE ip \in {12, 18, 20}
  <2>1. KeyboardTakes(Script[ip].arg) /\ port' = port
    <3>1. ip \notin {7, 26}
      BY <1>7
    <3>2. ~writing
      BY <1>3, <3>1
    <3> QED
      BY <3>2 DEF ps2_send_data
  <2>2. CASE ip = 12
    <3>1. PICK b \in Tested : pend' = pend \o <<ACK, b>>
      BY <2>1, <2>2, ScriptArguments DEF KeyboardTakes, Tested
    <3>2. asked' = FALSE /\ scan_set' = 2 /\ b \in Byte /\ ip' = 13
      BY <1>2, <2>1, <2>2, ScriptArguments DEF KeyboardTakes, Tested, Byte
    <3>3. /\ Stream \in Seq(Byte) /\ Stream' \in Seq(Byte)
          /\ Len(Stream') = Len(Stream) + 2
          /\ Stream'[Len(Stream) + 1] = ACK /\ Stream'[Len(Stream) + 2] = b
          /\ \A i \in 1 .. Len(Stream) : Stream'[i] = Stream[i]
          /\ Stream = <<>> => Stream' = <<ACK, b>>
      BY <1>1, <1>2, <3>1, <3>2, StreamReset
    <3>4. KbdType'
      <4>1. pend' \in Seq(Byte)
        BY <1>3, <3>1, <3>2 DEF Byte
      <4> QED
        BY <1>1, <1>2, <1>3, <1>5, <2>1, <3>2, <4>1 DEF KbdType
    <3>5. AnswerInv'
      <4>1. NoAnswer(Stream)
        BY <1>1, <2>2 DEF AnswerInv
      <4>2. b # ACK /\ b # RESEND /\ ACK # RESEND
        BY DEF Tested, ACK, RESEND, RESET_SUCCESS, Fail
      <4>3. ASSUME NEW i \in 1 .. Len(Stream')
            PROVE  /\ Stream'[i] # RESEND
                   /\ Stream'[i] = ACK => /\ i + 1 \in 1 .. Len(Stream')
                                          /\ Stream'[i + 1] \in Tested
        <5>1. CASE i \in 1 .. Len(Stream)
          BY <3>3, <4>1, <5>1 DEF NoAnswer
        <5>2. CASE i = Len(Stream) + 1
          BY <3>3, <4>2, <5>2
        <5>3. CASE i = Len(Stream) + 2
          BY <3>3, <4>2, <5>3
        <5>4. Len(Stream) \in Nat
          BY <3>3
        <5> QED
          BY <3>3, <5>1, <5>2, <5>3, <5>4
      <4>4. ResetAnswer(Stream')
        BY <4>3 DEF ResetAnswer
      <4> QED
        BY <3>2, <4>4 DEF AnswerInv
    <3>6. ASSUME early = 0 PROVE QuietInv'
      <4>1. OnlyAnswers /\ PortInv /\ ~irq /\ got \in {Empty, Key}
        BY <1>1, <2>2, <3>6 DEF QuietInv
      <4>2. Stream' = <<ACK, b>>
        BY <2>2, <3>3, <4>1 DEF OnlyAnswers
      <4>3. OnlyAnswers'
        BY <3>2, <4>2 DEF OnlyAnswers
      <4>4. PortInv'
        BY <2>1, <2>2, <3>2, <4>1 DEF PortInv
      <4> QED
        BY <1>2, <3>2, <4>1, <4>3, <4>4 DEF QuietInv
    <3> QED
      BY <1>2, <3>4, <3>5, <3>6 DEF KbdInv
  <2>3. ASSUME ip \in {18, 20} PROVE KbdInv'
    <3>1. PICK b \in {ACK, RESEND} :
             /\ pend' = Append(pend, b)
             /\ ip = 20 => scan_set' = IF b = ACK THEN 1 ELSE scan_set
             /\ ip = 18 => scan_set' = scan_set
      <4>1. CASE ip = 18
        BY <2>1, <4>1, ScriptArguments DEF KeyboardTakes
      <4>2. CASE ip = 20
        BY <2>1, <4>2, ScriptArguments DEF KeyboardTakes
      <4> QED
        BY <2>3, <4>1, <4>2
    <3>2. b \in Byte /\ ACK # RESEND
      BY DEF Byte, ACK, RESEND
    <3>3. /\ Stream \in Seq(Byte) /\ Stream' \in Seq(Byte)
          /\ Len(Stream') = Len(Stream) + 1 /\ Stream'[Len(Stream')] = b
          /\ \A i \in 1 .. Len(Stream) : Stream'[i] = Stream[i]
      BY <1>1, <1>2, <3>1, <3>2, StreamPut
    <3>4. Len(Stream) \in Nat /\ (Stream = <<>> <=> Len(Stream) = 0)
      BY <3>3
    <3>5. KbdType'
      <4>1. pend' \in Seq(Byte) /\ scan_set' \in {1, 2}
        BY <1>1, <1>3, <2>3, <3>1, <3>2 DEF KbdType
      <4>2. asked' \in BOOLEAN
        <5>1. CASE ip = 18
          BY <2>1, <5>1, ScriptArguments DEF KeyboardTakes
        <5>2. CASE ip = 20
          BY <2>1, <5>2, ScriptArguments DEF KeyboardTakes
        <5> QED
          BY <2>3, <5>1, <5>2
      <4> QED
        BY <1>1, <1>2, <1>3, <1>5, <2>1, <4>1, <4>2 DEF KbdType
    <3>6. AnswerInv'
      <4>1. CASE ip = 18
        <5>1. ResetAnswer(Stream) /\ ip' = 19
          BY <1>1, <1>2, <4>1 DEF AnswerInv
        <5>2. RESET_SUCCESS # ACK /\ Fail # ACK
          BY DEF RESET_SUCCESS, ACK, Fail
        <5>3. ASSUME NEW i \in 1 .. Len(Stream') - 1,
                     Stream'[i] \in {ACK, RESEND}
              PROVE  Stream'[i + 1] # ACK
          <6>1. i \in 1 .. Len(Stream) /\ Stream'[i] = Stream[i]
            BY <3>3, <3>4
          <6>2. i + 1 \in 1 .. Len(Stream) /\ Stream[i + 1] \in Tested
            BY <5>1, <5>3, <6>1 DEF ResetAnswer
          <6> QED
            BY <3>3, <5>2, <6>2 DEF Tested
        <5>4. Apart(Stream')
          BY <5>3 DEF Apart
        <5> QED
          BY <5>1, <5>4 DEF AnswerInv
      <4>2. CASE ip = 20
        <5>1. ip' = 21 /\ (Stream # <<>> => Stream[1] # ACK)
          BY <1>1, <1>2, <4>2 DEF AnswerInv
        <5>2. ASSUME scan_set' # 1 PROVE Stream' # <<>> /\ Stream'[1] # ACK
          <6>1. b # ACK
            BY <3>1, <4>2, <5>2
          <6>2. Stream' # <<>>
            BY <3>3, <3>4
          <6>3. CASE Stream = <<>>
            BY <3>3, <3>4, <6>1, <6>2, <6>3
          <6>4. CASE Stream # <<>>
            BY <3>3, <3>4, <5>1, <6>2, <6>4
          <6> QED
            BY <6>3, <6>4
        <5> QED
          BY <5>1, <5>2 DEF AnswerInv
      <4> QED
        BY <2>3, <4>1, <4>2
    <3>7. ASSUME early = 0 PROVE QuietInv'
      <4>1. OnlyAnswers /\ PortInv /\ ~irq /\ got \in {Empty, Key}
        BY <1>1, <2>3, <3>7 DEF QuietInv
      <4>2. OnlyAnswers'
        <5>1. CASE ip = 18
          <6>1. \/ Len(Stream) = 0
                \/ Len(Stream) = 1 /\ Stream[1] \in Tested
                \/ Len(Stream) = 2 /\ Stream[2] \in Tested
            <7>1. \/ Stream = <<>>
                  \/ \E d \in Tested : Stream \in {<<d>>, <<ACK, d>>}
              BY <4>1, <5>1 DEF OnlyAnswers
            <7> QED
              BY <7>1
          <6>2. \/ Len(Stream') = 1
                \/ Stream' # <<>> /\ Stream'[1] \in Tested
                \/ Len(Stream') > 1 /\ Stream'[2] \in Tested
            BY <3>3, <3>4, <6>1
          <6> QED
            BY <1>2, <5>1, <6>2 DEF OnlyAnswers
        <5>2. CASE ip = 20
          <6>1. Stream = <<>> \/ Stream[1] \in Tested
            BY <4>1, <5>2 DEF OnlyAnswers
          <6>2. \/ Len(Stream') = 1
                \/ Stream' # <<>> /\ Stream'[1] \in Tested
            BY <3>3, <3>4, <6>1
          <6> QED
            BY <1>2, <5>2, <6>2 DEF OnlyAnswers
        <5> QED
          BY <2>3, <5>1, <5>2
      <4>3. PortInv'
        BY <1>2, <2>1, <2>3, <4>1 DEF PortInv
      <4> QED
        BY <1>2, <2>3, <4>1, <4>2, <4>3 DEF QuietInv
    <3> QED
      BY <1>2, <3>5, <3>6, <3>7 DEF KbdInv
  <2> QED
    BY <1>7, <2>2, <2>3
<1> QED
  BY <1>2, <1>6, <1>7

\* The calls that only move on, or stop the kernel.
LEMMA CallKeeps ==
    ASSUME KbdInv, Flush \/ Check \/ SetHandler
    PROVE  KbdInv'
<1>1. KbdType /\ AnswerInv /\ (early = 0 => QuietInv)
  BY DEF KbdInv
<1>2. /\ ip \in {3, 17, 22} /\ ip' \in {0, ip + 1}
      /\ ip = 3 => output' = Empty
      /\ ip # 3 => output' = output
      /\ UNCHANGED <<reset_seq, config, port, writing, pend, asked, scan_set>>
      /\ UNCHANGED <<irq, got, early, keys>>
  <2>1. CASE Flush
    BY <1>1, <2>1, AtCall DEF Flush, NextCall, device, count
  <2>2. CASE Check
    BY <1>1, <2>2, AtCall DEF Check, device, count
  <2>3. CASE SetHandler
    BY <1>1, <2>3, AtCall DEF SetHandler, NextCall, device, count
  <2> QED
    BY <2>1, <2>2, <2>3
<1>3. KbdType'
  <2>1. ip' \in 0 .. 28 /\ ip' \notin {7, 26} /\ ip # 0 /\ ip \notin {7, 26}
    BY <1>2
  <2>2. output' \in Byte \cup {Empty}
    BY <1>1, <1>2 DEF KbdType
  <2>3. writing' = (ip' \in {7, 26})
    BY <1>1, <1>2, <2>1 DEF KbdType
  <2> QED
    BY <1>1, <1>2, <2>1, <2>2, <2>3 DEF KbdType
<1>4. ip # 3 => Stream' = Stream
  BY <1>2 DEF Stream
<1>5. ip = 3 => Stream' = pend
  BY <1>2 DEF Stream
<1>6. AnswerInv'
  <2>1. CASE ip = 3
    <3>1. NoAnswer(Stream)
      BY <1>1, <2>1 DEF AnswerInv
    <3>2. NoAnswer(pend)
      <4>1. CASE output = Empty
        BY <3>1, <4>1 DEF Stream
      <4>2. CASE output # Empty
        <5>1. /\ Len(Stream) = Len(pend) + 1
              /\ \A i \in 1 .. Len(pend) : pend[i] = Stream[i + 1]
          BY <1>1, <1>2, <2>1, <4>2, StreamTake
        <5>2. Len(pend) \in Nat
          BY <1>1 DEF KbdType
        <5> QED
          BY <3>1, <5>1, <5>2 DEF NoAnswer
      <4> QED
        BY <4>1, <4>2
    <3>3. ip' \in {0, 4}
      BY <1>2, <2>1
    <3> QED
      BY <1>5, <2>1, <3>2, <3>3 DEF AnswerInv
  <2>2. CASE ip # 3
    BY <1>1, <1>2, <1>4, <2>2 DEF AnswerInv
  <2> QED
    BY <2>1, <2>2
<1>7. ASSUME early = 0 PROVE QuietInv'
  <2>1. OnlyAnswers /\ PortInv /\ ~irq /\ got \in {Empty, Key}
    BY <1>1, <1>2, <1>7 DEF QuietInv
  <2>2. OnlyAnswers'
    <3>1. CASE ip = 3
      BY <1>2, <1>5, <2>1, <3>1 DEF OnlyAnswers
    <3>2. CASE ip = 17
      <4>1. ip' \in {0, 18}
        BY <1>2, <3>2
      <4> QED
        BY <1>4, <2>1, <3>2, <4>1 DEF OnlyAnswers
    <3>3. CASE ip = 22
      <4>1. ip' \in {0, 23} /\ Stream' = <<>>
        BY <1>2, <1>4, <2>1, <3>3 DEF OnlyAnswers
      <4> QED
        BY <4>1 DEF OnlyAnswers
    <3> QED
      BY <1>2, <3>1, <3>2, <3>3
  <2>3. PortInv'
    BY <1>2, <2>1 DEF PortInv
  <2> QED
    BY <1>2, <2>1, <2>2, <2>3 DEF QuietInv
<1> QED
  BY <1>2, <1>3, <1>6, <1>7 DEF KbdInv

\* A call takes a byte: an answer, a configuration, a byte of reset_seq.
Takes ==
    /\ output # Empty /\ output' = Empty
    /\ ip \in {5, 9, 11, 13, 14, 15, 16, 19, 21, 24}
    /\ \/ ip' = 0
       \/ /\ ip' = ip + 1
          /\ ip = 19 => output \in {ACK, RESEND}
          /\ ip = 21 => output = ACK
    /\ UNCHANGED <<port, writing, pend, asked, scan_set, irq, got>>
    /\ UNCHANGED <<early, keys>>
    /\ reset_seq' \in Seq(Byte) /\ config' \in Config
    /\ ip = 24 /\ output = "config" => config' = port

LEMMA TakeKeeps ==
    ASSUME KbdInv, Takes
    PROVE  KbdInv'
<1>1. KbdType /\ AnswerInv /\ (early = 0 => QuietInv)
  BY DEF KbdInv
<1>2. KbdType'
  <2>1. /\ ip' \in 0 .. 28 /\ ip' \notin {7, 26}
        /\ ip # 0 /\ ip \notin {7, 26}
    <3>1. ip \in {5, 9, 11, 13, 14, 15, 16, 19, 21, 24}
      BY DEF Takes
    <3>2. ip' = 0 \/ ip' = ip + 1
      BY DEF Takes
    <3>3. CASE ip' = 0
      BY <3>1, <3>3
    <3>4. CASE ip' = ip + 1
      BY <3>1, <3>4
    <3> QED
      BY <3>2, <3>3, <3>4
  <2>2. writing' = (ip' \in {7, 26})
    BY <1>1, <2>1 DEF KbdType, Takes
  <2> QED
    BY <1>1, <2>1, <2>2 DEF KbdType, Takes
<1>3. /\ Stream \in Seq(Byte) /\ Stream # <<>> /\ Stream[1] = output
      /\ Stream' = pend /\ Len(Stream) = Len(pend) + 1
      /\ \A i \in 1 .. Len(pend) : pend[i] = Stream[i + 1]
  BY <1>1, StreamTake DEF Takes
<1>4. pend \in Seq(Byte) /\ Len(pend) \in Nat
  BY <1>1 DEF KbdType
<1>5. CASE ip' = 0
  <2>1. AnswerInv'
    BY <1>5 DEF AnswerInv
  <2>2. early = 0 => QuietInv'
    BY <1>1, <1>5 DEF QuietInv, OnlyAnswers, PortInv, Takes
  <2> QED
    BY <1>2, <2>1, <2>2 DEF KbdInv, Takes
<1>6. CASE ip' # 0
  <2>1. /\ ip \in {5, 9, 11, 13, 14, 15, 16, 19, 21, 24} /\ ip' = ip + 1
        /\ ip = 19 => output \in {ACK, RESEND}
        /\ ip = 21 => output = ACK
        /\ ip = 24 /\ output = "config" => config' = port
        /\ UNCHANGED <<port, scan_set, irq, got, early>>
    BY <1>6 DEF Takes
  <2>2. AnswerInv'
    <3>1. CASE ip \in {5, 9, 11}
      <4>1. NoAnswer(Stream) /\ ip' \in 1 .. 12
        BY <1>1, <2>1, <3>1 DEF AnswerInv
      <4>2. NoAnswer(pend)
        BY <1>3, <1>4, <4>1 DEF NoAnswer
      <4>3. NoAnswer(Stream')
        BY <1>3, <4>2
      <4> QED
        BY <4>1, <4>3 DEF AnswerInv
    <3>2. CASE ip \in 13 .. 16
      <4>1. ResetAnswer(Stream) /\ ip' \in 14 .. 17
        BY <1>1, <2>1, <3>2 DEF AnswerInv
      <4>2. ResetAnswer(pend)
        <5>1. SUFFICES ASSUME NEW i \in 1 .. Len(pend)
                       PROVE  /\ pend[i] # RESEND
                              /\ pend[i] = ACK =>
                                    /\ i + 1 \in 1 .. Len(pend)
                                    /\ pend[i + 1] \in Tested
          BY DEF ResetAnswer
        <5>2. i + 1 \in 1 .. Len(Stream) /\ pend[i] = Stream[i + 1]
          BY <1>3, <1>4
        <5>3. CASE i = Len(pend)
          BY <1>3, <1>4, <4>1, <5>2, <5>3 DEF ResetAnswer
        <5>4. CASE i + 1 \in 1 .. Len(pend)
          BY <1>3, <1>4, <4>1, <5>2, <5>4 DEF ResetAnswer
        <5> QED
          BY <1>4, <5>3, <5>4
      <4>3. ResetAnswer(Stream')
        BY <1>3, <4>2
      <4> QED
        BY <4>1, <4>3 DEF AnswerInv
    <3>3. CASE ip = 19
      <4>1. Apart(Stream) /\ ip' = 20 /\ output \in {ACK, RESEND}
        BY <1>1, <2>1, <3>3 DEF AnswerInv
      <4>2. ASSUME pend # <<>> PROVE pend[1] # ACK
        <5>1. Len(pend) > 0
          BY <1>4, <4>2
        <5>2. 1 \in 1 .. Len(Stream) - 1 /\ pend[1] = Stream[2]
          BY <1>3, <1>4, <5>1
        <5> QED
          BY <1>3, <4>1, <5>2 DEF Apart
      <4> QED
        BY <1>3, <4>1, <4>2 DEF AnswerInv
    <3>4. CASE ip = 21
      <4>1. scan_set = 1 /\ ip' = 22
        BY <1>1, <1>3, <2>1, <3>4 DEF AnswerInv
      <4> QED
        BY <2>1, <4>1 DEF AnswerInv
    <3>5. CASE ip = 24
      <4>1. scan_set = 1 /\ ip' = 25
        BY <1>1, <2>1, <3>5 DEF AnswerInv
      <4> QED
        BY <2>1, <4>1 DEF AnswerInv
    <3> QED
      BY <2>1, <3>1, <3>2, <3>3, <3>4, <3>5
  <2>3. ASSUME early = 0 PROVE QuietInv'
    <3>1. OnlyAnswers /\ PortInv /\ ~irq /\ got \in {Empty, Key}
      BY <1>1, <2>1, <2>3 DEF QuietInv
    <3>2. ACK \notin Tested /\ RESEND \notin Tested
      BY DEF Tested, ACK, RESEND, RESET_SUCCESS, Fail
    <3>3. OnlyAnswers'
      <4>0. ASSUME Len(Stream) = 2 PROVE pend = <<Stream[2]>>
        <5>1. Len(pend) = 1
          <6>1. PICK n \in Nat : n = Len(pend)
            BY <1>4
          <6>2. n + 1 = 2
            BY <1>3, <4>0, <6>1
          <6>3. n = 1
            BY <6>2
          <6> QED
            BY <6>1, <6>3
        <5>2. pend[1] = Stream[2]
          BY <1>3, <5>1
        <5> QED
          BY <1>4, <5>1, <5>2
      <4>1. CASE ip \in {5, 9, 11, 24}
        <5>1. Len(Stream) = 1
          BY <3>1, <4>1 DEF OnlyAnswers
        <5>2. Stream' = <<>> /\ ip' \in {6, 10, 12, 25}
          BY <1>3, <1>4, <2>1, <4>1, <5>1
        <5> QED
          BY <5>2 DEF OnlyAnswers
      <4>2. CASE ip \in 13 .. 16
        <5>1. PICK d \in Tested : Stream \in {<<d>>, <<ACK, d>>}
          BY <1>3, <3>1, <4>2 DEF OnlyAnswers
        <5>2. pend = <<>> \/ pend = <<d>>
          <6>1. CASE Stream = <<d>>
            BY <1>3, <1>4, <6>1
          <6>2. CASE Stream = <<ACK, d>>
            <7>1. Len(Stream) = 2 /\ Stream[2] = d
              BY <6>2
            <7>2. pend = <<Stream[2]>>
              BY <4>0, <7>1
            <7> QED
              BY <7>1, <7>2
          <6> QED
            BY <5>1, <6>1, <6>2
        <5>3. ip' \in 14 .. 17
          BY <2>1, <4>2
        <5> QED
          BY <1>3, <5>2, <5>3 DEF OnlyAnswers
      <4>3. CASE ip = 19
        <5>1. output \notin Tested /\ ip' = 20
          BY <2>1, <3>2, <4>3
        <5>2. Len(Stream) = 1 \/ (Len(Stream) > 1 /\ Stream[2] \in Tested)
          BY <1>3, <3>1, <4>3, <5>1 DEF OnlyAnswers
        <5>3. pend = <<>> \/ pend[1] \in Tested
          BY <1>3, <1>4, <5>2
        <5> QED
          BY <1>3, <5>1, <5>3 DEF OnlyAnswers
      <4>4. CASE ip = 21
        <5>1. output \notin Tested /\ ip' = 22
          BY <2>1, <3>2, <4>4
        <5>2. Len(Stream) = 1
          BY <1>3, <3>1, <4>4, <5>1 DEF OnlyAnswers
        <5>3. Stream' = <<>>
          BY <1>3, <1>4, <5>2
        <5> QED
          BY <5>1, <5>3 DEF OnlyAnswers
      <4> QED
        BY <2>1, <4>1, <4>2, <4>3, <4>4
    <3>4. PortInv'
      <4>1. ASSUME ip = 24 PROVE config' = Quiet /\ port = Quiet
        <5>1. Stream = <<"config">>
          BY <3>1, <4>1 DEF OnlyAnswers
        <5>2. output = "config"
          BY <1>3, <5>1
        <5> QED
          BY <2>1, <3>1, <4>1, <5>2 DEF PortInv
      <4> QED
        BY <2>1, <3>1, <4>1 DEF PortInv
    <3>5. ip' \in 1 .. 27
      BY <2>1
    <3> QED
      BY <2>1, <3>1, <3>3, <3>4, <3>5 DEF QuietInv
  <2> QED
    BY <1>2, <2>1, <2>2, <2>3 DEF KbdInv
<1> QED
  BY <1>5, <1>6

LEMMA ReadKeeps ==
    ASSUME KbdInv, ReadAnswer \/ ps2_get_controller_config
    PROVE  KbdInv'
<1>1. KbdType
  BY DEF KbdInv
<1>2. CASE ReadAnswer
  <2>1. ip \in {9, 11, 19, 21}
    BY <1>1, <1>2, AtCall DEF ReadAnswer
  <2>2. /\ output # Empty /\ output' = Empty
        /\ ip' = IF output \in Script[ip].ok THEN ip + 1 ELSE 0
        /\ UNCHANGED <<reset_seq, config, port, writing, pend, asked>>
        /\ UNCHANGED <<scan_set, irq, got, early, keys>>
    BY <1>2 DEF ReadAnswer, device, count
  <2>3. /\ ip = 19 => Script[ip].ok = {ACK, RESEND}
        /\ ip = 21 => Script[ip].ok = {ACK}
    BY ScriptArguments
  <2>4. reset_seq' \in Seq(Byte) /\ config' \in Config
    BY <1>1, <2>2 DEF KbdType
  <2>5. Takes
    BY <2>1, <2>2, <2>3, <2>4 DEF Takes
  <2> QED
    BY <2>5, TakeKeeps
<1>3. CASE ps2_get_controller_config
  <2>1. ip \in {5, 24}
    BY <1>1, <1>3, AtCall DEF ps2_get_controller_config
  <2>2. /\ output # Empty /\ output' = Empty /\ ip' = ip + 1
        /\ config' \in IF output = "config" THEN {port} ELSE Config
        /\ UNCHANGED <<reset_seq, port, writing, pend, asked, scan_set>>
        /\ UNCHANGED <<irq, got, early, keys>>
    BY <1>3 DEF ps2_get_controller_config, NextCall, device, count
  <2>3. reset_seq' \in Seq(Byte) /\ config' \in Config
    BY <1>1, <2>2 DEF KbdType
  <2>4. Takes
    BY <2>1, <2>2, <2>3 DEF Takes
  <2> QED
    BY <2>4, TakeKeeps
<1> QED
  BY <1>2, <1>3

\* A timeout leaves the rest of the answer to the reset.
LEMMA TimedReadKeeps ==
    ASSUME KbdInv, TimedRead
    PROVE  KbdInv'
<1>1. KbdType /\ AnswerInv /\ (early = 0 => QuietInv)
  BY DEF KbdInv
<1>2. /\ ip \in 13 .. 16
      /\ UNCHANGED <<config, port, writing, pend, asked, scan_set>>
      /\ UNCHANGED <<irq, got, early, keys>>
  BY <1>1, AtCall DEF TimedRead, device, count
<1>3. CASE output # Empty /\ output' = Empty /\ ip' = ip + 1
           /\ reset_seq' = Append(reset_seq, output)
  <2>1. reset_seq' \in Seq(Byte) /\ config' \in Config
    BY <1>1, <1>2, <1>3 DEF KbdType
  <2>2. Takes
    BY <1>2, <1>3, <2>1 DEF Takes
  <2> QED
    BY <2>2, TakeKeeps
<1>4. CASE /\ ip' = CHOOSE i \in 1 .. Len(Script) : Script[i].op = "check"
           /\ UNCHANGED <<reset_seq, output>>
  <2>1. ip' = 17
    <3>1. \A i \in 1 .. Len(Script) : Script[i].op = "check" <=> i = 17
      BY ScriptCalls, ScriptArguments
    <3>2. 17 \in 1 .. Len(Script)
      BY ScriptCalls
    <3> QED
      BY <1>4, <3>1, <3>2
  <2>2. Stream' = Stream
    BY <1>2, <1>4 DEF Stream
  <2>3. KbdType'
    <3>1. /\ ip' \in 0 .. 28 /\ ip' \notin {7, 26}
          /\ ip # 0 /\ ip \notin {7, 26}
      BY <1>2, <2>1
    <3>2. writing' = (ip' \in {7, 26})
      BY <1>1, <1>2, <3>1 DEF KbdType
    <3> QED
      BY <1>1, <1>2, <1>4, <3>1, <3>2 DEF KbdType
  <2>4. AnswerInv'
    BY <1>1, <1>2, <2>1, <2>2 DEF AnswerInv
  <2>5. ASSUME early = 0 PROVE QuietInv'
    <3>1. OnlyAnswers /\ PortInv /\ ~irq /\ got \in {Empty, Key}
      BY <1>1, <1>2, <2>5 DEF QuietInv
    <3>2. OnlyAnswers'
      BY <1>2, <2>1, <2>2, <3>1 DEF OnlyAnswers
    <3>3. PortInv'
      BY <1>2, <2>1, <3>1 DEF PortInv
    <3> QED
      BY <1>2, <2>1, <3>1, <3>2, <3>3 DEF QuietInv
  <2> QED
    BY <1>2, <2>3, <2>4, <2>5 DEF KbdInv
<1> QED
  BY <1>3, <1>4 DEF TimedRead, NextCall

\* The keyboard sends a byte, or a key is pressed.
LEMMA KeyboardKeeps ==
    ASSUME KbdInv, KeyboardSends \/ PressKey
    PROVE  KbdInv'
<1>1. KbdType /\ AnswerInv /\ (early = 0 => QuietInv)
  BY DEF KbdInv
<1>2. /\ pend \in Seq(Byte) /\ irq \in BOOLEAN /\ early \in Nat /\ keys \in Nat
      /\ output \in Byte \cup {Empty} /\ port \in Config
  BY <1>1 DEF KbdType
<1>3. CASE KeyboardSends
  <2>1. /\ pend # <<>> /\ output = Empty /\ ~port.off
        /\ output' = Head(pend) /\ pend' = Tail(pend)
        /\ irq' = (irq \/ (port.interrupt /\ ~port.off))
        /\ UNCHANGED <<ip, reset_seq, config, port, writing, asked, scan_set>>
        /\ UNCHANGED <<got, early, keys>>
    BY <1>3 DEF KeyboardSends, Arrives, device, count
  <2>2. Head(pend) \in Byte /\ Tail(pend) \in Seq(Byte)
    BY <1>2, <2>1
  <2>3. KbdType'
    <3>1. irq' \in BOOLEAN
      BY <1>2, <2>1
    <3> QED
      BY <1>1, <2>1, <2>2, <3>1 DEF KbdType
  <2>4. Stream' = Stream
    BY <1>1, <2>1, StreamSend
  <2>5. AnswerInv'
    BY <1>1, <2>1, <2>4 DEF AnswerInv
  <2>6. ASSUME early = 0 PROVE QuietInv'
    <3>1. QuietInv
      BY <1>1, <2>6
    <3>2. OnlyAnswers'
      <4>1. ip \notin {1, 2, 3}
        BY <2>1, <3>1 DEF QuietInv, OnlyAnswers
      <4> QED
        BY <2>1, <2>4, <3>1, <4>1 DEF QuietInv, OnlyAnswers
    <3>3. PortInv'
      BY <2>1, <3>1 DEF QuietInv, PortInv
    <3>4. ip \in 1 .. 27 => ~irq'
      <4>1. ASSUME ip \in 1 .. 27 PROVE ~port.interrupt /\ ~irq
        <5>1. Stream # <<>>
          BY <1>1, <2>1, StreamIs
        <5>2. ip \in 8 .. 26
          BY <2>1, <3>1, <4>1, <5>1 DEF QuietInv, OnlyAnswers, PortInv
        <5> QED
          BY <3>1, <4>1, <5>2 DEF QuietInv, PortInv, Quiet
      <4> QED
        BY <2>1, <4>1
    <3>5. output' # Empty
      BY <2>1, <2>2 DEF Byte, Empty, ACK, RESEND, RESET_SUCCESS, Fail, Key
    <3> QED
      BY <2>1, <3>1, <3>2, <3>3, <3>4, <3>5 DEF QuietInv
  <2> QED
    BY <2>1, <2>3, <2>5, <2>6 DEF KbdInv
<1>4. CASE PressKey
  <2>1. /\ ip # 0 /\ pend' = Append(pend, Key)
        /\ UNCHANGED <<ip, reset_seq, config, port, writing, output, asked>>
        /\ UNCHANGED <<scan_set, irq, got>>
    BY <1>4 DEF PressKey, device
  <2>2. /\ early' \in Nat /\ keys' \in Nat
        /\ early' = 0 => early = 0 /\ ip = 28
    <3>1. Done <=> ip = 28
      BY <1>1, AtCall
    <3> QED
      BY <1>2, <1>4, <3>1 DEF PressKey
  <2>3. Key \in Byte /\ Key # ACK /\ Key # RESEND
    BY DEF Byte, Key, ACK, RESEND
  <2>4. KbdType'
    <3>1. pend' \in Seq(Byte)
      BY <1>2, <2>1, <2>3
    <3> QED
      BY <1>1, <2>1, <2>2, <3>1 DEF KbdType
  <2>5. /\ Stream \in Seq(Byte) /\ Stream' \in Seq(Byte)
        /\ Len(Stream') = Len(Stream) + 1 /\ Stream'[Len(Stream')] = Key
        /\ \A i \in 1 .. Len(Stream) : Stream'[i] = Stream[i]
    BY <1>1, <2>1, <2>3, StreamPut
  <2>6. Len(Stream) \in Nat /\ (Stream = <<>> <=> Len(Stream) = 0)
    BY <2>5
  <2>7. AnswerInv'
    <3>1. NoAnswer(Stream) => NoAnswer(Stream')
      BY <2>3, <2>5, <2>6 DEF NoAnswer
    <3>2. ResetAnswer(Stream) => ResetAnswer(Stream')
      <4>1. SUFFICES ASSUME ResetAnswer(Stream), NEW i \in 1 .. Len(Stream')
                     PROVE  /\ Stream'[i] # RESEND
                            /\ Stream'[i] = ACK =>
                                  /\ i + 1 \in 1 .. Len(Stream')
                                  /\ Stream'[i + 1] \in Tested
        BY DEF ResetAnswer
      <4>2. CASE i = Len(Stream')
        BY <2>3, <2>5, <4>2
      <4>3. CASE i # Len(Stream')
        <5>1. i \in 1 .. Len(Stream) /\ Stream'[i] = Stream[i]
          BY <2>5, <2>6, <4>3
        <5> QED
          BY <2>5, <2>6, <4>1, <5>1 DEF ResetAnswer
      <4> QED
        BY <4>2, <4>3
    <3>3. Apart(Stream) => Apart(Stream')
      <4>1. SUFFICES ASSUME Apart(Stream), NEW i \in 1 .. Len(Stream') - 1,
                            Stream'[i] \in {ACK, RESEND}
                     PROVE  Stream'[i + 1] # ACK
        BY DEF Apart
      <4>2. CASE i + 1 = Len(Stream')
        BY <2>3, <2>5, <4>2
      <4>3. CASE i + 1 # Len(Stream')
        <5>1. /\ i \in 1 .. Len(Stream) - 1
              /\ Stream'[i] = Stream[i] /\ Stream'[i + 1] = Stream[i + 1]
          BY <2>5, <2>6, <4>3
        <5> QED
          BY <4>1, <5>1 DEF Apart
      <4> QED
        BY <4>2, <4>3
    <3>4. /\ Stream' # <<>>
          /\ Stream # <<>> => Stream'[1] = Stream[1]
          /\ Stream = <<>> => Stream'[1] = Key
      BY <2>5, <2>6
    <3> QED
      BY <1>1, <2>1, <2>3, <3>1, <3>2, <3>3, <3>4 DEF AnswerInv
  <2>8. ASSUME early' = 0 PROVE QuietInv'
    <3>1. QuietInv /\ ip = 28
      BY <1>1, <2>2, <2>8
    <3>2. OnlyAnswers'
      <4>1. \A i \in 1 .. Len(Stream) : Stream[i] = Key
        BY <3>1 DEF QuietInv, OnlyAnswers
      <4>2. \A i \in 1 .. Len(Stream') : Stream'[i] = Key
        BY <2>5, <2>6, <4>1
      <4> QED
        BY <2>1, <3>1, <4>2 DEF OnlyAnswers
    <3>3. PortInv'
      BY <2>1, <3>1 DEF QuietInv, PortInv
    <3> QED
      BY <2>1, <3>1, <3>2, <3>3 DEF QuietInv
  <2> QED
    BY <2>4, <2>7, <2>8 DEF KbdInv
<1> QED
  BY <1>3, <1>4

\* The handler takes what is first in the buffer.
LEMMA HandlerKeeps ==
    ASSUME KbdInv, ps2_irq_handler
    PROVE  KbdInv'
<1>1. KbdType /\ AnswerInv /\ (early = 0 => QuietInv)
  BY DEF KbdInv
<1>2. /\ ip = 28 /\ output # Empty /\ got' = output /\ output' = Empty
      /\ irq' = FALSE
      /\ UNCHANGED <<ip, reset_seq, config, port, writing, pend, asked>>
      /\ UNCHANGED <<scan_set, early, keys>>
  BY <1>1, AtCall DEF ps2_irq_handler, device, count
<1>3. KbdType'
  BY <1>1, <1>2 DEF KbdType
<1>4. /\ Stream \in Seq(Byte) /\ Stream # <<>> /\ Stream[1] = output
      /\ Stream' = pend /\ Len(Stream) = Len(pend) + 1
      /\ \A i \in 1 .. Len(pend) : pend[i] = Stream[i + 1]
  BY <1>1, <1>2, StreamTake
<1>5. AnswerInv'
  BY <1>1, <1>2 DEF AnswerInv
<1>6. ASSUME early = 0 PROVE QuietInv'
  <2>1. \A i \in 1 .. Len(Stream) : Stream[i] = Key
    BY <1>1, <1>2, <1>6 DEF QuietInv, OnlyAnswers
  <2>2. Len(pend) \in Nat
    BY <1>1 DEF KbdType
  <2>3. \A i \in 1 .. Len(pend) : pend[i] = Key
    BY <1>4, <2>1, <2>2
  <2>4. OnlyAnswers'
    BY <1>2, <1>4, <2>3 DEF OnlyAnswers
  <2>5. got' = Key
    BY <1>2, <1>4, <2>1, <2>2
  <2>6. PortInv'
    BY <1>1, <1>2, <1>6 DEF QuietInv, PortInv
  <2> QED
    BY <1>2, <2>4, <2>5, <2>6 DEF QuietInv
<1> QED
  BY <1>2, <1>3, <1>5, <1>6 DEF KbdInv

\* ps2_initialize, the keyboard and the handler keep the invariant.
LEMMA KbdSteps ==
    ASSUME KbdInv, [KbdNext]_kbdVars
    PROVE  KbdInv'
<1>1. CASE UNCHANGED kbdVars
  <2>1. Stream' = Stream
    BY <1>1 DEF kbdVars, Stream
  <2>2. KbdType'
    BY <1>1 DEF kbdVars, KbdInv, KbdType
  <2>3. AnswerInv'
    BY <1>1, <2>1 DEF kbdVars, KbdInv, AnswerInv
  <2>4. early = 0 => OnlyAnswers' /\ PortInv'
    BY <1>1, <2>1 DEF kbdVars, KbdInv, QuietInv, OnlyAnswers, PortInv
  <2> QED
    BY <1>1, <2>2, <2>3, <2>4 DEF kbdVars, KbdInv, QuietInv
<1> QED
  BY <1>1, CommandKeeps, DataKeeps, CallKeeps, ReadKeeps, TimedReadKeeps,
     KeyboardKeeps, HandlerKeeps DEF KbdNext, ps2_initialize

\* A key may wait before ps2_initialize starts, no answer does.
LEMMA KbdStart ==
    ASSUME KbdInit
    PROVE  KbdInv
<1>1. KbdType
  <2>1. ip \in 0 .. 28 /\ ip \notin {7, 26} /\ early \in Nat /\ keys \in Nat
    BY DEF KbdInit
  <2>2. reset_seq \in Seq(Byte) /\ pend \in Seq(Byte)
    BY DEF KbdInit
  <2>3. output \in Byte \cup {Empty} /\ scan_set \in {1, 2}
    BY DEF KbdInit, Byte
  <2>4. writing = (ip \in {7, 26})
    <3>1. writing \in BOOLEAN /\ ~writing
      BY DEF KbdInit
    <3> QED
      BY <2>1, <3>1
  <2>5. /\ config \in Config /\ port \in Config
        /\ asked \in BOOLEAN /\ irq \in BOOLEAN
    BY DEF KbdInit
  <2> QED
    BY <2>1, <2>2, <2>3, <2>4, <2>5 DEF KbdType
<1>2. /\ ip = 1 /\ pend = <<>> /\ output \in {Empty, Key} /\ ~irq
      /\ got = Empty
  BY DEF KbdInit
<1>3. Stream = <<>> \/ Stream = <<Key>>
  <2>1. CASE output = Empty
    BY <1>2, <2>1 DEF Stream
  <2>2. CASE output = Key /\ Key # Empty
    BY <1>2, <2>2 DEF Stream
  <2> QED
    BY <1>2, <2>1, <2>2
<1>4. NoAnswer(Stream)
  BY <1>3 DEF NoAnswer, Key, ACK, RESEND
<1>5. AnswerInv
  BY <1>2, <1>4 DEF AnswerInv
<1>6. QuietInv
  BY <1>2 DEF QuietInv, OnlyAnswers, PortInv
<1> QED
  BY <1>1, <1>5, <1>6 DEF KbdInv

\* ps2_initialize ends with the keyboard in scan set 1, for any number of keys
\* pressed meanwhile, any answers and any timeouts.
THEOREM KeyboardInSet1 == KbdSpec => []ScanSet1
<1>1. KbdInit => KbdInv
  BY KbdStart
<1>2. KbdInv /\ [KbdNext]_kbdVars => KbdInv'
  BY KbdSteps
<1>3. KbdInv => ScanSet1
  BY AtCall DEF KbdInv, AnswerInv, ScanSet1
<1> QED
  BY <1>1, <1>2, <1>3, PTL DEF KbdSpec

\* When no key is pressed too early the port and the handler end up ready, and
\* the handler gets keys only.
THEOREM PortIsReady == KbdSpec => []ReadyForKeys
<1>1. KbdInit => KbdInv
  BY KbdStart
<1>2. KbdInv /\ [KbdNext]_kbdVars => KbdInv'
  BY KbdSteps
<1>3. KbdInv => ReadyForKeys
  <2>1. SUFFICES ASSUME KbdInv, early = 0 PROVE WellConfigured /\ OnlyKeys
    BY DEF ReadyForKeys
  <2>2. QuietInv /\ (Done <=> ip = 28)
    BY <2>1, AtCall DEF KbdInv
  <2>3. ip = 28 => port = Loud
    BY <2>2 DEF QuietInv, PortInv
  <2> QED
    BY <2>2, <2>3 DEF QuietInv, WellConfigured, OnlyKeys, Loud, Quiet
<1> QED
  BY <1>1, <1>2, <1>3, PTL DEF KbdSpec

\* When no key is pressed too early ps2_irq_handler never waits for a byte.
THEOREM HandlerNeverWaits == KbdSpec => []HandlerHasByte
<1>1. KbdInit => KbdInv
  BY KbdStart
<1>2. KbdInv /\ [KbdNext]_kbdVars => KbdInv'
  BY KbdSteps
<1>3. KbdInv => HandlerHasByte
  BY AtCall DEF KbdInv, QuietInv, HandlerHasByte
<1> QED
  BY <1>1, <1>2, <1>3, PTL DEF KbdSpec
=============================================================================
