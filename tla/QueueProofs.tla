---------------------------- MODULE QueueProofs -----------------------------
(***************************************************************************)
(* A ring of any size is a first-in first-out queue of one character less, *)
(* and the circular lists of any number of process nodes are the sequences *)
(* the scheduler's model is written with.                                  *)
(***************************************************************************)
EXTENDS RingBuffer, ProcQueue, QueueLemmas

\* The pointers of ring_buffer.c always point into buff.
THEOREM RingTypeCorrect == Spec => []TypeOK
<1>1. Init => TypeOK
  BY RingAssumption DEF Init, TypeOK, Ring, ring_init
<1>2. TypeOK /\ [Next]_vars => TypeOK'
  <2> SUFFICES ASSUME TypeOK, [Next]_vars PROVE TypeOK'
    OBVIOUS
  <2>1. ASSUME NEW c \in Char, ProducerAddChar(c) PROVE TypeOK'
    <3>1. Advance(ring.producer) \in 0 .. BUFF_SIZE - 1
      BY AdvanceType DEF TypeOK, Ring
    <3>2. ring_put(ring, c) \in Ring
      BY <3>1 DEF ring_put, TypeOK, Ring
    <3> QED
      BY <2>1, <3>2 DEF ProducerAddChar, ring_producer_add_char, TypeOK
  <2>2. CASE ConsumerNext
    <3>1. Advance(ring.consumer) \in 0 .. BUFF_SIZE - 1
      BY AdvanceType DEF TypeOK, Ring
    <3>2. ring_take(ring) \in Ring /\ ring_peek(ring) \in Char
      BY <3>1 DEF ring_take, ring_peek, TypeOK, Ring
    <3> QED
      BY <2>2, <3>2 DEF ConsumerNext, TypeOK
  <2>3. CASE UNCHANGED vars
    BY <2>3 DEF vars, TypeOK
  <2> QED
    BY <2>1, <2>2, <2>3 DEF Next
<1> QED
  BY <1>1, <1>2, PTL DEF Spec

\* The ring of ring_buffer.c implements the bounded queue, for every size.
THEOREM RingImplementsFifo == Spec => ImplementsFifo
<1>1. Init => Fifo!Init
  <2> SUFFICES ASSUME Init PROVE Contents(ring) = <<>>
    BY DEF Init, Fifo!Init
  <2>1. ring \in Ring /\ Unread(ring) = 0
    BY RingAssumption DEF Init, ring_init, Ring, Unread
  <2> QED
    BY <2>1, ContentsType
<1>2. TypeOK /\ [Next]_vars => [Fifo!Next]_(Fifo!vars)
  <2> SUFFICES ASSUME TypeOK, [Next]_vars PROVE [Fifo!Next]_(Fifo!vars)
    OBVIOUS
  <2> USE DEF TypeOK
  <2>1. ASSUME NEW c \in Char, ProducerAddChar(c), ring_full(ring)
        PROVE  Fifo!RefusePut
    <3>1. Len(Contents(ring)) = BUFF_SIZE - 1
      BY <2>1, UnreadBounds, ContentsType
    <3> QED
      BY <2>1, <3>1 DEF ProducerAddChar, ring_producer_add_char, Fifo!RefusePut
  <2>2. ASSUME NEW c \in Char, ProducerAddChar(c), ~ring_full(ring)
        PROVE  Fifo!Put(c)
    <3>1. Len(Contents(ring)) < BUFF_SIZE - 1
      BY <2>2, UnreadBounds, ContentsType, RingAssumption
    <3>2. ring' = ring_put(ring, c)
      BY <2>2 DEF ProducerAddChar, ring_producer_add_char
    <3>3. Contents(ring)' = Append(Contents(ring), c)
      BY <2>2, <3>2, PutAppends
    <3> QED
      BY <2>2, <3>1, <3>3 DEF ProducerAddChar, Fifo!Put
  <2>3. CASE ConsumerNext /\ ring_empty(ring)
    <3>1. Contents(ring) = <<>>
      BY <2>3, UnreadBounds, ContentsType
    <3> QED
      BY <2>3, <3>1 DEF ConsumerNext, Fifo!RefuseGet, Fifo!Next
  <2>4. CASE ConsumerNext /\ ~ring_empty(ring)
    <3>1. ring' = ring_take(ring) /\ got' = ring_peek(ring) /\ ok' = TRUE
      BY <2>4 DEF ConsumerNext
    <3>2. Contents(ring)' = Tail(Contents(ring))
      BY <2>4, <3>1, TakeRemovesHead
    <3> QED
      BY <2>4, <3>1, <3>2, TakeRemovesHead DEF Fifo!Get, Fifo!Next
  <2>5. CASE UNCHANGED vars
    BY <2>5 DEF vars, Fifo!vars
  <2> QED
    BY <2>1, <2>2, <2>3, <2>4, <2>5 DEF Next, Fifo!Next
<1> QED
  BY <1>1, <1>2, RingTypeCorrect, PTL DEF Spec, ImplementsFifo, Fifo!Spec

-----------------------------------------------------------------------------
(* The process queues.                                                     *)

Heap == [head : [Queue -> Pointer], next : [Node -> Pointer],
         prev : [Node -> Pointer]]

\* Circle(q), of any heap h and sequence s.
Circ(h, s, q) ==
    /\ h.head[q] = IF Len(s) = 0 THEN NULL ELSE s[1]
    /\ \A i \in 1 .. Len(s) : /\ h.next[s[i]] = After(s, i)
                              /\ h.prev[After(s, i)] = s[i]

Apart(s, t) == \A i \in 1 .. Len(s), j \in 1 .. Len(t) : s[i] # t[j]

\* Represents, of any heap and sequences.
Circles(h, S) == \A q \in Queue : Circ(h, S[q], q)

Parted(S) == /\ \A q \in Queue : Distinct(S[q])
             /\ \A p \in Queue : \A q \in Queue \ {p} : Apart(S[p], S[q])

QueueSeqs == [Queue -> Seq(Node)]

QueueType == heap \in Heap /\ tmp \in Pointer /\ seq \in QueueSeqs

QueueInv == QueueType /\ Represents

\* The place before place i of a circle of k nodes.
Pred(k, i) == IF i = 1 THEN k ELSE i - 1

\* After runs through the circle, and Pred runs back.
LEMMA Around ==
    ASSUME NEW s \in Seq(Node), NEW i \in 1 .. Len(s)
    PROVE  /\ After(s, i) \in Node /\ s[i] \in Node
           /\ Pred(Len(s), i) \in 1 .. Len(s)
           /\ After(s, Pred(Len(s), i)) = s[i]
           /\ \E j \in 1 .. Len(s) : After(s, i) = s[j] /\ Pred(Len(s), j) = i
<1>1. Len(s) \in Nat /\ 1 \in 1 .. Len(s)
  OBVIOUS
<1>2. CASE i = Len(s)
  BY <1>1, <1>2 DEF After, Pred
<1>3. CASE i # Len(s)
  <2>1. i + 1 \in 1 .. Len(s) /\ i + 1 # 1 /\ i + 1 - 1 = i
    BY <1>1, <1>3
  <2>2. After(s, i) = s[i + 1] /\ Pred(Len(s), i + 1) = i
    BY <1>3, <2>1 DEF After, Pred
  <2>3. Pred(Len(s), i) \in 1 .. Len(s) /\ After(s, Pred(Len(s), i)) = s[i]
    BY <1>1, <1>3 DEF After, Pred
  <2> QED
    BY <2>1, <2>2, <2>3
<1> QED
  BY <1>2, <1>3

\* append_proc closes the circle around one node more.
LEMMA LinkLastCircle ==
    ASSUME NEW h \in Heap, NEW s \in Seq(Node), NEW n \in Node,
           NEW q \in Queue, Distinct(s), ~InQueue(n, s), Circ(h, s, q)
    PROVE  /\ LinkLast(h, n, q) \in Heap
           /\ Circ(LinkLast(h, n, q), append_proc(s, n), q)
<1> DEFINE u == append_proc(s, n)
           g == LinkLast(h, n, q)
           k == Len(s)
<1> USE ProcQueueAssumption
<1>1. /\ u \in Seq(Node) /\ Len(u) = k + 1 /\ u[k + 1] = n /\ k \in Nat
      /\ \A i \in 1 .. k : u[i] = s[i] /\ s[i] \in Node /\ s[i] # n
  BY DEF append_proc, InQueue
<1>2. CASE k = 0
  <2>1. h.head[q] = NULL
    BY <1>2 DEF Circ
  <2>2. g = [h EXCEPT !.next[n] = n, !.prev[n] = n, !.head[q] = n]
    BY <2>1 DEF LinkLast
  <2> HIDE DEF g
  <2>3. /\ g \in Heap /\ g.next[n] = n /\ g.prev[n] = n /\ g.head[q] = n
    BY <2>2 DEF Heap, Pointer
  <2> HIDE DEF g, u
  <2>4. Len(u) = 1 /\ u[1] = n /\ \A i \in 1 .. Len(u) : i = 1
    BY <1>1, <1>2
  <2>5. Circ(g, u, q)
    BY <2>3, <2>4 DEF Circ, After
  <2> QED
    BY <2>3, <2>5 DEF g, u
<1>3. CASE k > 0
  <2> DEFINE a == s[1]
             z == s[k]
  <2>1. 1 \in 1 .. k /\ k \in 1 .. k /\ a \in Node /\ z \in Node
    BY <1>1, <1>3
  <2>2. h.head[q] = a /\ h.prev[a] = z /\ a # NULL
    BY <1>3, <2>1 DEF Circ, After
  <2>3. /\ g \in Heap /\ g.head = h.head
        /\ g.prev = [h.prev EXCEPT ![n] = z, ![a] = n]
        /\ g.next = [h.next EXCEPT ![n] = a, ![z] = n]
    BY <2>1, <2>2 DEF LinkLast, Heap, Pointer
  <2>4. /\ g.prev[n] = z /\ g.prev[a] = n /\ g.next[n] = a /\ g.next[z] = n
        /\ \A x \in Node : x # n /\ x # a => g.prev[x] = h.prev[x]
        /\ \A x \in Node : x # n /\ x # z => g.next[x] = h.next[x]
    BY <1>1, <2>1, <2>3 DEF Heap
  <2> HIDE DEF g, u
  <2>5. ASSUME NEW i \in 1 .. Len(u)
        PROVE  g.next[u[i]] = After(u, i) /\ g.prev[After(u, i)] = u[i]
    <3>1. CASE i = k + 1
      BY <1>1, <2>1, <2>4, <3>1 DEF After
    <3>2. CASE i = k
      BY <1>1, <1>3, <2>1, <2>4, <3>2 DEF After
    <3>3. CASE i \in 1 .. k - 1
      <4>1. i \in 1 .. k /\ i + 1 \in 1 .. k /\ i # k /\ i + 1 # 1 /\ i # k + 1
        BY <1>1, <3>3
      <4>2. After(u, i) = s[i + 1] /\ After(s, i) = s[i + 1] /\ u[i] = s[i]
        BY <1>1, <4>1 DEF After
      <4>3. s[i] # z /\ s[i + 1] # a /\ s[i] # n /\ s[i + 1] # n
        BY <1>1, <2>1, <4>1 DEF Distinct
      <4>4. h.next[s[i]] = s[i + 1] /\ h.prev[s[i + 1]] = s[i]
        BY <4>1, <4>2 DEF Circ
      <4> QED
        BY <1>1, <2>4, <4>1, <4>2, <4>3, <4>4
    <3> QED
      BY <1>1, <3>1, <3>2, <3>3
  <2>6. g.head[q] = u[1] /\ Len(u) # 0
    BY <1>1, <2>1, <2>2, <2>3
  <2> QED
    BY <2>3, <2>5, <2>6 DEF Circ, g, u
<1> QED
  BY <1>1, <1>2, <1>3

\* It leaves every other circle alone.
LEMMA LinkLastOther ==
    ASSUME NEW h \in Heap, NEW s \in Seq(Node), NEW n \in Node,
           NEW q \in Queue, Circ(h, s, q),
           NEW p \in Queue \ {q}, NEW t \in Seq(Node), Circ(h, t, p),
           Apart(t, s), ~InQueue(n, t)
    PROVE  Circ(LinkLast(h, n, q), t, p)
<1> DEFINE g == LinkLast(h, n, q)
<1> USE ProcQueueAssumption
<1>1. /\ g.head[p] = h.head[p]
      /\ \A i \in 1 .. Len(t) : /\ g.next[t[i]] = h.next[t[i]]
                                /\ g.prev[t[i]] = h.prev[t[i]]
  <2>1. \A i \in 1 .. Len(t) : t[i] # n /\ t[i] \in Node
    BY DEF InQueue
  <2>2. CASE Len(s) = 0
    <3>1. g = [h EXCEPT !.next[n] = n, !.prev[n] = n, !.head[q] = n]
      BY <2>2 DEF LinkLast, Circ
    <3> QED
      BY <2>1, <3>1 DEF Heap
  <2>3. CASE Len(s) > 0
    <3> DEFINE a == s[1]
               z == s[Len(s)]
    <3>1. 1 \in 1 .. Len(s) /\ Len(s) \in 1 .. Len(s)
      BY <2>3
    <3>2. h.head[q] = a /\ h.prev[a] = z /\ a \in Node /\ z \in Node
      BY <2>3, <3>1 DEF Circ, After
    <3>3. /\ g.head = h.head
          /\ g.prev = [h.prev EXCEPT ![n] = z, ![a] = n]
          /\ g.next = [h.next EXCEPT ![n] = a, ![z] = n]
      BY <3>2 DEF LinkLast, Heap
    <3>4. \A i \in 1 .. Len(t) : t[i] # a /\ t[i] # z
      BY <3>1 DEF Apart
    <3> QED
      BY <2>1, <3>3, <3>4 DEF Heap
  <2> QED
    BY <2>2, <2>3
<1> HIDE DEF g
<1>2. ASSUME NEW i \in 1 .. Len(t)
      PROVE  g.prev[After(t, i)] = h.prev[After(t, i)]
  <2>1. PICK j \in 1 .. Len(t) : After(t, i) = t[j]
    BY Around
  <2> QED
    BY <1>1, <2>1
<1> QED
  BY <1>1, <1>2 DEF Circ, g

\* The two neighbours of a node in the heap are its neighbours in the
\* sequence; a node that is its own neighbour is alone.
LEMMA Neighbours ==
    ASSUME NEW h, NEW s \in Seq(Node), NEW q, NEW n,
           Distinct(s), InQueue(n, s), Circ(h, s, q)
    PROVE  LET p == Pos(s, n)
           IN /\ p \in 1 .. Len(s) /\ s[p] = n
              /\ h.prev[n] = s[Pred(Len(s), p)] /\ h.next[n] = After(s, p)
              /\ n = h.prev[n] <=> Len(s) = 1
<1> DEFINE p == Pos(s, n)
           r == Pred(Len(s), p)
<1>1. p \in 1 .. Len(s) /\ s[p] = n
  BY PosIsPlace
<1> HIDE DEF p
<1>2. r \in 1 .. Len(s) /\ After(s, r) = n
  BY <1>1, Around
<1>3. h.prev[n] = s[r] /\ h.next[n] = After(s, p)
  BY <1>1, <1>2 DEF Circ
<1>4. n = s[r] <=> p = r
  BY <1>1, <1>2 DEF Distinct
<1>5. p = r <=> Len(s) = 1
  <2>1. Len(s) \in Nat
    OBVIOUS
  <2>2. \A k \in Nat : \A i \in 1 .. k : i = Pred(k, i) <=> k = 1
    BY DEF Pred
  <2> QED
    BY <1>1, <2>1, <2>2, Zenon
<1> QED
  BY <1>1, <1>3, <1>4, <1>5 DEF p

\* unlink_proc closes the circle of the others.
LEMMA UnlinkCircle ==
    ASSUME NEW h \in Heap, NEW s \in Seq(Node), NEW n \in Node,
           NEW q \in Queue, Distinct(s), InQueue(n, s), Circ(h, s, q)
    PROVE  /\ Unlink(h, n, q) \in Heap
           /\ Circ(Unlink(h, n, q), unlink_proc(s, n), q)
<1> DEFINE u == unlink_proc(s, n)
           g == Unlink(h, n, q)
           k == Len(s)
           p == Pos(s, n)
<1> USE ProcQueueAssumption
<1>1. /\ p \in 1 .. k /\ s[p] = n /\ k \in Nat
      /\ h.prev[n] = s[Pred(k, p)] /\ h.next[n] = After(s, p)
      /\ n = h.prev[n] <=> k = 1
  BY Neighbours
<1>2. /\ u \in Seq(Node) /\ Len(u) = k - 1
      /\ \A i \in 1 .. k - 1 : u[i] = IF i < p THEN s[i] ELSE s[i + 1]
  BY <1>1, UnlinkType DEF unlink_proc
<1> HIDE DEF p, u
<1>3. CASE k = 1
  <2>1. g = [h EXCEPT !.head[q] = NULL] /\ Len(u) = 0
    BY <1>1, <1>2, <1>3 DEF Unlink
  <2> HIDE DEF g
  <2>2. g \in Heap /\ g.head[q] = NULL
    BY <2>1 DEF Heap, Pointer
  <2>3. Circ(g, u, q)
    BY <2>1, <2>2 DEF Circ
  <2> QED
    BY <2>2, <2>3 DEF g, u
<1>4. CASE k > 1
  <2> DEFINE a == h.prev[n]
             z == h.next[n]
  <2>1. /\ a \in Node /\ z \in Node /\ n # a
        /\ Pred(k, p) \in 1 .. k
    <3>1. Pred(k, p) \in 1 .. k /\ After(s, p) \in Node
      BY <1>1, Around
    <3>2. s[Pred(k, p)] \in Node
      BY <3>1
    <3>3. k # 1
      <4> HIDE DEF k
      <4> QED
        BY <1>1, <1>4
    <3> QED
      BY <1>1, <3>1, <3>2, <3>3, Zenon
  <2>2. /\ g \in Heap
        /\ g.next = [h.next EXCEPT ![a] = z]
        /\ g.prev = [h.prev EXCEPT ![z] = a]
        /\ g.head = [h.head EXCEPT ![q] = IF n = h.head[q] THEN z
                                          ELSE h.head[q]]
    BY <2>1 DEF Unlink, Heap, Pointer
  <2>3. /\ g.next[a] = z /\ g.prev[z] = a
        /\ \A x \in Node : x # a => g.next[x] = h.next[x]
        /\ \A x \in Node : x # z => g.prev[x] = h.prev[x]
        /\ g.head[q] = IF n = h.head[q] THEN z ELSE h.head[q]
    BY <2>1, <2>2 DEF Heap
  <2>4. a = s[Pred(k, p)] /\ z = After(s, p)
    BY <1>1
  <2> HIDE DEF g, a, z
  <2>5. h.head[q] = s[1] /\ (n = s[1] <=> p = 1)
    BY <1>1, <1>4 DEF Circ, Distinct
  <2>6. g.head[q] = u[1] /\ Len(u) # 0
    <3>1. CASE p = 1
      BY <1>2, <1>4, <2>3, <2>4, <2>5, <3>1 DEF After
    <3>2. CASE p # 1
      BY <1>1, <1>2, <1>4, <2>3, <2>5, <3>2
    <3> QED
      BY <3>1, <3>2
  <2>7. ASSUME NEW i \in 1 .. Len(u)
        PROVE  g.next[u[i]] = After(u, i) /\ g.prev[After(u, i)] = u[i]
    <3> DEFINE e == IF i < p THEN i ELSE i + 1
    <3>1. i \in 1 .. k - 1 /\ e \in 1 .. k /\ u[i] = s[e] /\ e # p
      BY <1>1, <1>2
    <3>2. CASE e = Pred(k, p)
      <4>1. After(u, i) = After(s, p)
        <5>1. CASE p = 1
          BY <1>2, <1>4, <3>1, <3>2, <5>1 DEF After, Pred
        <5>2. CASE p = k
          BY <1>2, <1>4, <3>1, <3>2, <5>2 DEF After, Pred
        <5>3. CASE p # 1 /\ p # k
          BY <1>1, <1>2, <1>4, <3>1, <3>2, <5>3 DEF After, Pred
        <5> QED
          BY <5>1, <5>2, <5>3
      <4> QED
        BY <2>3, <2>4, <3>1, <3>2, <4>1
    <3>3. CASE e # Pred(k, p)
      <4>1. After(u, i) = After(s, e)
        <5>1. CASE i = k - 1
          BY <1>1, <1>2, <1>4, <3>1, <3>3, <5>1 DEF After, Pred
        <5>2. CASE i # k - 1
          BY <1>1, <1>2, <1>4, <3>1, <3>3, <5>2 DEF After, Pred
        <5> QED
          BY <5>1, <5>2
      <4>2. s[e] # a /\ s[e] \in Node
        BY <2>1, <2>4, <3>1, <3>3 DEF Distinct
      <4>3. After(s, e) # z /\ After(s, e) \in Node
        <5>1. PICK j \in 1 .. k : After(s, e) = s[j] /\ Pred(k, j) = e
          BY <3>1, Around
        <5>2. PICK m \in 1 .. k : After(s, p) = s[m] /\ Pred(k, m) = p
          BY <1>1, Around
        <5>3. j # m
          BY <3>1, <5>1, <5>2
        <5> QED
          BY <2>4, <5>1, <5>2, <5>3 DEF Distinct
      <4> QED
        BY <2>3, <3>1, <4>1, <4>2, <4>3 DEF Circ
    <3> QED
      BY <3>2, <3>3
  <2>8. Circ(g, u, q)
    BY <2>6, <2>7 DEF Circ
  <2> QED
    BY <2>2, <2>8 DEF g, u
<1>5. k = 1 \/ k > 1
  <2>1. \A m \in Nat : \A i \in 1 .. m : m = 1 \/ m > 1
    OBVIOUS
  <2> QED
    BY <1>1, <2>1, Zenon
<1> QED
  BY <1>3, <1>4, <1>5

\* It leaves every other circle alone.
LEMMA UnlinkOther ==
    ASSUME NEW h \in Heap, NEW s \in Seq(Node), NEW n \in Node,
           NEW q \in Queue, Distinct(s), InQueue(n, s), Circ(h, s, q),
           NEW p \in Queue \ {q}, NEW t \in Seq(Node), Circ(h, t, p),
           Apart(t, s)
    PROVE  Circ(Unlink(h, n, q), t, p)
<1> DEFINE g == Unlink(h, n, q)
           c == Pos(s, n)
<1>1. /\ c \in 1 .. Len(s) /\ s[c] = n
      /\ h.prev[n] = s[Pred(Len(s), c)] /\ h.next[n] = After(s, c)
      /\ n = h.prev[n] <=> Len(s) = 1
  BY Neighbours
<1> HIDE DEF c
<1>2. /\ g.head[p] = h.head[p]
      /\ \A i \in 1 .. Len(t) : /\ g.next[t[i]] = h.next[t[i]]
                                /\ g.prev[t[i]] = h.prev[t[i]]
  <2>1. CASE n = h.prev[n]
    <3>1. g = [h EXCEPT !.head[q] = NULL]
      BY <2>1 DEF Unlink
    <3> QED
      BY <3>1 DEF Heap
  <2>2. CASE n # h.prev[n]
    <3>1. /\ h.prev[n] \in Node /\ h.next[n] \in Node
          /\ \A i \in 1 .. Len(t) : t[i] # h.prev[n] /\ t[i] # h.next[n]
      <4>1. /\ After(s, c) \in Node /\ s[Pred(Len(s), c)] \in Node
            /\ Pred(Len(s), c) \in 1 .. Len(s)
            /\ \E j \in 1 .. Len(s) : After(s, c) = s[j]
        BY <1>1, Around
      <4> QED
        BY <1>1, <4>1 DEF Apart
    <3>2. /\ g.next = [h.next EXCEPT ![h.prev[n]] = h.next[n]]
          /\ g.prev = [h.prev EXCEPT ![h.next[n]] = h.prev[n]]
          /\ g.head = [h.head EXCEPT ![q] = IF n = h.head[q] THEN h.next[n]
                                            ELSE h.head[q]]
      BY <2>2, <3>1 DEF Unlink, Heap, Pointer
    <3> HIDE DEF g
    <3>3. \A i \in 1 .. Len(t) : t[i] \in Node
      OBVIOUS
    <3> QED
      BY <3>1, <3>2, <3>3 DEF Heap
  <2> QED
    BY <2>1, <2>2
<1> HIDE DEF g
<1>3. ASSUME NEW i \in 1 .. Len(t)
      PROVE  g.prev[After(t, i)] = h.prev[After(t, i)]
  <2>1. PICK j \in 1 .. Len(t) : After(t, i) = t[j]
    BY Around
  <2> QED
    BY <1>2, <2>1
<1> QED
  BY <1>2, <1>3 DEF Circ, g

\* A new head starts the same circle elsewhere.
LEMMA SetHeadCircle ==
    ASSUME NEW h \in Heap, NEW g \in Heap, NEW s \in Seq(Node), NEW n \in Node,
           NEW q \in Queue, Distinct(s), InQueue(n, s), Circ(h, s, q),
           g.head[q] = n, g.next = h.next, g.prev = h.prev
    PROVE  Circ(g, set_head(s, n), q)
<1> DEFINE u == set_head(s, n)
           p == Pos(s, n)
           k == Len(s)
           At(i) == IF i + p - 1 <= k THEN i + p - 1 ELSE i + p - 1 - k
<1>1. p \in 1 .. k /\ s[p] = n /\ k \in Nat
  BY PosIsPlace
<1>2. u \in Seq(Node) /\ Len(u) = k
  BY <1>1 DEF set_head
<1>3. \A i \in 1 .. k : u[i] = s[At(i)]
  BY DEF set_head
<1> HIDE DEF p, u, k
<1>4. \A i \in 1 .. k : At(i) \in 1 .. k
  BY <1>1
<1>5. At(1) = p /\ 1 \in 1 .. k /\ k # 0
  BY <1>1
<1>6. ASSUME NEW i \in 1 .. k PROVE After(u, i) = After(s, At(i))
  <2>1. CASE i = k
    <3>1. CASE p = 1
      <4>1. At(i) = k
        BY <1>1, <2>1, <3>1
      <4> QED
        BY <1>2, <1>3, <1>5, <2>1, <3>1, <4>1 DEF After, k
    <3>2. CASE p # 1
      <4>1. At(i) # k /\ At(i) + 1 = p
        BY <1>1, <2>1, <3>2
      <4> QED
        BY <1>2, <1>3, <1>5, <2>1, <4>1 DEF After, k
    <3> QED
      BY <3>1, <3>2
  <2>2. CASE i # k
    <3>1. i + 1 \in 1 .. k
      BY <1>1, <2>2
    <3>2. CASE At(i) = k
      <4>1. At(i + 1) = 1
        BY <1>1, <2>2, <3>2
      <4> QED
        BY <1>2, <1>3, <2>2, <3>1, <3>2, <4>1 DEF After, k
    <3>3. CASE At(i) # k
      <4>1. At(i + 1) = At(i) + 1
        BY <1>1, <2>2, <3>3
      <4> QED
        BY <1>2, <1>3, <2>2, <3>1, <3>3, <4>1 DEF After, k
    <3> QED
      BY <3>2, <3>3
  <2> QED
    BY <2>1, <2>2
<1> HIDE DEF At
<1>7. \A i \in 1 .. k : /\ h.next[u[i]] = After(u, i)
                        /\ h.prev[After(u, i)] = u[i]
  BY <1>3, <1>4, <1>6 DEF Circ, k
<1>8. u[1] = n
  BY <1>1, <1>3, <1>5
<1> QED
  BY <1>2, <1>5, <1>7, <1>8 DEF Circ, u

\* append_proc on one of several queues.
LEMMA LinkOne ==
    ASSUME NEW h \in Heap, NEW S \in QueueSeqs, Circles(h, S), Parted(S),
           NEW b \in Queue, NEW n \in Node, \A q \in Queue : ~InQueue(n, S[q])
    PROVE  LET R == [S EXCEPT ![b] = append_proc(@, n)]
           IN /\ LinkLast(h, n, b) \in Heap /\ R \in QueueSeqs
              /\ Circles(LinkLast(h, n, b), R) /\ Parted(R)
              /\ \A x : InQueue(x, R[b]) <=> InQueue(x, S[b]) \/ x = n
<1> DEFINE R == [S EXCEPT ![b] = append_proc(@, n)]
           u == append_proc(S[b], n)
           g == LinkLast(h, n, b)
<1>1. \A q \in Queue : S[q] \in Seq(Node) /\ Distinct(S[q]) /\ Circ(h, S[q], q)
  BY DEF QueueSeqs, Circles, Parted
<1>2. /\ u \in Seq(Node) /\ Distinct(u)
      /\ \A x : InQueue(x, u) <=> InQueue(x, S[b]) \/ x = n
  BY <1>1, AppendMembers
<1>3. R \in QueueSeqs /\ R[b] = u /\ \A q \in Queue \ {b} : R[q] = S[q]
  BY <1>2 DEF QueueSeqs
<1>4. g \in Heap /\ Circ(g, u, b)
  BY <1>1, LinkLastCircle
<1> HIDE DEF R, u, g
<1>5. ASSUME NEW q \in Queue \ {b} PROVE Circ(g, S[q], q)
  BY <1>1, LinkLastOther DEF Parted, g
<1>6. Circles(g, R)
  BY <1>3, <1>4, <1>5 DEF Circles
<1>7. ASSUME NEW q \in Queue \ {b} PROVE Apart(S[q], u) /\ Apart(u, S[q])
  <2>1. Apart(S[q], S[b])
    BY DEF Parted
  <2>2. \A x : InQueue(x, S[q]) => ~InQueue(x, u)
    BY <1>2, <2>1 DEF Apart, InQueue
  <2> QED
    BY <2>2 DEF Apart, InQueue
<1>8. Parted(R)
  <2>1. \A q \in Queue : Distinct(R[q])
    BY <1>1, <1>2, <1>3
  <2>2. ASSUME NEW p \in Queue, NEW q \in Queue \ {p} PROVE Apart(R[p], R[q])
    <3>1. CASE p = b
      BY <1>3, <1>7, <3>1
    <3>2. CASE p # b /\ q = b
      BY <1>3, <1>7, <3>2
    <3>3. CASE p # b /\ q # b
      BY <1>3, <3>3 DEF Parted
    <3> QED
      BY <3>1, <3>2, <3>3
  <2> QED
    BY <2>1, <2>2 DEF Parted
<1>9. /\ g \in Heap /\ R \in QueueSeqs /\ Circles(g, R) /\ Parted(R)
      /\ \A x : InQueue(x, R[b]) <=> InQueue(x, S[b]) \/ x = n
  BY <1>2, <1>3, <1>4, <1>6, <1>8
<1> QED
  BY <1>9 DEF R, g

\* unlink_proc on one of several queues.
LEMMA UnlinkOne ==
    ASSUME NEW h \in Heap, NEW S \in QueueSeqs, Circles(h, S), Parted(S),
           NEW a \in Queue, NEW n \in Node, InQueue(n, S[a])
    PROVE  LET R == [S EXCEPT ![a] = unlink_proc(@, n)]
           IN /\ Unlink(h, n, a) \in Heap /\ R \in QueueSeqs
              /\ Circles(Unlink(h, n, a), R) /\ Parted(R)
              /\ \A q \in Queue : ~InQueue(n, R[q])
<1> DEFINE R == [S EXCEPT ![a] = unlink_proc(@, n)]
           u == unlink_proc(S[a], n)
           g == Unlink(h, n, a)
<1>1. \A q \in Queue : S[q] \in Seq(Node) /\ Distinct(S[q]) /\ Circ(h, S[q], q)
  BY DEF QueueSeqs, Circles, Parted
<1>2. /\ u \in Seq(Node) /\ Distinct(u)
      /\ \A x : InQueue(x, u) <=> InQueue(x, S[a]) /\ x # n
  BY <1>1, UnlinkType, UnlinkMembers
<1>3. R \in QueueSeqs /\ R[a] = u /\ \A q \in Queue \ {a} : R[q] = S[q]
  BY <1>2 DEF QueueSeqs
<1>4. g \in Heap /\ Circ(g, u, a)
  BY <1>1, UnlinkCircle
<1> HIDE DEF R, u, g
<1>5. ASSUME NEW q \in Queue \ {a} PROVE Circ(g, S[q], q)
  BY <1>1, UnlinkOther DEF Parted, g
<1>6. Circles(g, R)
  BY <1>3, <1>4, <1>5 DEF Circles
<1>7. ASSUME NEW q \in Queue \ {a}
      PROVE  Apart(S[q], u) /\ Apart(u, S[q]) /\ ~InQueue(n, S[q])
  <2>1. Apart(S[q], S[a])
    BY DEF Parted
  <2>2. \A x : InQueue(x, S[q]) => ~InQueue(x, S[a])
    BY <2>1 DEF Apart, InQueue
  <2> QED
    BY <1>2, <2>2 DEF Apart, InQueue
<1>8. Parted(R)
  <2>1. \A q \in Queue : Distinct(R[q])
    BY <1>1, <1>2, <1>3
  <2>2. ASSUME NEW p \in Queue, NEW q \in Queue \ {p} PROVE Apart(R[p], R[q])
    <3>1. CASE p = a
      BY <1>3, <1>7, <3>1
    <3>2. CASE p # a /\ q = a
      BY <1>3, <1>7, <3>2
    <3>3. CASE p # a /\ q # a
      BY <1>3, <3>3 DEF Parted
    <3> QED
      BY <3>1, <3>2, <3>3
  <2> QED
    BY <2>1, <2>2 DEF Parted
<1>9. /\ g \in Heap /\ R \in QueueSeqs /\ Circles(g, R) /\ Parted(R)
      /\ \A q \in Queue : ~InQueue(n, R[q])
  BY <1>2, <1>3, <1>4, <1>6, <1>7, <1>8
<1> QED
  BY <1>9 DEF R, g

\* Represents in terms of the heap.
LEMMA RepresentsHeap ==
    ASSUME QueueType
    PROVE  Represents <=> Parted(seq) /\ Circles(heap, seq) /\ LoadedQueued
<1>1. Disjoint <=> Parted(seq)
  BY DEF Disjoint, Parted, Apart, Distinct
<1>2. \A q \in Queue : Circle(q) <=> Circ(heap, seq[q], q)
  BY DEF Circle, Circ, heap
<1> QED
  BY <1>1, <1>2 DEF Represents, Circles

\* The pointer code of processes.c computes the sequence operators on any
\* number of nodes and queues: every queue is a closed circle in both
\* directions, no node is in two of them, and the successor that
\* cycle_next_proc holds across an interrupt stays in its queue.
THEOREM PointersAreQueues == QueueSpec => []Represents
<1> USE ProcQueueAssumption
<1> DEFINE Good(h, S) == /\ h \in Heap /\ S \in QueueSeqs
                         /\ Circles(h, S) /\ Parted(S)
<1>1. QueueInit => QueueInv
  <2> SUFFICES ASSUME QueueInit PROVE QueueInv
    OBVIOUS
  <2>1. QueueType
    BY DEF QueueInit, QueueType, heap, Heap, Pointer, QueueSeqs
  <2>2. \A q \in Queue : seq[q] = <<>> /\ head[q] = NULL
    BY DEF QueueInit
  <2>3. Parted(seq) /\ Circles(heap, seq) /\ LoadedQueued
    BY <2>2 DEF QueueInit, Parted, Apart, Distinct, Circles, Circ, heap,
                LoadedQueued
  <2> QED
    BY <2>1, <2>3, RepresentsHeap DEF QueueInv
<1>2. ASSUME QueueInv
      PROVE  Good(heap, seq) /\ LoadedQueued /\ tmp \in Pointer
  BY <1>2, RepresentsHeap DEF QueueInv, QueueType
<1>3. ASSUME Good(heap', seq'), LoadedQueued', tmp' \in Pointer
      PROVE  QueueInv'
  <2>1. QueueType'
    BY <1>3 DEF QueueType
  <2>2. Disjoint'
    BY <1>3 DEF Disjoint, Parted, Apart, Distinct
  <2>3. \A q \in Queue : Circle(q)'
    BY <1>3 DEF Circle, Circ, Circles, heap
  <2> QED
    BY <1>3, <2>1, <2>2, <2>3 DEF QueueInv, Represents
<1>4. \A h \in Heap : Store(h) => heap' = h
  BY DEF Store, heap, Heap
<1>5. QueueInv /\ [QueueNext]_queueVars => QueueInv'
  <2> SUFFICES ASSUME QueueInv, [QueueNext]_queueVars PROVE QueueInv'
    OBVIOUS
  <2>0. Good(heap, seq) /\ LoadedQueued /\ tmp \in Pointer
    BY <1>2
  <2> HIDE DEF Good
  <2>1. ASSUME NEW n \in Node, Create(n) PROVE QueueInv'
    <3>1. Good(LinkLast(heap, n, Avail),
               [seq EXCEPT ![Avail] = append_proc(@, n)])
      BY <2>0, <2>1, LinkOne DEF Good, Create, Queue
    <3>2. heap' = LinkLast(heap, n, Avail)
      BY <1>4, <2>1, <3>1 DEF Create, Good
    <3> QED
      BY <1>3, <2>0, <2>1, <3>1, <3>2 DEF Create, LoadedQueued
  <2>2. ASSUME NEW n \in Node, Exit(n) PROVE QueueInv'
    <3>1. Good(Unlink(heap, n, Avail),
               [seq EXCEPT ![Avail] = unlink_proc(@, n)])
      BY <2>0, <2>2, UnlinkOne DEF Good, Exit, Queue
    <3>2. heap' = Unlink(heap, n, Avail)
      BY <1>4, <2>2, <3>1 DEF Exit, Good
    <3> QED
      BY <1>3, <2>0, <2>2, <3>1, <3>2 DEF Exit, LoadedQueued
  <2>3. ASSUME NEW n \in Node, NEW a \in Queue, NEW b \in Queue, a # b,
               InQueue(n, seq[a])
        PROVE  LET g == LinkLast(Unlink(heap, n, a), n, b)
                   R == [seq EXCEPT ![a] = unlink_proc(@, n),
                                    ![b] = append_proc(@, n)]
               IN /\ g \in Heap /\ Good(g, R)
                  /\ \A x : InQueue(x, R[b]) <=> InQueue(x, seq[b]) \/ x = n
    <3> DEFINE f == Unlink(heap, n, a)
               g == LinkLast(f, n, b)
               Q == [seq EXCEPT ![a] = unlink_proc(@, n)]
               R == [Q EXCEPT ![b] = append_proc(@, n)]
    <3>1. Good(f, Q) /\ \A q \in Queue : ~InQueue(n, Q[q])
      BY <2>0, <2>3, UnlinkOne DEF Good
    <3>2. /\ R = [seq EXCEPT ![a] = unlink_proc(@, n),
                             ![b] = append_proc(@, n)]
          /\ Q[b] = seq[b]
      BY <2>0, <2>3 DEF Good, QueueSeqs
    <3> HIDE DEF f, Q
    <3>3. Good(g, R) /\ \A x : InQueue(x, R[b]) <=> InQueue(x, Q[b]) \/ x = n
      BY <3>1, LinkOne DEF Good
    <3>4. g \in Heap
      BY <3>3 DEF Good
    <3> HIDE DEF g, R
    <3> QED
      BY <3>2, <3>3, <3>4 DEF f, g
  <2>4. ASSUME NEW n \in Node, NEW q \in Waiting, Block(n, q) PROVE QueueInv'
    <3> DEFINE g == LinkLast(Unlink(heap, n, Avail), n, q)
               R == [seq EXCEPT ![Avail] = unlink_proc(@, n),
                                ![q] = append_proc(@, n)]
    <3>1. g \in Heap /\ Good(g, R)
      BY <2>3, <2>4 DEF Block, Queue
    <3>2. heap' = g /\ seq' = R /\ tmp' = NULL
      BY <1>4, <2>4, <3>1 DEF Block
    <3> HIDE DEF g, R
    <3> QED
      BY <1>3, <3>1, <3>2 DEF LoadedQueued, Pointer
  <2>5. ASSUME NEW q \in Waiting, UnblockHead(q) PROVE QueueInv'
    <3> DEFINE n == head[q]
               g == LinkLast(Unlink(heap, n, q), n, Avail)
               R == [seq EXCEPT ![q] = unlink_proc(@, n),
                                ![Avail] = append_proc(@, n)]
    <3>1. n \in Node /\ InQueue(n, seq[q])
      <4>1. Circ(heap, seq[q], q) /\ seq[q] \in Seq(Node) /\ n = heap.head[q]
        BY <2>0 DEF Good, Circles, QueueSeqs, Queue, heap
      <4>2. seq[q] # <<>> /\ n = seq[q][1]
        BY <2>5, <4>1 DEF Circ, UnblockHead
      <4> QED
        BY <4>1, <4>2, HeadMembers
    <3>2. /\ g \in Heap /\ Good(g, R)
          /\ \A x : InQueue(x, seq[Avail]) => InQueue(x, R[Avail])
      BY <2>3, <3>1 DEF Queue
    <3>3. heap' = g /\ seq' = R /\ tmp' = tmp
      BY <1>4, <2>5, <3>2 DEF UnblockHead
    <3> HIDE DEF n, g, R
    <3> QED
      BY <1>3, <2>0, <3>2, <3>3 DEF LoadedQueued
  <2>6. CASE CycleLoad
    <3>1. /\ Circ(heap, seq[Avail], Avail) /\ seq[Avail] \in Seq(Node)
          /\ heap.head = head /\ heap.next = next
      BY <2>0 DEF Good, Circles, QueueSeqs, Queue, heap
    <3> DEFINE s == seq[Avail]
    <3>2. s # <<>> /\ head[Avail] = s[1]
      BY <2>6, <3>1 DEF Circ, CycleLoad
    <3>3. 1 \in 1 .. Len(s)
      BY <3>1, <3>2
    <3>4. tmp' = After(s, 1)
      BY <2>6, <3>1, <3>2, <3>3 DEF CycleLoad, Circ
    <3>5. tmp' \in Node /\ InQueue(tmp', s)
      BY <3>1, <3>3, <3>4, Around DEF InQueue
    <3>6. heap' = heap /\ seq' = seq
      BY <2>6 DEF CycleLoad, links, heap
    <3> QED
      BY <1>3, <2>0, <3>5, <3>6 DEF LoadedQueued, Pointer
  <2>7. CASE CycleStore
    <3> DEFINE R == [seq EXCEPT ![Avail] = set_head(@, tmp)]
    <3>1. /\ tmp \in Node /\ InQueue(tmp, seq[Avail]) /\ heap' \in Heap
          /\ heap'.next = heap.next /\ heap'.prev = heap.prev
          /\ heap'.head = [heap.head EXCEPT ![Avail] = tmp]
          /\ seq' = R /\ tmp' = NULL
      BY <2>0, <2>7 DEF CycleStore, LoadedQueued, Pointer, heap, Heap, Good
    <3>2. /\ \A q \in Queue : /\ seq[q] \in Seq(Node) /\ Distinct(seq[q])
                              /\ Circ(heap, seq[q], q)
          /\ Avail \in Queue /\ heap \in Heap
      BY <2>0 DEF Good, QueueSeqs, Circles, Parted, Queue
    <3> DEFINE u == set_head(seq[Avail], tmp)
    <3>3. /\ u \in Seq(Node) /\ Distinct(u)
          /\ \A x : InQueue(x, u) <=> InQueue(x, seq[Avail])
      BY <3>1, <3>2, SetHeadMembers
    <3>4. R \in QueueSeqs /\ R[Avail] = u
          /\ \A q \in Queue \ {Avail} : R[q] = seq[q]
      BY <2>0, <3>2, <3>3 DEF QueueSeqs, Good
    <3>5. Circ(heap', u, Avail)
      <4>1. heap'.head[Avail] = tmp
        BY <3>1, <3>2 DEF Heap
      <4> QED
        BY <3>1, <3>2, <4>1, SetHeadCircle
    <3> HIDE DEF R, u
    <3>6. Circles(heap', R)
      <4>1. ASSUME NEW q \in Queue \ {Avail} PROVE Circ(heap', seq[q], q)
        <5>1. heap'.head[q] = heap.head[q]
          BY <3>1, <3>2 DEF Heap
        <5> QED
          BY <3>1, <3>2, <5>1 DEF Circ
      <4> QED
        BY <3>4, <3>5, <4>1 DEF Circles
    <3>7. Parted(R)
      <4>1. \A q \in Queue : Distinct(R[q])
        BY <3>2, <3>3, <3>4
      <4>2. ASSUME NEW p \in Queue, NEW q \in Queue \ {p}
            PROVE  Apart(R[p], R[q])
        <5>1. \A r \in Queue : \A x : InQueue(x, R[r]) <=> InQueue(x, seq[r])
          BY <3>3, <3>4
        <5>2. \A x : InQueue(x, seq[p]) => ~InQueue(x, seq[q])
          BY <2>0 DEF Good, Parted, Apart, InQueue
        <5>3. \A x : InQueue(x, R[p]) => ~InQueue(x, R[q])
          BY <5>1, <5>2
        <5> QED
          BY <5>3 DEF Apart, InQueue
      <4> QED
        BY <4>1, <4>2 DEF Parted
    <3> QED
      BY <1>3, <3>1, <3>4, <3>6, <3>7 DEF Good, LoadedQueued, Pointer
  <2>8. CASE UNCHANGED queueVars
    <3>1. heap' = heap /\ seq' = seq /\ tmp' = tmp
      BY <2>8 DEF queueVars, heap
    <3> QED
      BY <1>3, <2>0, <3>1 DEF LoadedQueued
  <2> QED
    BY <2>1, <2>2, <2>4, <2>5, <2>6, <2>7, <2>8 DEF QueueNext
<1>6. QueueInv => Represents
  BY DEF QueueInv
<1> QED
  BY <1>1, <1>5, <1>6, PTL DEF QueueSpec
=============================================================================
