---------------------------- MODULE QueueLemmas -----------------------------
(***************************************************************************)
(* What the operations of src/ring_buffer.c, as RingOps has them, do to    *)
(* the contents of a ring, and those of src/processes.c, as QueueOps has   *)
(* them, to the members of a queue.                                        *)
(***************************************************************************)
EXTENDS RingOps, QueueOps, TLAPS

\* Advance stays inside buff.
LEMMA AdvanceType ==
    ASSUME NEW i \in 0 .. BUFF_SIZE - 1
    PROVE  Advance(i) \in 0 .. BUFF_SIZE - 1
  BY RingAssumption DEF Advance

\* The number of unread characters is between 0 and BUFF_SIZE - 1, the ring
\* is empty at one end of that range and full at the other.
LEMMA UnreadBounds ==
    ASSUME NEW r \in Ring
    PROVE  /\ Unread(r) \in 0 .. BUFF_SIZE - 1
           /\ ring_empty(r) <=> Unread(r) = 0
           /\ ring_full(r) <=> Unread(r) = BUFF_SIZE - 1
  BY RingAssumption DEF Unread, Ring, ring_empty, ring_full

\* The unread characters are a sequence of Unread(r) characters.
LEMMA ContentsType ==
    ASSUME NEW r \in Ring
    PROVE  /\ Contents(r) \in Seq(Char)
           /\ Len(Contents(r)) = Unread(r)
           /\ \A i \in 1 .. Unread(r) : Contents(r)[i] = r.buff[Slot(r, i)]
<1>1. Unread(r) \in Nat
  BY UnreadBounds, RingAssumption
<1>2. \A i \in 1 .. Unread(r) : Slot(r, i) \in 0 .. BUFF_SIZE - 1
  BY RingAssumption DEF Slot, Unread, Ring
<1>3. \A i \in 1 .. Unread(r) : r.buff[Slot(r, i)] \in Char
  BY <1>2 DEF Ring
<1>4. Contents(r) \in [1 .. Unread(r) -> Char]
  BY <1>3 DEF Contents
<1> QED
  BY <1>1, <1>4 DEF Contents

\* A put on a ring that is not full appends to its contents.
LEMMA PutAppends ==
    ASSUME NEW r \in Ring, NEW c \in Char, ~ring_full(r)
    PROVE  Contents(ring_put(r, c)) = Append(Contents(r), c)
<1> DEFINE q == ring_put(r, c)
<1>1. q \in Ring
  BY AdvanceType DEF ring_put, Ring
<1>2. Unread(q) = Unread(r) + 1
  BY RingAssumption DEF ring_put, Ring, Unread, Advance, ring_full
<1>3. Unread(r) \in Nat
  BY UnreadBounds, RingAssumption
<1>4. \A i \in 1 .. Unread(r) : q.buff[Slot(q, i)] = r.buff[Slot(r, i)]
  BY RingAssumption DEF ring_put, Ring, Unread, Slot
<1>5. q.buff[Slot(q, Unread(q))] = c
  BY <1>2, RingAssumption DEF ring_put, Ring, Unread, Slot
<1>6. \A i \in 1 .. Unread(q) : Contents(q)[i] = Append(Contents(r), c)[i]
  BY <1>1, <1>2, <1>3, <1>4, <1>5, ContentsType
<1>7. Len(Contents(q)) = Len(Append(Contents(r), c))
  BY <1>1, <1>2, <1>3, ContentsType
<1> QED
  BY <1>1, <1>6, <1>7, ContentsType

\* A take from a ring that is not empty removes the head of its contents.
LEMMA TakeRemovesHead ==
    ASSUME NEW r \in Ring, ~ring_empty(r)
    PROVE  /\ Contents(r) # <<>>
           /\ ring_peek(r) = Head(Contents(r))
           /\ Contents(ring_take(r)) = Tail(Contents(r))
<1> DEFINE q == ring_take(r)
<1>1. q \in Ring
  BY AdvanceType DEF ring_take, Ring
<1>2. Unread(r) = Unread(q) + 1 /\ Unread(q) \in Nat
  BY RingAssumption DEF ring_take, Ring, Unread, Advance, ring_empty
<1>3. \A i \in 1 .. Unread(q) : q.buff[Slot(q, i)] = r.buff[Slot(r, i + 1)]
  BY RingAssumption DEF ring_take, Ring, Unread, Slot, Advance
<1>4. Contents(r) # <<>> /\ ring_peek(r) = Head(Contents(r))
  <2>1. Slot(r, 1) = r.consumer
    BY RingAssumption DEF Slot, Ring
  <2> QED
    BY <1>2, <2>1, ContentsType DEF ring_peek
<1>5. \A i \in 1 .. Unread(q) : Contents(q)[i] = Tail(Contents(r))[i]
  BY <1>1, <1>2, <1>3, <1>4, ContentsType
<1>6. Len(Contents(q)) = Len(Tail(Contents(r)))
  BY <1>1, <1>2, <1>4, ContentsType
<1>7. Tail(Contents(r)) \in Seq(Char)
  BY <1>4, ContentsType
<1> QED
  BY <1>1, <1>4, <1>5, <1>6, <1>7, ContentsType

-----------------------------------------------------------------------------

\* A member of a queue has a position.
LEMMA PosIsPlace ==
    ASSUME NEW S, NEW s \in Seq(S), NEW t, InQueue(t, s)
    PROVE  Pos(s, t) \in 1 .. Len(s) /\ s[Pos(s, t)] = t
BY DEF InQueue, Pos

\* append_proc adds one member at the end.
LEMMA AppendMembers ==
    ASSUME NEW S, NEW s \in Seq(S), NEW t \in S
    PROVE  /\ append_proc(s, t) \in Seq(S)
           /\ \A x : InQueue(x, append_proc(s, t)) <=> InQueue(x, s) \/ x = t
           /\ Distinct(s) /\ ~InQueue(t, s) => Distinct(append_proc(s, t))
<1> DEFINE u == append_proc(s, t)
<1>1. /\ u \in Seq(S) /\ Len(u) = Len(s) + 1 /\ u[Len(s) + 1] = t
      /\ \A i \in 1 .. Len(s) : u[i] = s[i]
  BY DEF append_proc
<1> HIDE DEF u
<1>2. \A i \in 1 .. Len(u) : i \in 1 .. Len(s) \/ i = Len(s) + 1
  BY <1>1
<1>3. \A i \in 1 .. Len(s) : i \in 1 .. Len(u)
  BY <1>1
<1>4. Len(s) + 1 \in 1 .. Len(u)
  BY <1>1
<1>5. ASSUME NEW x PROVE InQueue(x, u) <=> InQueue(x, s) \/ x = t
  BY <1>1, <1>2, <1>3, <1>4 DEF InQueue
<1>6. ASSUME Distinct(s), ~InQueue(t, s) PROVE Distinct(u)
  BY <1>1, <1>2, <1>6 DEF InQueue, Distinct
<1> QED
  BY <1>1, <1>5, <1>6 DEF u

\* PROC_unblock_all moves every waiting node, in order, behind the others.
LEMMA ConcatMembers ==
    ASSUME NEW S, NEW s \in Seq(S), NEW u \in Seq(S)
    PROVE  /\ s \o u \in Seq(S)
           /\ \A x : InQueue(x, s \o u) <=> InQueue(x, s) \/ InQueue(x, u)
           /\ Distinct(s) /\ Distinct(u)
                /\ (\A x \in S : ~(InQueue(x, s) /\ InQueue(x, u)))
                => Distinct(s \o u)
<1>1. s \o u \in Seq(S) /\ Len(s \o u) = Len(s) + Len(u)
  OBVIOUS
<1>2. \A i \in 1 .. Len(s \o u) :
         (s \o u)[i] = IF i <= Len(s) THEN s[i] ELSE u[i - Len(s)]
  OBVIOUS
<1>3. ASSUME NEW x PROVE InQueue(x, s \o u) <=> InQueue(x, s) \/ InQueue(x, u)
  <2>1. ASSUME InQueue(x, s) PROVE InQueue(x, s \o u)
    BY <1>1, <1>2, <2>1 DEF InQueue
  <2>2. ASSUME InQueue(x, u) PROVE InQueue(x, s \o u)
    <3>1. PICK j \in 1 .. Len(u) : u[j] = x
      BY <2>2 DEF InQueue
    <3>2. Len(s) + j \in 1 .. Len(s \o u) /\ (s \o u)[Len(s) + j] = x
      BY <1>1, <1>2, <3>1
    <3> QED
      BY <3>2 DEF InQueue
  <2>3. ASSUME InQueue(x, s \o u) PROVE InQueue(x, s) \/ InQueue(x, u)
    <3>1. PICK i \in 1 .. Len(s \o u) : (s \o u)[i] = x
      BY <2>3 DEF InQueue
    <3>2. CASE i <= Len(s)
      BY <1>1, <1>2, <3>1, <3>2 DEF InQueue
    <3>3. CASE i > Len(s)
      <4>1. i - Len(s) \in 1 .. Len(u) /\ u[i - Len(s)] = x
        BY <1>1, <1>2, <3>1, <3>3
      <4> QED
        BY <4>1 DEF InQueue
    <3> QED
      BY <1>1, <3>2, <3>3
  <2> QED
    BY <2>1, <2>2, <2>3
<1>4. ASSUME Distinct(s), Distinct(u),
             \A x \in S : ~(InQueue(x, s) /\ InQueue(x, u))
      PROVE  Distinct(s \o u)
  <2> SUFFICES ASSUME NEW i \in 1 .. Len(s \o u), NEW j \in 1 .. Len(s \o u),
                      (s \o u)[i] = (s \o u)[j]
               PROVE  i = j
    BY DEF Distinct
  <2>1. \A a \in 1 .. Len(s), b \in 1 .. Len(u) : s[a] # u[b]
    BY <1>4 DEF InQueue
  <2> QED
    BY <1>1, <1>2, <1>4, <2>1 DEF Distinct
<1> QED
  BY <1>1, <1>3, <1>4

\* unlink_proc removes the node it is given and nothing else.
LEMMA UnlinkType ==
    ASSUME NEW S, NEW s \in Seq(S), NEW t
    PROVE  unlink_proc(s, t) \in Seq(S)
<1>1. CASE Len(s) = 0
  BY <1>1 DEF unlink_proc
<1>2. CASE Len(s) > 0
  <2>1. Len(s) - 1 \in Nat
    BY <1>2
  <2>2. \A i \in 1 .. Len(s) - 1 :
           (IF i < Pos(s, t) THEN s[i] ELSE s[i + 1]) \in S
    BY <1>2
  <2> QED
    BY <2>1, <2>2 DEF unlink_proc
<1> QED
  BY <1>1, <1>2

\* The members that are left are the others, each still once.
LEMMA UnlinkMembers ==
    ASSUME NEW S, NEW s \in Seq(S), NEW t, InQueue(t, s), Distinct(s)
    PROVE  /\ Distinct(unlink_proc(s, t))
           /\ \A x : InQueue(x, unlink_proc(s, t)) <=> InQueue(x, s) /\ x # t
<1> DEFINE p == Pos(s, t)
           u == unlink_proc(s, t)
<1>1. p \in 1 .. Len(s) /\ s[p] = t
  BY PosIsPlace
<1>2. u \in Seq(S) /\ Len(u) = Len(s) - 1
  BY <1>1, UnlinkType DEF unlink_proc
<1>3. \A i \in 1 .. Len(s) - 1 : u[i] = IF i < p THEN s[i] ELSE s[i + 1]
  BY DEF unlink_proc
<1> HIDE DEF p, u
<1>4. Distinct(u)
  <2> SUFFICES ASSUME NEW i \in 1 .. Len(u), NEW j \in 1 .. Len(u),
                      u[i] = u[j], i < j
               PROVE  FALSE
    <3>1. Len(u) \in Nat
      BY <1>1, <1>2
    <3>2. \A i, j \in 1 .. Len(u) : i < j \/ j < i \/ i = j
      BY <3>1
    <3> QED
      BY <3>2 DEF Distinct
  <2>1. i \in 1 .. Len(s) - 1 /\ j \in 1 .. Len(s) - 1
    BY <1>2
  <2>2. CASE j < p
    <3>1. u[i] = s[i] /\ u[j] = s[j]
      BY <1>1, <1>3, <2>1, <2>2
    <3>2. i \in 1 .. Len(s) /\ j \in 1 .. Len(s) /\ i # j
      BY <2>1
    <3> QED
      BY <3>1, <3>2 DEF Distinct
  <2>3. CASE i < p /\ j >= p
    <3>1. u[i] = s[i] /\ u[j] = s[j + 1] /\ i # j + 1
      BY <1>1, <1>3, <2>1, <2>3
    <3>2. i \in 1 .. Len(s) /\ j + 1 \in 1 .. Len(s)
      BY <2>1
    <3> QED
      BY <3>1, <3>2 DEF Distinct
  <2>4. CASE i >= p
    <3>1. u[i] = s[i + 1] /\ u[j] = s[j + 1] /\ i + 1 # j + 1
      BY <1>1, <1>3, <2>1, <2>4
    <3>2. i + 1 \in 1 .. Len(s) /\ j + 1 \in 1 .. Len(s)
      BY <2>1
    <3> QED
      BY <3>1, <3>2 DEF Distinct
  <2> QED
    BY <1>1, <2>1, <2>2, <2>3, <2>4
<1>5. ASSUME NEW x PROVE InQueue(x, u) <=> InQueue(x, s) /\ x # t
  <2>1. ASSUME InQueue(x, u) PROVE InQueue(x, s) /\ x # t
    BY <1>1, <1>2, <1>3, <2>1 DEF InQueue, Distinct
  <2>2. ASSUME InQueue(x, s), x # t PROVE InQueue(x, u)
    <3>1. PICK j \in 1 .. Len(s) : s[j] = x
      BY <2>2 DEF InQueue
    <3>2. j # p
      BY <1>1, <2>2, <3>1
    <3>3. CASE j < p
      BY <1>1, <1>2, <1>3, <3>1, <3>3 DEF InQueue
    <3>4. CASE j > p
      <4>1. j - 1 \in 1 .. Len(u) /\ u[j - 1] = x
        BY <1>1, <1>2, <1>3, <3>1, <3>4
      <4> QED
        BY <4>1 DEF InQueue
    <3> QED
      BY <1>1, <3>2, <3>3, <3>4
  <2> QED
    BY <2>1, <2>2
<1> QED
  BY <1>4, <1>5 DEF u

\* Moving the head keeps the members.
LEMMA SetHeadMembers ==
    ASSUME NEW S, NEW s \in Seq(S), NEW t, InQueue(t, s)
    PROVE  /\ set_head(s, t) \in Seq(S)
           /\ Distinct(s) => Distinct(set_head(s, t))
           /\ \A x : InQueue(x, set_head(s, t)) <=> InQueue(x, s)
<1> DEFINE p == Pos(s, t)
           u == set_head(s, t)
<1>1. p \in 1 .. Len(s) /\ s[p] = t
  BY PosIsPlace
<1>2. u \in Seq(S) /\ Len(u) = Len(s)
  BY <1>1 DEF set_head
<1>3. \A i \in 1 .. Len(s) : u[i] = IF i + p - 1 <= Len(s) THEN s[i + p - 1]
                                    ELSE s[i + p - 1 - Len(s)]
  BY DEF set_head
<1> HIDE DEF p, u
<1>4. ASSUME Distinct(s) PROVE Distinct(u)
  <2> SUFFICES ASSUME NEW i \in 1 .. Len(s), NEW j \in 1 .. Len(s), u[i] = u[j]
               PROVE  i = j
    BY <1>2 DEF Distinct
  <2> DEFINE At(k) == IF k + p - 1 <= Len(s) THEN k + p - 1
                      ELSE k + p - 1 - Len(s)
  <2>1. At(i) \in 1 .. Len(s) /\ At(j) \in 1 .. Len(s)
    BY <1>1
  <2>2. s[At(i)] = s[At(j)]
    BY <1>1, <1>3
  <2>3. At(i) = At(j)
    <3> HIDE DEF At
    <3> QED
      BY <1>4, <2>1, <2>2 DEF Distinct
  <2> QED
    BY <1>1, <2>3
<1>5. ASSUME NEW x PROVE InQueue(x, u) <=> InQueue(x, s)
  <2>1. ASSUME InQueue(x, u) PROVE InQueue(x, s)
    <3>1. PICK i \in 1 .. Len(s) : u[i] = x
      BY <1>2, <2>1 DEF InQueue
    <3>2. CASE i + p - 1 <= Len(s)
      <4>1. i + p - 1 \in 1 .. Len(s) /\ s[i + p - 1] = x
        BY <1>1, <1>3, <3>1, <3>2
      <4> QED
        BY <4>1 DEF InQueue
    <3>3. CASE i + p - 1 > Len(s)
      <4>1. i + p - 1 - Len(s) \in 1 .. Len(s) /\ s[i + p - 1 - Len(s)] = x
        BY <1>1, <1>3, <3>1, <3>3
      <4> QED
        BY <4>1 DEF InQueue
    <3> QED
      BY <1>1, <3>2, <3>3
  <2>2. ASSUME InQueue(x, s) PROVE InQueue(x, u)
    <3>1. PICK j \in 1 .. Len(s) : s[j] = x
      BY <2>2 DEF InQueue
    <3>2. CASE j >= p
      <4>1. j - p + 1 \in 1 .. Len(u) /\ u[j - p + 1] = x
        BY <1>1, <1>2, <1>3, <3>1, <3>2
      <4> QED
        BY <4>1 DEF InQueue
    <3>3. CASE j < p
      <4> DEFINE k == j - p + 1 + Len(s)
      <4>1. k \in 1 .. Len(s) /\ k + p - 1 > Len(s) /\ k + p - 1 - Len(s) = j
        BY <1>1, <3>3
      <4>2. u[k] = x
        <5> HIDE DEF k
        <5> QED
          BY <1>1, <1>3, <3>1, <4>1
      <4> QED
        BY <1>2, <4>1, <4>2 DEF InQueue
    <3> QED
      BY <1>1, <3>2, <3>3
  <2> QED
    BY <2>1, <2>2
<1> QED
  BY <1>2, <1>4, <1>5 DEF u

\* The first two places of a queue are places of it.
LEMMA HeadMembers ==
    ASSUME NEW S, NEW s \in Seq(S), s # <<>>
    PROVE  /\ s[1] \in S /\ InQueue(s[1], s)
           /\ head_next(s) \in S /\ InQueue(head_next(s), s)
<1>1. Len(s) \in Nat /\ Len(s) # 0
  OBVIOUS
<1>2. s[1] \in S /\ InQueue(s[1], s)
  BY <1>1 DEF InQueue
<1>3. CASE Len(s) = 1
  BY <1>2, <1>3 DEF head_next
<1>4. CASE Len(s) > 1
  <2>1. 2 \in 1 .. Len(s)
    BY <1>1, <1>4
  <2>2. s[2] \in S /\ InQueue(s[2], s)
    BY <2>1 DEF InQueue
  <2> QED
    BY <1>2, <1>4, <2>2 DEF head_next
<1>5. Len(s) = 1 \/ Len(s) > 1
  <2>1. \A n \in Nat : n # 0 => n = 1 \/ n > 1
    OBVIOUS
  <2> QED
    BY <1>1, <2>1, Zenon
<1> QED
  BY <1>3, <1>4, <1>5
=============================================================================
