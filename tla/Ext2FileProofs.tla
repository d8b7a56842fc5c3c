--------------------------- MODULE Ext2FileProofs ---------------------------
(***************************************************************************)
(* The file system.  Calls of ext2_file_read with buffers of any lengths   *)
(* return the bytes of the file, for every block size, number of pointers  *)
(* and file that the direct and singly indirect pointers reach, and never  *)
(* write further past a buffer than module Ext2File says, for every file.  *)
(* The first ext2 file system is mounted and its inodes are found, on      *)
(* every drive, and so is a name in every plain directory.                 *)
(***************************************************************************)
EXTENDS Ext2File, Ext2Mount, Ext2Dir, TLAPS

TypeInv ==
    /\ st_size \in Nat /\ cursor \in Nat /\ len \in Nat
    /\ bytes_read \in Nat /\ block \in Nat
    /\ pc \in {"idle", "loop", "end"}
    /\ dst \in Seq(Int) /\ out \in Seq(Int)

More == bytes_read < len /\ cursor < st_size

\* While the loop of a call has more to do, block is where the cursor is, and
\* only the first turn can start inside a block.
LoopInv ==
    pc = "loop" => /\ len # 0
                   /\ More => /\ block = cursor \div block_size
                              /\ cursor % block_size # 0 => bytes_read = 0

\* The calls so far have returned what lies before the cursor.
CountInv == /\ cursor = Len(out) + (IF pc = "loop" THEN Len(dst) ELSE 0)
            /\ cursor < st_size + block_size
            /\ pc = "end" => cursor >= st_size

\* What was returned is the file up to here.
ContentInv == /\ \A i \in 1 .. Len(out) : out[i] = i - 1
              /\ pc = "loop" => \A i \in 1 .. Len(dst) :
                                   dst[i] = Len(out) + i - 1

\* The pointers that reach the whole file.
SmallFile == st_size <= (NUM_DIRECT_BLOCKS + N) * block_size

FileInv == TypeInv /\ LoopInv /\ CountInv /\ FitsBuffer
-----------------------------------------------------------------------------
LEMMA Constants ==
    /\ block_size \in Nat \ {0} /\ NUM_DIRECT_BLOCKS \in Nat \ {0}
    /\ N \in Nat \ {0}
    /\ Sizes \subseteq Nat /\ Lens \subseteq Nat \ {0}
  BY Ext2FileAssumption DEF N

\* The cursor as a block and an offset in it.
LEMMA Position ==
    ASSUME NEW x \in Nat
    PROVE  \E k \in Nat, r \in 0 .. block_size - 1, m \in Nat :
              /\ x \div block_size = k /\ x % block_size = r
              /\ m = k * block_size /\ x = m + r
              /\ (k + 1) * block_size = m + block_size
<1>1. PICK d \in Nat \ {0} : d = block_size
  BY Constants
<1>2. x \div d \in Nat /\ x % d \in 0 .. d - 1
  OBVIOUS
<1>3. PICK k \in Nat, r \in 0 .. d - 1 : k = x \div d /\ r = x % d
  BY <1>2
<1>4. k * d \in Nat /\ (k + 1) * d = k * d + d
  OBVIOUS
<1>5. x = k * d + r
  BY <1>3
<1> QED
  BY <1>1, <1>3, <1>4, <1>5

\* Direct and singly indirect pointers lead to the block of the file; any
\* block that is read is one of the file or holds pointers.
LEMMA BlockRead ==
    ASSUME NEW b \in Nat
    PROVE  /\ b < NUM_DIRECT_BLOCKS + N => read_inode_block(b) = DataBlock(b)
           /\ \/ \E z \in Int : read_inode_block(b) = DataBlock(z)
              \/ read_inode_block(b).kind = "pointers"
<1> DEFINE s == b - NUM_DIRECT_BLOCKS
           d == s - N
           t == d - N * N
<1>1. NUM_DIRECT_BLOCKS \in Nat /\ N \in Nat \ {0} /\ N * N \in Nat
  BY Constants
<1>2. PICK NN \in Nat : NN = N * N
  BY <1>1
<1>3. \A i : Pointer(<<"single">>, i) = DataBlock(NUM_DIRECT_BLOCKS + i)
  BY DEF Pointer
<1>4. \A i : Pointer(<<"double">>, i) = PointerBlock(<<"double", i>>)
  BY DEF Pointer
<1>5. CASE b < NUM_DIRECT_BLOCKS
  <2>1. read_inode_block(b) = DataBlock(b)
    BY <1>1, <1>2, <1>5 DEF read_inode_block
  <2> QED
    BY <2>1
<1>6. CASE ~(b < NUM_DIRECT_BLOCKS) /\ b < NUM_DIRECT_BLOCKS + N
  <2>1. read_inode_block(b) = Pointer(<<"single">>, b - NUM_DIRECT_BLOCKS)
    BY <1>1, <1>2, <1>6 DEF read_inode_block
  <2>2. NUM_DIRECT_BLOCKS + (b - NUM_DIRECT_BLOCKS) = b
    BY <1>1
  <2> QED
    BY <1>3, <2>1, <2>2
<1>7. CASE ~(b < NUM_DIRECT_BLOCKS + N)
  <2>1. b - NUM_DIRECT_BLOCKS - N \in Nat /\ ~(b < NUM_DIRECT_BLOCKS)
    BY <1>1, <1>7
  <2>2. CASE b - NUM_DIRECT_BLOCKS - N < NN
    <3>1. read_inode_block(b)
             = Pointer(<<"single">>, (b - NUM_DIRECT_BLOCKS - N) % N)
      BY <1>1, <1>2, <1>7, <2>1, <2>2 DEF read_inode_block
    <3>2. NUM_DIRECT_BLOCKS + ((b - NUM_DIRECT_BLOCKS - N) % N) \in Int
      BY <1>1, <2>1
    <3> QED
      BY <1>3, <1>7, <3>1, <3>2
  <2>3. CASE ~(b - NUM_DIRECT_BLOCKS - N < NN)
    <3>1. PICK x : x = ((b - NUM_DIRECT_BLOCKS - N - N * N) % (N * N)) % N
      OBVIOUS
    <3>2. read_inode_block(b) = Pointer(<<"double">>, x)
      BY <1>1, <1>2, <1>7, <2>1, <2>3, <3>1 DEF read_inode_block
    <3>3. PointerBlock(<<"double", x>>).kind = "pointers"
      BY DEF PointerBlock
    <3>4. read_inode_block(b) = PointerBlock(<<"double", x>>)
      BY <1>4, <3>2
    <3> QED
      BY <1>7, <3>3, <3>4
  <2> QED
    BY <2>2, <2>3
<1> QED
  BY <1>5, <1>6, <1>7

\* The n bytes that the loop copies from offset off of a block, and what they
\* are if it is a block of a small file.
Part(b, off, n) ==
    SubSeq(ext2_read_block(read_inode_block(b)), off + 1, off + n)

AreBytes(t, b, off, n) ==
    /\ t \in Seq(Int) /\ Len(t) = n
    /\ b < NUM_DIRECT_BLOCKS + N =>
          \A j \in 1 .. n : t[j] = b * block_size + off + j - 1

LEMMA CopiedBytes ==
    ASSUME NEW b \in Nat, NEW off \in Nat, NEW n \in Nat,
           off + n <= block_size
    PROVE  AreBytes(Part(b, off, n), b, off, n)
<1> DEFINE t == Part(b, off, n)
<1>1. PICK v : v = read_inode_block(b)
  OBVIOUS
<1>2. PICK s : s = ext2_read_block(v)
  OBVIOUS
<1>3. block_size \in Nat \ {0}
  BY Constants
<1>4. /\ s = [i \in 1 .. block_size |->
                IF v.kind = "data" THEN v.path[1] * block_size + i - 1 ELSE -1]
  BY <1>2 DEF ext2_read_block
<1>5. \A i \in 1 .. block_size : s[i] \in Int
  <2>1. CASE \E z \in Int : v = DataBlock(z)
    <3>1. PICK z \in Int : v = DataBlock(z)
      BY <2>1
    <3>2. v.kind = "data" /\ v.path[1] = z
      BY <3>1 DEF DataBlock
    <3>3. z * block_size \in Int
      BY <1>3
    <3> QED
      BY <1>4, <3>2, <3>3
  <2>2. CASE v.kind = "pointers"
    BY <1>4, <2>2
  <2> QED
    BY <1>1, <2>1, <2>2, BlockRead
<1>6. s \in Seq(Int) /\ Len(s) = block_size
  <2>1. s \in [1 .. block_size -> Int]
    BY <1>4, <1>5
  <2> QED
    BY <1>3, <2>1
<1>7. /\ t \in Seq(Int) /\ Len(t) = n
      /\ \A j \in 1 .. n : t[j] = s[off + j]
  <2>1. t = SubSeq(s, off + 1, off + n)
    BY <1>1, <1>2 DEF Part
  <2> HIDE DEF t
  <2> QED
    BY <1>3, <1>6, <2>1
<1>8. ASSUME b < NUM_DIRECT_BLOCKS + N, NEW j \in 1 .. n
      PROVE  t[j] = b * block_size + off + j - 1
  <2>1. v.kind = "data" /\ v.path[1] = b
    BY <1>1, <1>8, BlockRead DEF DataBlock
  <2>2. off + j \in 1 .. block_size
    BY <1>3
  <2>3. s[off + j] = b * block_size + (off + j) - 1
    BY <1>4, <2>1, <2>2
  <2>4. b * block_size \in Nat
    BY <1>3
  <2> QED
    BY <1>7, <2>3, <2>4
<1> QED
  BY <1>7, <1>8 DEF AreBytes

\* One turn of the loop: n bytes are copied from offset off of the block that
\* the cursor is in, and the next turn starts with a new block.
LEMMA TurnOfLoop ==
    ASSUME FileInv, InLoop, NEW n \in Nat, Copied(Offset, n),
           Offset + n <= block_size,
           len >= block_size => bytes_read + n <= len,
           bytes_read + n < len + block_size,
           cursor + n < st_size + block_size,
           More' => Offset + n = block_size
    PROVE  FileInv' /\ (SmallFile /\ ContentInv => ContentInv')
<1>1. /\ st_size \in Nat /\ cursor \in Nat /\ len \in Nat
      /\ bytes_read \in Nat /\ block \in Nat /\ pc = "loop"
      /\ dst \in Seq(Int) /\ out \in Seq(Int) /\ block_size \in Nat \ {0}
  BY Constants DEF FileInv, TypeInv, InLoop
<1>2. PICK k \in Nat, r \in 0 .. block_size - 1, m \in Nat :
         /\ cursor \div block_size = k /\ Offset = r
         /\ m = k * block_size /\ cursor = m + r
         /\ (k + 1) * block_size = m + block_size
  BY <1>1, Position DEF Offset
<1>3. block = k
  BY <1>2 DEF FileInv, LoopInv, InLoop, More
<1>4. PICK t : t = Part(block, r, n)
  OBVIOUS
<1>5. /\ dst' = dst \o t /\ bytes_read' = bytes_read + n
      /\ cursor' = cursor + n /\ block' = block + 1
      /\ st_size' = st_size /\ pc' = pc /\ len' = len /\ out' = out
  BY <1>2, <1>4 DEF Copied, Copy, Part
<1>6. /\ t \in Seq(Int) /\ Len(t) = n
      /\ block < NUM_DIRECT_BLOCKS + N =>
            \A j \in 1 .. n : t[j] = block * block_size + r + j - 1
  <2>1. r \in Nat /\ r + n <= block_size
    BY <1>1, <1>2
  <2>2. AreBytes(t, block, r, n)
    BY <1>1, <1>4, <2>1, CopiedBytes
  <2> QED
    BY <2>2 DEF AreBytes
<1>7. /\ dst' \in Seq(Int) /\ Len(dst') = Len(dst) + n
      /\ \A i \in 1 .. Len(dst) : dst'[i] = dst[i]
      /\ \A i \in 1 .. n : dst'[Len(dst) + i] = t[i]
  BY <1>1, <1>5, <1>6
<1>8. TypeInv'
  BY <1>1, <1>5, <1>7 DEF TypeInv
<1>9. LoopInv'
  <2>1. len # 0
    BY <1>1 DEF FileInv, LoopInv
  <2>2. ASSUME More'
        PROVE  /\ block' = cursor' \div block_size
               /\ cursor' % block_size = 0
    <3>1. cursor' = (k + 1) * block_size
      BY <1>1, <1>2, <1>5, <2>2
    <3>2. ASSUME NEW d \in Nat \ {0}, NEW q \in Nat
          PROVE  (q * d) \div d = q /\ (q * d) % d = 0
      OBVIOUS
    <3>3. k + 1 \in Nat
      OBVIOUS
    <3> QED
      BY <1>1, <1>3, <1>5, <3>1, <3>2, <3>3
  <2> QED
    BY <1>5, <2>1, <2>2 DEF LoopInv
<1>10. CountInv'
  <2>1. cursor = Len(out) + Len(dst)
    BY <1>1 DEF FileInv, CountInv
  <2> QED
    BY <1>1, <1>5, <1>7, <2>1 DEF CountInv
<1>11. FitsBuffer'
  <2>1. Len(dst) = bytes_read
    BY DEF FileInv, FitsBuffer
  <2> QED
    BY <1>1, <1>5, <1>7, <2>1 DEF FitsBuffer
<1>12. ASSUME SmallFile, ContentInv PROVE ContentInv'
  <2>1. k < NUM_DIRECT_BLOCKS + N
    <3>1. ASSUME NEW d \in Nat \ {0}, NEW q \in Nat, NEW l \in Nat,
                 q * d < l * d
          PROVE  q < l
      BY <3>1
    <3>2. NUM_DIRECT_BLOCKS + N \in Nat
      BY Constants
    <3>3. PICK y \in Nat : y = (NUM_DIRECT_BLOCKS + N) * block_size
      BY <1>1, <3>2
    <3>4. m < y
      BY <1>1, <1>2, <1>12, <3>3 DEF SmallFile, InLoop
    <3> QED
      BY <1>1, <1>2, <3>1, <3>2, <3>3, <3>4
  <2>2. cursor = Len(out) + Len(dst)
    BY <1>1 DEF FileInv, CountInv
  <2>3. \A j \in 1 .. n : t[j] = cursor + j - 1
    BY <1>1, <1>2, <1>3, <1>6, <2>1
  <2>4. ASSUME NEW i \in 1 .. Len(dst') PROVE dst'[i] = Len(out) + i - 1
    <3>1. CASE i <= Len(dst)
      BY <1>1, <1>7, <1>12, <3>1 DEF ContentInv
    <3>2. CASE ~(i <= Len(dst))
      <4>1. PICK j \in 1 .. n : i = Len(dst) + j
        <5>1. i - Len(dst) \in 1 .. n /\ i = Len(dst) + (i - Len(dst))
          BY <1>1, <1>7, <3>2
        <5> QED
          BY <5>1
      <4>2. dst'[i] = cursor + j - 1
        BY <1>7, <2>3, <4>1
      <4> QED
        BY <1>1, <2>2, <4>1, <4>2
    <3> QED
      BY <3>1, <3>2
  <2> QED
    BY <1>5, <1>12, <2>4 DEF ContentInv
<1> QED
  BY <1>8, <1>9, <1>10, <1>11, <1>12 DEF FileInv

\* Every call, every turn of its loop and its return keep the invariant.
LEMMA FileStep ==
    ASSUME FileInv, [Next]_vars
    PROVE  FileInv' /\ (SmallFile /\ ContentInv => ContentInv')
<1>1. /\ st_size \in Nat /\ cursor \in Nat /\ len \in Nat
      /\ bytes_read \in Nat /\ block \in Nat
      /\ dst \in Seq(Int) /\ out \in Seq(Int) /\ block_size \in Nat \ {0}
      /\ Lens \subseteq Nat \ {0}
  BY Constants DEF FileInv, TypeInv
<1>2. ASSUME NEW n \in Lens, ext2_file_read(n)
      PROVE  FileInv' /\ (SmallFile /\ ContentInv => ContentInv')
  <2>1. /\ pc = "idle" /\ pc' = "loop" /\ len' = n /\ bytes_read' = 0
        /\ dst' = <<>> /\ block' = cursor \div block_size
        /\ st_size' = st_size /\ cursor' = cursor /\ out' = out
        /\ n \in Nat \ {0}
    BY <1>1, <1>2 DEF ext2_file_read
  <2>2. block' \in Nat
    BY <1>1, <2>1, Position
  <2>3. TypeInv' /\ LoopInv'
    BY <1>1, <2>1, <2>2 DEF TypeInv, LoopInv
  <2>4. CountInv' /\ FitsBuffer'
    BY <1>1, <2>1 DEF FileInv, CountInv, FitsBuffer
  <2>5. ContentInv => ContentInv'
    BY <1>1, <2>1 DEF ContentInv
  <2> QED
    BY <2>3, <2>4, <2>5 DEF FileInv
<1>3. PICK r \in 0 .. block_size - 1 : Offset = r
  <2>1. \E k \in Nat, r \in 0 .. block_size - 1, m \in Nat :
           /\ cursor \div block_size = k /\ cursor % block_size = r
           /\ m = k * block_size /\ cursor = m + r
           /\ (k + 1) * block_size = m + block_size
    BY <1>1, Position
  <2> QED
    BY <2>1 DEF Offset
<1>4. InLoop => (r # 0 => bytes_read = 0)
  BY <1>3 DEF FileInv, LoopInv, InLoop, More, Offset
<1>5. CASE RestOfBlock
  <2>1. /\ InLoop /\ Copied(Offset, block_size - r) /\ r # 0
        /\ block_size - r \in Nat
    BY <1>1, <1>3, <1>5 DEF RestOfBlock
  <2>2. bytes_read = 0 /\ cursor < st_size /\ bytes_read < len
    BY <1>4, <2>1 DEF InLoop
  <2> QED
    BY <1>1, <1>3, <2>1, <2>2, TurnOfLoop
<1>6. CASE FillBuffer
  <2>1. /\ InLoop /\ Copied(Offset, len - bytes_read) /\ r = 0
        /\ bytes_read + block_size >= len /\ cursor < st_size
        /\ bytes_read < len
    BY <1>3, <1>6 DEF FillBuffer, InLoop
  <2>2. len - bytes_read \in Nat /\ bytes_read + (len - bytes_read) = len
    BY <1>1, <2>1
  <2>3. ~More'
    BY <1>1, <2>1, <2>2 DEF More, Copied
  <2> QED
    BY <1>1, <1>3, <2>1, <2>2, <2>3, TurnOfLoop
<1>7. CASE LastBlock
  <2>1. /\ InLoop /\ Copied(Offset, st_size - cursor) /\ r = 0
        /\ bytes_read + block_size < len /\ cursor < st_size
        /\ cursor + block_size >= st_size
    BY <1>3, <1>7 DEF LastBlock, InLoop
  <2>2. st_size - cursor \in Nat /\ cursor + (st_size - cursor) = st_size
    BY <1>1, <2>1
  <2>3. ~More'
    BY <1>1, <2>1, <2>2 DEF More, Copied
  <2> QED
    BY <1>1, <1>3, <2>1, <2>2, <2>3, TurnOfLoop
<1>8. CASE FullBlock
  <2>1. /\ InLoop /\ Copied(Offset, block_size) /\ r = 0
        /\ bytes_read + block_size < len
        /\ cursor + block_size < st_size
    BY <1>3, <1>8 DEF FullBlock, InLoop
  <2> QED
    BY <1>1, <1>3, <2>1, TurnOfLoop
<1>9. CASE Return
  <2>1. /\ pc = "loop" /\ pc' = (IF bytes_read = 0 THEN "end" ELSE "idle")
        /\ bytes_read >= len \/ cursor >= st_size
        /\ out' = out \o dst
        /\ st_size' = st_size /\ cursor' = cursor /\ len' = len
        /\ bytes_read' = bytes_read /\ block' = block /\ dst' = dst
    BY <1>9 DEF Return
  <2>2. /\ out' \in Seq(Int) /\ Len(out') = Len(out) + Len(dst)
        /\ \A i \in 1 .. Len(out) : out'[i] = out[i]
        /\ \A i \in 1 .. Len(dst) : out'[Len(out) + i] = dst[i]
    BY <1>1, <2>1
  <2>3. TypeInv' /\ LoopInv' /\ pc' # "loop"
    BY <1>1, <2>1, <2>2 DEF TypeInv, LoopInv
  <2>4. len # 0
    BY <2>1 DEF FileInv, LoopInv
  <2>5. CountInv'
    BY <1>1, <2>1, <2>2, <2>3, <2>4 DEF FileInv, CountInv
  <2>6. FitsBuffer'
    BY <2>1 DEF FileInv, FitsBuffer
  <2>7. ASSUME ContentInv PROVE ContentInv'
    <3>1. ASSUME NEW i \in 1 .. Len(out') PROVE out'[i] = i - 1
      <4>1. CASE i <= Len(out)
        BY <1>1, <2>2, <2>7, <4>1 DEF ContentInv
      <4>2. CASE ~(i <= Len(out))
        <5>1. /\ i - Len(out) \in 1 .. Len(dst)
              /\ i = Len(out) + (i - Len(out))
          BY <1>1, <2>2, <4>2
        <5>2. out'[i] = dst[i - Len(out)]
          BY <2>2, <5>1
        <5>3. dst[i - Len(out)] = Len(out) + (i - Len(out)) - 1
          BY <2>1, <2>7, <5>1 DEF ContentInv
        <5> QED
          BY <1>1, <5>1, <5>2, <5>3
      <4> QED
        BY <4>1, <4>2
    <3> QED
      BY <2>3, <3>1 DEF ContentInv
  <2> QED
    BY <2>3, <2>5, <2>6, <2>7 DEF FileInv
<1>10. CASE UNCHANGED vars
  <2>1. /\ st_size' = st_size /\ cursor' = cursor /\ pc' = pc /\ len' = len
        /\ bytes_read' = bytes_read /\ block' = block /\ dst' = dst
        /\ out' = out
    BY <1>10 DEF vars
  <2>2. TypeInv' /\ LoopInv'
    BY <2>1 DEF FileInv, TypeInv, LoopInv, More
  <2>3. CountInv' /\ FitsBuffer'
    BY <2>1 DEF FileInv, CountInv, FitsBuffer
  <2>4. ContentInv => ContentInv'
    BY <2>1 DEF ContentInv
  <2> QED
    BY <2>2, <2>3, <2>4 DEF FileInv
<1> QED
  BY <1>2, <1>5, <1>6, <1>7, <1>8, <1>9, <1>10 DEF Next, Read, Step

LEMMA FileStart == Init => FileInv /\ ContentInv
<1> SUFFICES ASSUME Init PROVE FileInv /\ ContentInv
  OBVIOUS
<1>1. /\ st_size \in Nat /\ cursor = 0 /\ len = 0 /\ bytes_read = 0
      /\ block = 0 /\ dst = <<>> /\ out = <<>> /\ pc = "idle"
      /\ block_size \in Nat \ {0}
  BY Constants DEF Init
<1> QED
  BY <1>1 DEF FileInv, TypeInv, LoopInv, CountInv, FitsBuffer, ContentInv

\* For every block size and file, and whatever the lengths of the calls, what
\* ext2_file_read copies is what it counts, stays in a buffer of at least one
\* block and runs less than a block past the end of a shorter one.
THEOREM BufferKept == Spec => []FitsBuffer
<1>1. FileInv => FitsBuffer
  BY DEF FileInv
<1> QED
  BY <1>1, FileStart, FileStep, PTL DEF Spec

\* For every block size and number of pointers in a block, and for every file
\* that needs no doubly indirect pointer, the calls of ext2_file_read return
\* its bytes in order, and 0 only behind the last one.
THEOREM FileIsRead ==
    ASSUME FilesSmall
    PROVE  Spec => []ReadsFile
<1>1. Init => FileInv /\ ContentInv /\ SmallFile
  BY FileStart, FilesSmall DEF Init, SmallFile, FilesSmall
<1>2. ASSUME FileInv, ContentInv, SmallFile, [Next]_vars
      PROVE  FileInv' /\ ContentInv' /\ SmallFile'
  <2>1. st_size' = st_size
    BY <1>2 DEF Next, Read, Step, ext2_file_read, RestOfBlock, FillBuffer,
                LastBlock, FullBlock, Copied, Return, vars
  <2> QED
    BY <1>2, <2>1, FileStep DEF SmallFile
<1>3. FileInv /\ ContentInv => ReadsFile
  <2> SUFFICES ASSUME FileInv, ContentInv PROVE ReadsFile
    OBVIOUS
  <2>1. dst \in Seq(Int) /\ out \in Seq(Int)
    BY DEF FileInv, TypeInv
  <2>2. InOrder
    <3>1. CASE pc = "loop"
      <4>1. /\ Returned = out \o dst
            /\ DOMAIN (out \o dst) = 1 .. Len(out) + Len(dst)
        BY <2>1, <3>1 DEF Returned
      <4>2. ASSUME NEW i \in 1 .. Len(out) + Len(dst)
            PROVE  (out \o dst)[i] = i - 1
        <5>1. CASE i <= Len(out)
          BY <2>1, <5>1 DEF ContentInv
        <5>2. CASE ~(i <= Len(out))
          <6>1. i - Len(out) \in 1 .. Len(dst)
            BY <2>1, <5>2
          <6>2. (out \o dst)[i] = dst[i - Len(out)]
            BY <2>1, <5>2
          <6>3. dst[i - Len(out)] = Len(out) + (i - Len(out)) - 1
            BY <3>1, <6>1 DEF ContentInv
          <6> QED
            BY <2>1, <6>2, <6>3
        <5> QED
          BY <5>1, <5>2
      <4> QED
        BY <4>1, <4>2 DEF InOrder
    <3>2. CASE pc # "loop"
      BY <2>1, <3>2 DEF InOrder, Returned, ContentInv
    <3> QED
      BY <3>1, <3>2
  <2>3. AllRead
    BY <2>1 DEF AllRead, FileInv, CountInv, TypeInv
  <2> QED
    BY <2>2, <2>3 DEF ReadsFile
<1> QED
  BY <1>1, <1>2, <1>3, PTL DEF Spec

-----------------------------------------------------------------------------
(* Mounting and inodes.                                                    *)

\* The probe registered once is tried once.
ProbeInv ==
    /\ mount_pc = "boot" => impls = <<>>
    /\ mount_pc = "probe" => impls \in {<<"ext2">>, <<>>}
    /\ mount_pc = "partition" => impls = <<>>

\* The loop of ext2_probe has passed partitions in use without a file system;
\* once it has left the table there is none.
PassedInv ==
    /\ mount_pc = "partition" =>
           \A q \in 0 .. p - 1 : mbr[q].part_type # 0 /\ ~HasExt2(q)
    /\ mount_pc \in {"probe", "none"} /\ impls = <<>> =>
           \A q \in 0 .. 3 : ~HasExt2(q)
    /\ mount_pc \in {"mounted", "read"} =>
           p # 4 /\ HasExt2(p) /\ \A q \in 0 .. p - 1 : ~HasExt2(q)

MountInv ==
    /\ mbr \in [0 .. 3 -> Partition] /\ p \in 0 .. 4
    /\ mount_pc \in {"boot", "probe", "partition", "none", "mounted", "read"}
    /\ mount_pc = "none" => impls = <<>>
    /\ ProbeInv /\ PassedInv

\* What the partition table holds stays, and so do its file systems.
LEMMA SameTable ==
    ASSUME mbr' = mbr, NEW q
    PROVE  HasExt2(q)' <=> HasExt2(q)
BY DEF HasExt2, Used, Sb, MBR_read_block

\* The place of an inode from the start of its table is its place in a block
\* and the blocks before it.
LEMMA WholeBlocks ==
    ASSUME NEW t \in Nat, NEW off \in Nat, NEW b \in {1024, 2048}
    PROVE  (t + (off \div b)) * b + (off % b) = t * b + off
<1>1. CASE b = 1024
  BY <1>1
<1>2. CASE b = 2048
  BY <1>2
<1> QED
  BY <1>1, <1>2

\* The groups of a file system that can be read hold all its inodes.
LEMMA InGroups ==
    ASSUME NEW n \in Nat \ {0}, NEW m \in Nat, NEW g \in Nat, NEW k \in Nat,
           k # 0, n <= m, m <= g * k
    PROVE  /\ (n - 1) \div k \in 0 .. g - 1
           /\ (n - 1) % k \in Nat
<1> DEFINE d == (n - 1) \div k
           r == (n - 1) % k
<1>1. d \in Nat /\ r \in 0 .. k - 1 /\ n - 1 = k * d + r
  OBVIOUS
<1>2. d < g
  <2> HIDE DEF d, r
  <2>1. SUFFICES ASSUME g <= d PROVE FALSE
    BY <1>1
  <2>2. PICK e \in Nat : d = g + e
    BY <1>1, <2>1
  <2>3. k * d = k * g + k * e /\ k * e \in Nat /\ k * g = g * k
    BY <2>2
  <2> QED
    BY <1>1, <2>3
<1> QED
  BY <1>1, <1>2

\* read_inode answers every number of such a file system with its place and
\* every other with NULL.
LEMMA InodePlace ==
    ASSUME NEW sb \in Ext2SuperBlock, Readable(sb), NEW n \in Nat
    PROVE  read_inode(sb, n) = IF n \in 1 .. sb.num_inodes
                               THEN InodeAt(sb, n) ELSE NULL
<1>1. /\ sb.num_inodes \in Nat /\ sb.inode_size \in Nat
      /\ sb.num_group_inodes \in Nat /\ sb.num_group_inodes # 0
      /\ sb.num_group_blocks \in Nat /\ sb.num_group_blocks # 0
      /\ sb.num_blocks \in Nat
  BY DEF Ext2SuperBlock, Readable
<1>2. sb_block_size(sb) \in {1024, 2048} /\ GroupTableSector(sb) = 4
  <2>1. CASE sb.log_sub_10_block_size = 0
    BY <2>1 DEF sb_block_size, pow2, GroupTableSector
  <2>2. CASE sb.log_sub_10_block_size = 1
    BY <2>2 DEF sb_block_size, pow2, GroupTableSector, SECTOR
  <2> QED
    BY <2>1, <2>2 DEF Readable
<1>3. num_groups(sb) \in 0 .. 16
  <2>1. ASSUME NEW x \in Nat, NEW k \in Nat, k # 0
        PROVE  (x + k - 1) \div k \in Nat
    BY <2>1
  <2>2. num_groups(sb) \in Nat
    BY <1>1, <2>1 DEF num_groups
  <2>3. SECTOR \div 32 = 16
    BY DEF SECTOR
  <2> QED
    BY <2>2, <2>3 DEF Readable
<1>4. sb.num_inodes <= num_groups(sb) * sb.num_group_inodes
  BY <1>1, <1>3 DEF Readable
<1>5. CASE n \notin 1 .. sb.num_inodes
  BY <1>1, <1>5 DEF read_inode
<1>6. CASE n \in 1 .. sb.num_inodes
  <2> DEFINE g == (n - 1) \div sb.num_group_inodes
             i == (n - 1) % sb.num_group_inodes
             off == i * sb.inode_size
             b == sb_block_size(sb)
  <2>1. g \in 0 .. num_groups(sb) - 1 /\ i \in Nat
    BY <1>1, <1>3, <1>4, <1>6, InGroups
  <2>2. grp_table(sb, g) = InodeTable(g) /\ InodeTable(g) \in Nat
    BY <1>2, <1>3, <2>1
       DEF grp_table, SECTOR, EXT2_OFFSET, EXT2_SB_SIZE, InodeTable
  <2>3. off \in Nat
    BY <1>1, <2>1
  <2>4. read_inode(sb, n) = (InodeTable(g) + (off \div b)) * b + (off % b)
    <3>1. ~(n > sb.num_inodes) /\ n # 0 /\ ~(g >= num_groups(sb))
      BY <1>1, <1>3, <1>6, <2>1
    <3> QED
      BY <3>1, <2>2 DEF read_inode
  <2>5. @ = InodeTable(g) * b + off
    <3> HIDE DEF g, off, b
    <3> QED
      BY <1>2, <2>2, <2>3, WholeBlocks DEF b
  <2>6. InodeAt(sb, n) = InodeTable(g) * b + off
    BY DEF InodeAt
  <2> QED
    BY <1>6, <2>4, <2>5, <2>6
<1> QED
  BY <1>5, <1>6

LEMMA MountInvInit == MountInit => MountInv
BY DEF MountInit, MountInv, ProbeInv, PassedInv

LEMMA MountInvStep == MountInv /\ [MountNext]_mountVars => MountInv'
<1> SUFFICES ASSUME MountInv, [MountNext]_mountVars
             PROVE  MountInv'
  OBVIOUS
<1> USE DEF MountInv
<1>0. mbr' = mbr
  BY DEF MountNext, ext2_init, FS_probe, ext2_probe, ReadInode, mountVars
<1>1. \A q : HasExt2(q)' <=> HasExt2(q)
  BY <1>0, SameTable
<1>2. CASE ext2_init
  <2>1. <<"ext2">> \o <<>> = <<"ext2">> /\ <<"ext2">> # <<>>
    OBVIOUS
  <2> QED
    BY <1>0, <1>2, <2>1 DEF ext2_init, ProbeInv, PassedInv
<1>3. CASE FS_probe
  <2>1. CASE impls = <<>>
    BY <1>0, <1>1, <1>3, <2>1 DEF FS_probe, ProbeInv, PassedInv
  <2>2. CASE impls = <<"ext2">>
    <3>1. Tail(<<"ext2">>) = <<>> /\ <<"ext2">> # <<>>
      OBVIOUS
    <3> QED
      BY <1>0, <1>1, <1>3, <2>2, <3>1 DEF FS_probe, ProbeInv, PassedInv
  <2> QED
    BY <1>3, <2>1, <2>2 DEF FS_probe, ProbeInv
<1>4. CASE ext2_probe
  <2>1. CASE TableEnds /\ mount_pc' = "probe" /\ UNCHANGED <<p, root>>
    <3>1. ASSUME NEW q \in 0 .. 3 PROVE ~HasExt2(q)
      <4>1. CASE q < p
        BY <1>4, <3>1, <4>1 DEF ext2_probe, PassedInv
      <4>2. CASE p <= q
        <5>1. p \in 0 .. q /\ mbr[p].part_type = 0
          BY <2>1, <3>1, <4>2 DEF TableEnds
        <5> QED
          BY <5>1 DEF HasExt2, Used
      <4> QED
        BY <3>1, <4>1, <4>2
    <3> QED
      BY <1>0, <1>1, <1>4, <2>1, <3>1 DEF ext2_probe, ProbeInv, PassedInv
  <2>2. CASE /\ ~TableEnds /\ mbr[p].num_sectors >= 2 /\ Sb(p) # NoFS
             /\ mount_pc' = "mounted" /\ UNCHANGED p
    <3>1. p \in 0 .. 3 /\ mbr[p].part_type # 0
      BY <2>2 DEF TableEnds
    <3>2. \A k \in 0 .. p : mbr[k].part_type # 0
      BY <1>4, <3>1 DEF ext2_probe, PassedInv
    <3>3. HasExt2(p)
      BY <2>2, <3>2 DEF HasExt2, Used
    <3>4. \A q \in 0 .. p - 1 : ~HasExt2(q)
      BY <1>4 DEF ext2_probe, PassedInv
    <3> QED
      BY <1>0, <1>1, <2>2, <3>1, <3>3, <3>4 DEF ProbeInv, PassedInv
  <2>3. CASE /\ ~TableEnds /\ ~(mbr[p].num_sectors >= 2 /\ Sb(p) # NoFS)
             /\ p' = p + 1 /\ UNCHANGED <<mount_pc, root>>
    <3>1. p \in 0 .. 3 /\ mbr[p].part_type # 0 /\ ~HasExt2(p)
      BY <2>3 DEF TableEnds, HasExt2
    <3>2. mount_pc = "partition" /\ mount_pc' = "partition" /\ impls' = impls
      BY <1>4, <2>3 DEF ext2_probe
    <3>3. \A q \in 0 .. p' - 1 : mbr'[q].part_type # 0 /\ ~HasExt2(q)
      BY <1>0, <2>3, <3>1, <3>2 DEF PassedInv
    <3> QED
      BY <1>0, <1>1, <2>3, <3>1, <3>2, <3>3 DEF ProbeInv, PassedInv
  <2> QED
    BY <1>4, <2>1, <2>2, <2>3 DEF ext2_probe
<1>5. CASE ReadInode
  BY <1>0, <1>1, <1>5 DEF ReadInode, ProbeInv, PassedInv
<1>6. CASE UNCHANGED mountVars
  BY <1>0, <1>1, <1>6 DEF mountVars, ProbeInv, PassedInv
<1> QED
  BY <1>2, <1>3, <1>4, <1>5, <1>6 DEF MountNext

\* Whatever the four partitions hold, FS_probe mounts the first ext2 file
\* system, and finds none only if there is none.
THEOREM FirstIsMounted == MountSpec => []MountsFirst
<1>1. MountInv => MountsFirst
  BY DEF MountInv, PassedInv, MountsFirst
<1> QED
  BY <1>1, MountInvInit, MountInvStep, PTL DEF MountSpec

\* What read_inode was last asked for and answered.
AnswerInv ==
    /\ ino \in Nat
    /\ mount_pc = "mounted" => ino = 0 /\ inode = NULL
    /\ mount_pc \in {"boot", "probe", "partition", "none"} =>
           ino = 0 /\ inode = NULL
    /\ InodeFound

\* The file system mounted is one that can be read.
LEMMA MountedSb ==
    ASSUME MediaReadable, MountInv, p # 4, HasExt2(p)
    PROVE  /\ Sb(p) \in Ext2SuperBlock /\ Readable(Sb(p))
           /\ Sb(p).num_inodes \in Nat /\ 2 \in 1 .. Sb(p).num_inodes
<1>1. p \in 0 .. 3 /\ mbr[p] \in Partition /\ Sb(p) # NoFS
  BY DEF MountInv, HasExt2
<1>2. Sb(p) \in Ext2SuperBlock /\ Readable(Sb(p))
  BY <1>1, MountAssumption DEF MBRPartition, Sb, MBR_read_block, MediaReadable
<1>3. Sb(p).num_inodes \in Nat
  BY <1>2 DEF Ext2SuperBlock
<1> QED
  BY <1>2, <1>3 DEF Readable

LEMMA AnswerInvStep ==
    ASSUME MediaReadable, MountInv, AnswerInv, [MountNext]_mountVars
    PROVE  AnswerInv'
<1>0. mbr' = mbr /\ \A q : Sb(q)' = Sb(q)
  BY DEF MountNext, ext2_init, FS_probe, ext2_probe, ReadInode, mountVars, Sb,
         MBR_read_block
<1>1. CASE ext2_init
  BY <1>1 DEF ext2_init, AnswerInv, InodeFound
<1>2. CASE FS_probe
  BY <1>2 DEF FS_probe, AnswerInv, InodeFound
<1>3. CASE ext2_probe
  <2>1. CASE TableEnds /\ mount_pc' = "probe" /\ UNCHANGED <<p, root>>
    BY <1>3, <2>1 DEF ext2_probe, AnswerInv, InodeFound
  <2>2. CASE /\ ~TableEnds /\ mbr[p].num_sectors >= 2 /\ Sb(p) # NoFS
             /\ mount_pc' = "mounted" /\ root' = read_inode(Sb(p), 2)
             /\ UNCHANGED p
    <3>1. p # 4 /\ HasExt2(p)
      <4>1. MountInv' /\ mount_pc' = "mounted"
        BY <2>2, MountInvStep
      <4>2. p' # 4 /\ HasExt2(p)'
        BY <4>1 DEF MountInv, PassedInv
      <4> QED
        BY <1>0, <2>2, <4>2, SameTable
    <3>2. root' = InodeAt(Sb(p), 2)
      BY <2>2, <3>1, MountedSb, InodePlace
    <3>3. ino' = 0 /\ inode' = NULL /\ p' = p
      BY <1>3, <2>2 DEF ext2_probe, AnswerInv
    <3>4. 0 \notin 1 .. Sb(p).num_inodes
      BY <3>1, MountedSb
    <3>5. (Sb(p))' = Sb(p)
      BY <1>0, <3>3 DEF Sb, MBR_read_block
    <3> QED
      BY <2>2, <3>2, <3>3, <3>4, <3>5 DEF AnswerInv, InodeFound
  <2>3. CASE ~TableEnds /\ p' = p + 1 /\ UNCHANGED <<mount_pc, root>>
    BY <1>3, <2>3 DEF ext2_probe, AnswerInv, InodeFound
  <2> QED
    BY <1>3, <2>1, <2>2, <2>3 DEF ext2_probe
<1>4. CASE ReadInode
  <2>1. p # 4 /\ HasExt2(p)
    BY <1>4 DEF ReadInode, MountInv, PassedInv
  <2>2. PICK n \in 0 .. Sb(p).num_inodes + 1 :
            ino' = n /\ inode' = read_inode(Sb(p), n)
    BY <1>4 DEF ReadInode
  <2>3. n \in Nat
    BY <2>1, <2>2, MountedSb
  <2>4. inode' = IF n \in 1 .. Sb(p).num_inodes THEN InodeAt(Sb(p), n) ELSE NULL
    BY <2>1, <2>2, <2>3, MountedSb, InodePlace
  <2>5. (Sb(p))' = Sb(p) /\ root' = root /\ mount_pc' = "read"
    BY <1>0, <1>4 DEF ReadInode, Sb, MBR_read_block
  <2>6. root = InodeAt(Sb(p), 2)
    BY <1>4 DEF ReadInode, AnswerInv, InodeFound
  <2> QED
    BY <2>2, <2>3, <2>4, <2>5, <2>6 DEF AnswerInv, InodeFound
<1>5. CASE UNCHANGED mountVars
  BY <1>5 DEF mountVars, AnswerInv, InodeFound, Sb, MBR_read_block
<1> QED
  BY <1>1, <1>2, <1>3, <1>4, <1>5 DEF MountNext

\* On every drive whose file systems have their group table where
\* ext2_superblock_init reads it, read_inode finds the root and each inode of
\* the file system mounted, whatever its groups and the sizes of its inodes,
\* and answers every other number with NULL.
THEOREM InodesFound == ASSUME MediaReadable PROVE MountSpec => []FindsInode
<1>1. MountInit => AnswerInv
  BY DEF MountInit, AnswerInv, InodeFound
<1>2. MountInv /\ AnswerInv /\ [MountNext]_mountVars => AnswerInv'
  BY AnswerInvStep
<1>3. MountInv /\ AnswerInv => FindsInode
  BY DEF MountInv, PassedInv, MountsFirst, AnswerInv, FindsInode
<1> QED
  BY <1>1, <1>2, <1>3, MountInvInit, MountInvStep, PTL DEF MountSpec

-----------------------------------------------------------------------------
(* Directories.                                                            *)

\* The entry of block i at offset o is behind readdir.
Passed(i, o) == i < dir_block \/ (i = dir_block /\ o < header)

\* What the callback has noted is the inode of an entry passed that has the
\* wanted name, or nothing if none has it.
NotedInv ==
    \/ /\ dir_ino = Unset
       /\ \A i \in DOMAIN dir : \A o \in DOMAIN dir[i] :
             Passed(i, o) => dir[i][o].name # Wanted
    \/ \E i \in DOMAIN dir : \E o \in DOMAIN dir[i] :
             dir[i][o].name = Wanted /\ dir[i][o].ino = dir_ino

DirInv ==
    /\ dir \in Directory
    /\ dir_pc \in {"idle", "entry", "done"}
    /\ dir_block \in Nat \ {0} /\ header \in Nat
    /\ dir_pc = "idle" => dir_block = 1 /\ header = 0
    /\ dir_pc = "entry" => /\ dir_block \in DOMAIN dir
                           /\ InBlock => header \in DOMAIN dir[dir_block]
    /\ Plain => /\ NotedInv
                /\ dir_pc = "done" => \A i \in DOMAIN dir :
                                         \A o \in DOMAIN dir[i] : Passed(i, o)

\* What a directory is made of.
LEMMA DirFacts ==
    ASSUME dir \in Directory
    PROVE  /\ Len(dir) \in Nat /\ DOMAIN dir = 1 .. Len(dir)
           /\ dir # <<>> => 1 \in DOMAIN dir
           /\ \A i \in DOMAIN dir :
                 /\ 0 \in DOMAIN dir[i] /\ Chained(dir[i])
                 /\ \A o \in DOMAIN dir[i] :
                       /\ o \in Nat /\ o < dir_block_size
                       /\ dir[i][o] \in Ext2DirEntryHeader
           /\ dir_block_size \in Nat
<1>1. dir \in Seq({dir[i] : i \in DOMAIN dir})
  BY Ext2DirAssumption
<1>2. /\ Len(dir) \in Nat /\ DOMAIN dir = 1 .. Len(dir)
      /\ dir # <<>> => 1 \in DOMAIN dir
  BY <1>1
<1>3. ASSUME NEW i \in DOMAIN dir
      PROVE  /\ 0 \in DOMAIN dir[i] /\ Chained(dir[i])
             /\ \A o \in DOMAIN dir[i] : /\ o \in Nat /\ o < dir_block_size
                                         /\ dir[i][o] \in Ext2DirEntryHeader
  <2>1. /\ DOMAIN dir[i] \subseteq 0 .. dir_block_size - 1
        /\ \A o \in DOMAIN dir[i] : dir[i][o] \in Ext2DirEntryHeader
        /\ Chained(dir[i])
    BY <1>3, Ext2DirAssumption
  <2>2. 0 \in DOMAIN dir[i]
    BY <2>1 DEF Chained
  <2>3. dir_block_size \in Nat
    BY Ext2DirAssumption
  <2> QED
    BY <2>1, <2>2, <2>3
<1> QED
  BY <1>2, <1>3, Ext2DirAssumption

\* strcmp finds the wanted name, and only that, among names of which no other
\* begins like it.
LEMMA PlainNames ==
    ASSUME NEW name \in Seq(Nat), name # <<>>,
           name[1] = Wanted[1] => name = Wanted
    PROVE  strcmp(name, Wanted) = 0 <=> name = Wanted
<1>0. Wanted \in Seq(Nat) /\ Wanted # <<>>
  BY Ext2DirAssumption
<1> DEFINE m == Min({strlen(name), strlen(Wanted)})
           diff == {i \in 1 .. m : name[i] # Wanted[i]}
<1>1. CASE name = Wanted
  <2>1. diff = {}
    BY <1>1
  <2> QED
    BY <1>1, <2>1 DEF strcmp
<1>2. CASE name # Wanted
  <2>1. name[1] # Wanted[1]
    BY <1>2
  <2>2. /\ Len(name) \in Nat \ {0} /\ Len(Wanted) \in Nat \ {0}
        /\ name[1] \in Nat /\ Wanted[1] \in Nat
    BY <1>0
  <2>3. m \in {Len(name), Len(Wanted)}
    <3>1. \E x \in {Len(name), Len(Wanted)} :
              \A y \in {Len(name), Len(Wanted)} : x <= y
      <4>1. CASE Len(name) <= Len(Wanted)
        BY <2>2, <4>1
      <4>2. CASE Len(Wanted) <= Len(name)
        BY <2>2, <4>2
      <4> QED
        BY <2>2, <4>1, <4>2
    <3> QED
      BY <3>1 DEF Min, strlen
  <2>4. m \in Nat \ {0}
    BY <2>2, <2>3
  <2>5. 1 \in diff /\ \A y \in diff : y \in Nat /\ 1 <= y
    <3> HIDE DEF m
    <3> QED
      BY <2>1, <2>4
  <2>6. Min(diff) = 1
    <3> HIDE DEF diff
    <3>1. Min(diff) \in diff /\ \A y \in diff : Min(diff) <= y
      BY <2>5 DEF Min
    <3> QED
      BY <2>5, <3>1
  <2>7. strcmp(name, Wanted) = name[1] - Wanted[1]
    BY <2>5, <2>6 DEF strcmp
  <2> QED
    BY <1>2, <2>1, <2>2, <2>7
<1> QED
  BY <1>1, <1>2

\* Every entry of a plain directory is in use and its name is unlike others.
LEMMA PlainEntry ==
    ASSUME Plain, NEW i \in DOMAIN dir, NEW o \in DOMAIN dir[i]
    PROVE  /\ dir[i][o].ino # 0
           /\ dir[i][o].name[1] = Wanted[1] => dir[i][o].name = Wanted
<1>1. dir[i][o] \in Headers
  BY DEF Headers
<1> QED
  BY <1>1 DEF Plain, Entries

LEMMA DirInvInit == DirInit => DirInv
<1> SUFFICES ASSUME DirInit PROVE DirInv
  OBVIOUS
<1>1. \A i \in DOMAIN dir : \A o \in DOMAIN dir[i] :
         i \in Nat /\ i # 0 /\ o \in Nat
  BY DirFacts DEF DirInit
<1>2. \A i \in DOMAIN dir : \A o \in DOMAIN dir[i] : ~Passed(i, o)
  BY <1>1 DEF Passed, DirInit
<1> QED
  BY <1>2 DEF DirInit, DirInv, NotedInv

LEMMA DirInvStep == DirInv /\ [DirNext]_dirVars => DirInv'
<1> SUFFICES ASSUME DirInv, [DirNext]_dirVars
             PROVE  DirInv'
  OBVIOUS
<1> DEFINE O(i) == DOMAIN dir[i]
<1>0. /\ dir' = dir /\ dir \in Directory
      /\ Plain' <=> Plain
  <2>1. dir' = dir
    BY DEF DirNext, readdir, NextEntry, NextBlock, dirVars
  <2>2. Headers' = Headers
    BY <2>1 DEF Headers
  <2> QED
    BY <2>1, <2>2 DEF DirInv, Plain, Entries
<1>1. /\ Len(dir) \in Nat /\ DOMAIN dir = 1 .. Len(dir)
      /\ dir # <<>> => 1 \in DOMAIN dir
      /\ dir_block_size \in Nat
  BY <1>0, DirFacts
<1>2. ASSUME NEW i \in DOMAIN dir
      PROVE  /\ i \in Nat /\ 0 \in O(i) /\ Chained(dir[i])
             /\ \A o \in O(i) : /\ o \in Nat /\ o < dir_block_size
                                /\ dir[i][o] \in Ext2DirEntryHeader
  BY <1>0, <1>1, DirFacts
<1>3. CASE readdir
  <2>1. /\ UNCHANGED <<dir, dir_block, header, dir_ino>> /\ dir_pc = "idle"
        /\ dir_pc' = IF dir = <<>> THEN "done" ELSE "entry"
    BY <1>3 DEF readdir
  <2>2. dir_block = 1 /\ header = 0
    BY <2>1 DEF DirInv
  <2>3. Plain => NotedInv'
    BY <2>1 DEF DirInv, NotedInv, Passed
  <2>4. dir = <<>> => DOMAIN dir = {}
    OBVIOUS
  <2>5. dir_pc' = "entry" => /\ dir_block' \in DOMAIN dir'
                             /\ header' \in DOMAIN dir'[dir_block']
    BY <1>1, <1>2, <2>1, <2>2
  <2> QED
    BY <1>0, <2>1, <2>2, <2>3, <2>4, <2>5 DEF DirInv
<1>4. CASE NextEntry
  <2> DEFINE n == align_pointer(header + Entry.entry_size, 4)
  <2>1. /\ UNCHANGED <<dir, dir_pc, dir_block>> /\ dir_pc = "entry" /\ InBlock
        /\ header' = n
        /\ dir_ino' = IF strcmp(Entry.name, Wanted) = 0
                      THEN Entry.ino ELSE dir_ino
    BY <1>4 DEF NextEntry, readdir_cb
  <2>2. dir_block \in DOMAIN dir /\ header \in O(dir_block) /\ header \in Nat
    BY <2>1 DEF DirInv
  <2>3. /\ header < n
        /\ n < dir_block_size => n \in O(dir_block)
        /\ \A q \in O(dir_block) : q <= header \/ n <= q
    BY <1>2, <2>2 DEF Chained, Entry
  <2>4. Entry \in Ext2DirEntryHeader
    BY <1>2, <2>2 DEF Entry
  <2>5. n \in Nat
    <3>1. Entry.entry_size \in Nat
      BY <2>4 DEF Ext2DirEntryHeader
    <3> QED
      BY <2>2, <3>1 DEF align_pointer
  <2> HIDE DEF n
  <2>6. ASSUME NEW i \in DOMAIN dir, NEW o \in O(i)
        PROVE  Passed(i, o)' <=> Passed(i, o) \/ (i = dir_block /\ o = header)
    <3>1. i \in Nat /\ o \in Nat
      BY <1>2
    <3>2. i = dir_block => o <= header \/ n <= o
      BY <2>3, <2>6
    <3> QED
      BY <2>1, <2>2, <2>3, <2>5, <3>1, <3>2 DEF Passed
  <2>7. ASSUME Plain PROVE NotedInv'
    <3>1. Entry.name \in Seq(Nat) /\ Entry.name # <<>>
      BY <2>4 DEF Ext2DirEntryHeader
    <3>2. Entry.name[1] = Wanted[1] => Entry.name = Wanted
      BY <2>2, <2>7, PlainEntry DEF Entry
    <3>3. strcmp(Entry.name, Wanted) = 0 <=> Entry.name = Wanted
      BY <3>1, <3>2, PlainNames
    <3>4. CASE Entry.name = Wanted
      <4>1. dir_ino' = Entry.ino
        BY <2>1, <3>3, <3>4
      <4>2. /\ dir[dir_block][header].name = Wanted
            /\ dir[dir_block][header].ino = dir_ino'
        BY <3>4, <4>1 DEF Entry
      <4> QED
        BY <1>0, <2>2, <4>2 DEF NotedInv
    <3>5. CASE Entry.name # Wanted
      <4>1. dir_ino' = dir_ino
        BY <2>1, <3>3, <3>5
      <4>2. NotedInv
        BY <2>7 DEF DirInv
      <4>3. CASE \E i \in DOMAIN dir : \E o \in DOMAIN dir[i] :
                    dir[i][o].name = Wanted /\ dir[i][o].ino = dir_ino
        BY <1>0, <4>1, <4>3 DEF NotedInv
      <4>4. CASE /\ dir_ino = Unset
                 /\ \A i \in DOMAIN dir : \A o \in DOMAIN dir[i] :
                       Passed(i, o) => dir[i][o].name # Wanted
        <5>1. ASSUME NEW i \in DOMAIN dir, NEW o \in DOMAIN dir[i],
                     Passed(i, o)'
              PROVE  dir[i][o].name # Wanted
          BY <2>6, <3>5, <4>4, <5>1 DEF Entry
        <5> QED
          BY <1>0, <4>1, <4>4, <5>1 DEF NotedInv
      <4> QED
        BY <4>2, <4>3, <4>4 DEF NotedInv
    <3> QED
      BY <3>4, <3>5
  <2>8. InBlock' => header' \in DOMAIN dir'[dir_block']
    BY <2>1, <2>3, <2>5, <1>0 DEF InBlock
  <2> QED
    BY <1>0, <2>1, <2>2, <2>5, <2>7, <2>8 DEF DirInv
<1>5. CASE NextBlock
  <2>1. /\ dir_pc = "entry" /\ UNCHANGED <<dir, dir_ino>>
        /\ InBlock => Entry.ino = 0
    BY <1>5 DEF NextBlock
  <2>2. dir_block \in DOMAIN dir /\ dir_block \in Nat /\ header \in Nat
    BY <2>1 DEF DirInv
  <2>3. ASSUME Plain, NEW o \in O(dir_block) PROVE o < header
    <3>1. ~InBlock
      BY <2>1, <2>2, <2>3, PlainEntry DEF DirInv, Entry
    <3>2. o \in Nat /\ o < dir_block_size
      BY <1>2, <2>2
    <3> QED
      BY <1>1, <2>2, <3>1, <3>2 DEF InBlock
  <2>4. ASSUME Plain, NEW i \in DOMAIN dir, NEW o \in O(i)
        PROVE  Passed(i, o) <=> i <= dir_block
    <3>1. i \in Nat
      BY <1>2
    <3> QED
      BY <2>2, <2>3, <2>4, <3>1 DEF Passed
  <2>5. CASE dir_block < Len(dir)
    <3>1. dir_block' = dir_block + 1 /\ header' = 0 /\ dir_pc' = dir_pc
      BY <1>5, <2>5 DEF NextBlock
    <3>2. ASSUME Plain, NEW i \in DOMAIN dir, NEW o \in O(i)
          PROVE  Passed(i, o)' <=> Passed(i, o)
      <4>1. i \in Nat /\ o \in Nat
        BY <1>2
      <4>2. Passed(i, o) <=> i <= dir_block
        BY <2>4, <3>2
      <4> QED
        BY <2>2, <3>1, <4>1, <4>2 DEF Passed
    <3>3. Plain => NotedInv'
      BY <1>0, <2>1, <3>2 DEF DirInv, NotedInv
    <3>4. dir_block' \in DOMAIN dir' /\ header' \in DOMAIN dir'[dir_block']
      <4>1. dir_block + 1 \in DOMAIN dir
        BY <1>1, <2>2, <2>5
      <4> QED
        BY <1>0, <1>2, <3>1, <4>1
    <3> QED
      BY <1>0, <2>1, <2>2, <3>1, <3>3, <3>4 DEF DirInv
  <2>6. CASE ~(dir_block < Len(dir))
    <3>1. dir_pc' = "done" /\ UNCHANGED <<dir_block, header>>
      BY <1>5, <2>6 DEF NextBlock
    <3>2. Plain => NotedInv'
      BY <1>0, <2>1, <3>1 DEF DirInv, NotedInv, Passed
    <3>3. ASSUME Plain, NEW i \in DOMAIN dir, NEW o \in O(i)
          PROVE  Passed(i, o)'
      <4>1. i <= dir_block
        BY <1>1, <2>2, <2>6
      <4>2. Passed(i, o)
        BY <2>4, <3>3, <4>1
      <4> QED
        BY <3>1, <4>2 DEF Passed
    <3> QED
      BY <1>0, <2>1, <2>2, <3>1, <3>2, <3>3 DEF DirInv
  <2> QED
    BY <2>5, <2>6
<1>6. CASE UNCHANGED dirVars
  BY <1>6 DEF dirVars, DirInv, NotedInv, Passed, InBlock, Plain, Entries,
              Headers
<1> QED
  BY <1>3, <1>4, <1>5, <1>6 DEF DirNext

\* In every directory, of any number of blocks and entries, without deleted
\* entries and without other names that begin like the wanted one, readdir ends
\* with the inode of that name noted, or none if it is not there.
THEOREM PlainNameFound == DirSpec => []FindsPlain
<1>1. DirInv => FindsPlain
  <2> SUFFICES ASSUME DirInv, dir_pc = "done", Plain PROVE Found
    BY DEF FindsPlain
  <2>1. NotedInv /\ \A i \in DOMAIN dir : \A o \in DOMAIN dir[i] : Passed(i, o)
    BY DEF DirInv
  <2>2. CASE \E i \in DOMAIN dir : \E o \in DOMAIN dir[i] :
                dir[i][o].name = Wanted /\ dir[i][o].ino = dir_ino
    <3>1. PICK i \in DOMAIN dir : \E o \in DOMAIN dir[i] :
                dir[i][o].name = Wanted /\ dir[i][o].ino = dir_ino
      BY <2>2
    <3>2. PICK o \in DOMAIN dir[i] :
                dir[i][o].name = Wanted /\ dir[i][o].ino = dir_ino
      BY <3>1
    <3>3. dir[i][o] \in Entries
      BY PlainEntry DEF Entries, Headers
    <3>4. dir_ino \in Named
      BY <3>2, <3>3 DEF Named
    <3> QED
      BY <3>4 DEF Found
  <2>3. CASE /\ dir_ino = Unset
             /\ \A i \in DOMAIN dir : \A o \in DOMAIN dir[i] :
                   dir[i][o].name # Wanted
    <3>1. \A e \in Entries : e.name # Wanted
      BY <2>3 DEF Entries, Headers
    <3>2. Named = {}
      BY <3>1 DEF Named
    <3> QED
      BY <2>3, <3>2 DEF Found
  <2> QED
    BY <2>1, <2>2, <2>3 DEF NotedInv
<1> QED
  BY <1>1, DirInvInit, DirInvStep, PTL DEF DirSpec
=============================================================================
