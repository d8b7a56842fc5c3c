------------------------------ MODULE Ext2File ------------------------------
(***************************************************************************)
(* Reading a file, src/ext2.c: ext2_file_open, ext2_file_read and          *)
(* read_inode_block, as drive_init of kmain.c calls them, with buffers of  *)
(* any length.  Byte i of the file is the number i; the rest of the last   *)
(* block follows in the same way.                                          *)
(***************************************************************************)
EXTENDS Integers, Sequences

CONSTANTS block_size,
          NUM_DIRECT_BLOCKS,
          num_indirect_per,   \* block_size / sizeof(uint32_t)
          Sizes, Lens         \* sizes of the file, lengths of the buffers

ASSUME Ext2FileAssumption ==
    /\ {block_size, NUM_DIRECT_BLOCKS, num_indirect_per} \subseteq Nat \ {0}
    /\ Sizes \subseteq Nat /\ Lens \subseteq Nat \ {0}

VARIABLES
    st_size,                           \* of the inode
    cursor,                            \* of the file
    pc, len, bytes_read, block, dst,   \* one call of ext2_file_read
    out                                \* what the calls so far have returned

vars == <<st_size, cursor, pc, len, bytes_read, block, dst, out>>

\* ext2_file_open.
Init == /\ st_size \in Sizes
        /\ cursor = 0
        /\ pc = "idle" /\ len = 0 /\ bytes_read = 0 /\ block = 0 /\ dst = <<>>
        /\ out = <<>>

-----------------------------------------------------------------------------
\* The blocks of the medium, named by what they hold: a block of the file,
\* or the pointer block reached by a path.
DataBlock(b) == [kind |-> "data", path |-> <<b>>]
PointerBlock(path) == [kind |-> "pointers", path |-> path]

N == num_indirect_per

\* No file needs the doubly indirect pointer.
FilesSmall == \A s \in Sizes : s <= (NUM_DIRECT_BLOCKS + N) * block_size

\* What entry i of a pointer block points at on a correct medium.
Pointer(p, i) ==
    CASE p = <<"single">> -> DataBlock(NUM_DIRECT_BLOCKS + i)
      [] p = <<"double">> -> PointerBlock(<<"double", i>>)
      [] p[1] = "double" /\ Len(p) = 2 ->
             DataBlock(NUM_DIRECT_BLOCKS + N + p[2] * N + i)
      [] OTHER -> PointerBlock(<<"none">>)

\* Fault: the first indirect pointer is skipped.
OffByOne(b) == IF b < NUM_DIRECT_BLOCKS THEN DataBlock(b)
               ELSE Pointer(<<"single">>, b - NUM_DIRECT_BLOCKS + 1)

\* read_inode_block: the block it reads for block b of the file.  With two
\* levels it takes both entries from the singly indirect block; with three,
\* both from the doubly indirect one.
read_inode_block(b) ==
    LET s == b - NUM_DIRECT_BLOCKS
        d == s - N
        t == d - N * N
    IN  CASE b < NUM_DIRECT_BLOCKS -> DataBlock(b)
          [] s >= 0 /\ s < N -> Pointer(<<"single">>, s)
          [] d >= 0 /\ d < N * N -> Pointer(<<"single">>, d % N)
          [] OTHER -> Pointer(<<"double">>, (t % (N * N)) % N)

\* ext2_read_block: the bytes of a block; a pointer block is not file data.
ext2_read_block(b) ==
    [i \in 1 .. block_size |->
        IF b.kind = "data" THEN b.path[1] * block_size + i - 1 ELSE -1]

\* memcpy of n bytes of the block from offset off to the end of dst.
Copy(off, n) == dst \o SubSeq(ext2_read_block(read_inode_block(block)),
                              off + 1, off + n)

\* A call with a buffer of n bytes.
ext2_file_read(n) ==
    /\ pc = "idle"
    /\ pc' = "loop"
    /\ len' = n /\ bytes_read' = 0 /\ dst' = <<>>
    /\ block' = cursor \div block_size
    /\ UNCHANGED <<st_size, cursor, out>>

\* The end of one turn of the loop.
Copied(off, n) == /\ dst' = Copy(off, n)
                  /\ bytes_read' = bytes_read + n
                  /\ cursor' = cursor + n
                  /\ block' = block + 1
                  /\ UNCHANGED <<st_size, pc, len, out>>

InLoop == pc = "loop" /\ bytes_read < len /\ cursor < st_size
Offset == cursor % block_size

\* The rest of a block begun by an earlier call, whatever len is.
RestOfBlock == InLoop /\ Offset # 0 /\ Copied(Offset, block_size - Offset)

\* Fault: a whole block is copied to the end of the buffer.
WholeBlock == /\ InLoop /\ Offset = 0 /\ bytes_read + block_size >= len
              /\ Copied(0, block_size)

\* As much as the buffer takes, whatever is left of the file.
FillBuffer == /\ InLoop /\ Offset = 0 /\ bytes_read + block_size >= len
              /\ Copied(0, len - bytes_read)

LastBlock == /\ InLoop /\ Offset = 0 /\ bytes_read + block_size < len
             /\ cursor + block_size >= st_size
             /\ Copied(0, st_size - cursor)

FullBlock == /\ InLoop /\ Offset = 0 /\ bytes_read + block_size < len
             /\ cursor + block_size < st_size
             /\ Copied(0, block_size)

\* The call returns; drive_init calls again until it gets 0.
Return ==
    /\ pc = "loop" /\ (bytes_read >= len \/ cursor >= st_size)
    /\ pc' = IF bytes_read = 0 THEN "end" ELSE "idle"
    /\ out' = out \o dst
    /\ UNCHANGED <<st_size, cursor, len, bytes_read, block, dst>>

Step == RestOfBlock \/ FillBuffer \/ LastBlock \/ FullBlock \/ Return

Read == \E n \in Lens : ext2_file_read(n)

Next == Read \/ Step

Spec == Init /\ [][Next]_vars

-----------------------------------------------------------------------------
Returned == IF pc = "loop" THEN out \o dst ELSE out

\* Calls of any lengths return the bytes of the file in order, none twice
\* and none left out, wherever a call ends in a block.
InOrder == \A i \in DOMAIN Returned : Returned[i] = i - 1

\* A read of 0 bytes, which ends the loop of drive_init, comes only behind
\* the whole file, with no more of its last block than is there.
AllRead == pc = "end" => /\ Len(out) >= st_size
                         /\ Len(out) < st_size + block_size

\* drive_init gets the file from ext2_file_read, whatever the lengths of its
\* buffers: all bytes in order.
ReadsFile == InOrder /\ AllRead

\* A buffer of at least one block is never written past its end; a shorter
\* one by less than a block.
FitsBuffer == /\ Len(dst) = bytes_read
              /\ len >= block_size => bytes_read <= len
              /\ bytes_read < len + block_size
=============================================================================
