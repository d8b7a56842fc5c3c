------------------------------ MODULE Ext2Dir ------------------------------
(***************************************************************************)
(* Looking up a name: readdir of src/ext2.c, the callbacks of src/kmain.c  *)
(* and strcmp of src/string.c.  A block of a directory maps the offsets at *)
(* which an entry begins to the entry; a name is a sequence of character   *)
(* codes.                                                                  *)
(***************************************************************************)
EXTENDS Integers, Sequences, FiniteSetsExt

CONSTANTS dir_block_size,   \* of the file system
          Directory,   \* the directories: a sequence of blocks each
          Wanted,      \* the name the callback looks for
          Unset        \* what the caller's ino holds before

Ext2DirEntryHeader == [ino : Nat, entry_size : Nat,
                       name : Seq(Nat) \ {<<>>}]

align_pointer(addr, boundary) ==
    IF addr % boundary = 0 THEN addr
                           ELSE addr + boundary - (addr % boundary)

\* The entries of a block, from its first byte on, each as far as the next one
\* or the end of the block.
Chained(b) ==
    /\ 0 \in DOMAIN b
    /\ \A o \in DOMAIN b :
          LET next == align_pointer(o + b[o].entry_size, 4)
          IN  /\ o < next
              /\ next < dir_block_size => next \in DOMAIN b
              /\ \A q \in DOMAIN b : q <= o \/ next <= q

\* Names are not empty.
ASSUME Ext2DirAssumption ==
    /\ dir_block_size \in Nat \ {0} /\ Wanted \in Seq(Nat) \ {<<>>}
    /\ \A d \in Directory :
          /\ d \in Seq({d[i] : i \in DOMAIN d})
          /\ \A i \in DOMAIN d :
                /\ DOMAIN d[i] \subseteq 0 .. dir_block_size - 1
                /\ \A o \in DOMAIN d[i] : d[i][o] \in Ext2DirEntryHeader
                /\ Chained(d[i])

VARIABLES
    dir,               \* the directory, or a file that is none: <<>>
    dir_pc,
    dir_block, header, \* readdir: the block and the offset of the entry in it
    dir_ino            \* the inode number the callback has noted

dirVars == <<dir, dir_pc, dir_block, header, dir_ino>>

DirInit ==
    /\ dir \in Directory
    /\ dir_pc = "idle" /\ dir_block = 1 /\ header = 0 /\ dir_ino = Unset

-----------------------------------------------------------------------------
strlen(s) == Len(s)

\* The first difference decides, as the difference from b[0]; strings that
\* agree as far as the shorter one goes are equal.
strcmp(a, b) ==
    LET diff == {i \in 1 .. Min({strlen(a), strlen(b)}) : a[i] # b[i]}
    IN  IF diff = {} THEN 0 ELSE a[Min(diff)] - b[1]

Entry == dir[dir_block][header]

\* The caller's callback, readdir_boot or readdir_kern.  The inode it is given
\* is the one that read_inode finds for the entry's number: entries name
\* inodes the file system has.  On a medium where they do not, read_inode
\* returns NULL and the callback, once the name agrees, reads through it.
readdir_cb(name, n) ==
    dir_ino' = IF strcmp(name, Wanted) = 0 THEN n ELSE dir_ino

\* The mode is tested and the first block read.
readdir ==
    /\ dir_pc = "idle"
    /\ dir_pc' = IF dir = <<>> THEN "done" ELSE "entry"
    /\ UNCHANGED <<dir, dir_block, header, dir_ino>>

InBlock == header < dir_block_size

\* An entry in use: the callback, then the entry behind it.
NextEntry ==
    /\ dir_pc = "entry" /\ InBlock
    /\ Entry.ino # 0
    /\ readdir_cb(Entry.name, Entry.ino)
    /\ header' = align_pointer(header + Entry.entry_size, 4)
    /\ UNCHANGED <<dir, dir_pc, dir_block>>

\* Fault: the blocks behind the first are not read.
FirstBlockOnly ==
    /\ dir_pc = "entry"
    /\ IF InBlock THEN Entry.ino = 0 ELSE TRUE
    /\ dir_pc' = "done" /\ UNCHANGED <<dir, dir_block, header, dir_ino>>

\* The end of the block, or an entry whose inode number is 0.
NextBlock ==
    /\ dir_pc = "entry"
    /\ IF InBlock THEN Entry.ino = 0 ELSE TRUE
    /\ IF dir_block < Len(dir)
       THEN dir_block' = dir_block + 1 /\ header' = 0 /\ dir_pc' = dir_pc
       ELSE dir_pc' = "done" /\ UNCHANGED <<dir_block, header>>
    /\ UNCHANGED <<dir, dir_ino>>

DirNext == readdir \/ NextEntry \/ NextBlock

DirSpec == DirInit /\ [][DirNext]_dirVars

-----------------------------------------------------------------------------
Headers == UNION {{dir[i][o] : o \in DOMAIN dir[i]} : i \in DOMAIN dir}
Entries == {e \in Headers : e.ino # 0}

Named == {e.ino : e \in {f \in Entries : f.name = Wanted}}

\* No entry was deleted and no other name begins like the wanted one.
Plain == /\ Entries = Headers
         /\ \A e \in Entries : e.name[1] = Wanted[1] => e.name = Wanted

Found == dir_ino \in IF Named = {} THEN {Unset} ELSE Named

\* In such a directory, whatever the blocks and the padding of its entries,
\* readdir ends with the inode of the wanted name noted, or none.
FindsPlain == dir_pc = "done" /\ Plain => Found
=============================================================================
