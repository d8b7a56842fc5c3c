----------------------------- MODULE MCFilesText ----------------------------
(* Files and text for TLC: mounting, looking up a name, reading a file; the *)
(* console and printk.  They share no variable: in a behaviour one of them  *)
(* moves.                                                                   *)
(*                                                                          *)
(* Files with blocks of four bytes, two direct and two indirect ones, read  *)
(* with buffers shorter and longer than a block in any order; partitions    *)
(* without a file system, too small, unused, and with file systems of one,  *)
(* two and sixteen groups of blocks of 1K and 2K, whose inode tables span   *)
(* several blocks; directories of up to two blocks of up to three entries.  *)
(* A screen of three rows of three cells, once printed on with carriage     *)
(* returns and cells written from outside, once with text alone; formats of *)
(* two items, each one turn of the loop of printk.                          *)
EXTENDS Ext2File, Ext2Mount, Ext2Dir, Vga, Functions

CONSTANTS TextChar,                          \* the characters of plain text
          SHORT, INT, LONG, Args             \* of Printk

VARIABLES moves,
    text_cleared, text_buf, text_cursor,     \* the screen with text alone
    fmt, at, vga, ser, printed, last         \* of Printk

textVars == <<text_cleared, text_buf, text_cursor>>
printkVars == <<fmt, at, vga, ser, printed, last>>
mcVars == <<moves, vars, mountVars, dirVars, vgaVars, textVars, printkVars>>

-----------------------------------------------------------------------------
(* The media.                                                              *)

Ext2(log, groups, isize) ==
    [log_sub_10_block_size |-> log, num_blocks |-> 20 * groups - 7,
     num_group_blocks |-> 20, num_inodes |-> 12 * groups,
     num_group_inodes |-> 12, inode_size |-> isize]

PartEntry(type, n, sb) == [part_type |-> type, num_sectors |-> n, sb |-> sb]

Unused == PartEntry(0, 0, NoFS)
MCPartition ==
    {Unused, PartEntry(7, 64, NoFS), PartEntry(131, 1, NoFS)} \cup
    {PartEntry(131, 64, fs) :
        fs \in {Ext2(0, 1, 128), Ext2(0, 16, 256), Ext2(1, 2, 256)}}

\* Names, as the codes of their characters.
dot == <<46>>
dotdot == <<46, 46>>
boot == <<98, 111, 111, 116>>
boot_old == boot \o <<46, 111>>
lost == <<108, 43>>
home == <<104, 111, 109>>

\* A block of entries with these names, the last one up to its end; deleted
\* says whether the first has been deleted, the only kind ext2 marks so.
MCBlock(names, deleted) ==
    [o \in {16 * (i - 1) : i \in DOMAIN names} |->
        [name |-> names[o \div 16 + 1],
         ino |-> IF o = 0 /\ deleted THEN 0 ELSE 11 + o,
         entry_size |-> IF o = 16 * (Len(names) - 1) THEN dir_block_size - o
                        ELSE 16]]

MCBlocks ==
    LET lists == UNION {[1 .. n -> {home, lost, boot, boot_old}] : n \in 1 .. 3}
    IN  {MCBlock(s, d) : d \in BOOLEAN, s \in {t \in lists : IsInjective(t)}}

MCDirectory ==
    LET first == MCBlock(<<dot, dotdot>>, FALSE)
    IN  {<<>>, <<first>>} \cup {<<first, b>> : b \in MCBlocks}
        \cup {<<b, first>> : b \in MCBlocks} \cup {<<b>> : b \in MCBlocks}

\* What the theorems on reading files and inodes suppose; run ext2_file_large
\* has larger files.
ASSUME FilesSmall /\ MediaReadable

-----------------------------------------------------------------------------
(* The text.                                                               *)

MCItems ==
    {<<"a">>}
    \cup {<<"%", c>> : c \in {"%", "s", "c", "d", "u", "x", "p", "z"}}
    \cup {<<"%", c, s>> : c \in {"h", "l"}, s \in {"d", "u", "x", "z"}}
    \cup {<<"%", "q", s>> : s \in {"d", "u", "z"}}

MCFormats == {i \o j : i, j \in MCItems}

Screen == INSTANCE Vga WITH
              cleared <- text_cleared, VGA_buf <- text_buf,
              VGA_cursor <- text_cursor, Glyph <- TextChar,
              Input <- TextChar \cup {NL}, Cells <- {}

Format == INSTANCE Printk WITH
              Formats <- MCFormats, Strings <- {<<>>, <<"a", "b">>}

ASSUME Screen!VgaAssumption /\ Format!PrintkAssumption

-----------------------------------------------------------------------------
\* The inputs of the parts that do not move are fixed.
Fixed ==
    /\ IF moves = "file" THEN TRUE ELSE st_size = 0
    /\ IF moves = "mount" THEN TRUE ELSE mbr = [q \in 0 .. 3 |-> Unused]
    /\ IF moves = "dir" THEN TRUE ELSE dir = <<>>
    /\ IF moves = "text" THEN TRUE
       ELSE text_buf = [i \in 0 .. VGA_SIZE - 1 |->
                          CHOOSE c \in TextChar : TRUE]
    /\ IF moves = "printk" THEN TRUE ELSE fmt = <<"a", "a">>

MCInit == /\ moves \in {"file", "mount", "dir", "screen", "text", "printk"}
          /\ Fixed
          /\ Init /\ MountInit /\ DirInit
          /\ VgaInit /\ Screen!VgaInit /\ Format!Init

OnlyFiles == UNCHANGED <<moves, vgaVars, textVars, printkVars>>
OnlyText == UNCHANGED <<moves, vars, mountVars, dirVars>>

MCNext ==
    \/ /\ moves = "file" /\ Next
       /\ OnlyFiles /\ UNCHANGED <<mountVars, dirVars>>
    \/ /\ moves = "mount" /\ MountNext
       /\ OnlyFiles /\ UNCHANGED <<vars, dirVars>>
    \/ /\ moves = "dir" /\ DirNext
       /\ OnlyFiles /\ UNCHANGED <<vars, mountVars>>
    \/ /\ moves = "screen" /\ VgaNext
       /\ OnlyText /\ UNCHANGED <<textVars, printkVars>>
    \/ /\ moves = "text" /\ Screen!VgaNext
       /\ OnlyText /\ UNCHANGED <<vgaVars, printkVars>>
    \/ /\ moves = "printk" /\ Format!printk
       /\ OnlyText /\ UNCHANGED <<vgaVars, textVars>>

MCSpec == MCInit /\ [][MCNext]_mcVars

-----------------------------------------------------------------------------
\* Printing characters and newlines shows the last rows of the text.
PrintsText == Screen!ShowsText

\* What printk shows reads back as its argument, in every format but %qx.
ReadsBack == Format!ReadsBack
=============================================================================
