----------------------------- MODULE Ext2Mount -----------------------------
(***************************************************************************)
(* Finding a file system and its inodes: src/fs.c, src/mbr.c and, of       *)
(* src/ext2.c, ext2_probe, the two superblock functions and read_inode.    *)
(* An inode found is the byte of the partition it is read from.            *)
(***************************************************************************)
EXTENDS Integers, Sequences

CONSTANTS Partition,    \* entries of the partition table
          NoFS,         \* what a partition without ext2 holds
          NULL

\* The fields of a superblock and of a partition (type 0: unused) in use.
Ext2SuperBlock == [num_inodes : Nat, num_blocks : Nat, inode_size : Nat,
                   log_sub_10_block_size : Nat, num_group_blocks : Nat,
                   num_group_inodes : Nat]

MBRPartition(fs) == [part_type : Nat, num_sectors : Nat, sb : fs]

ASSUME MountAssumption ==
    /\ NoFS # NULL
    /\ Partition \subseteq MBRPartition(Ext2SuperBlock \cup {NoFS})

VARIABLES
    mbr,          \* the partition table of the drive
    impls,        \* the probes registered and not yet tried
    mount_pc, p,  \* ext2_probe: where it is and its partition, from 0
    root, ino, inode   \* the root, the last inode asked for and the one read

mountVars == <<mbr, impls, mount_pc, p, root, ino, inode>>

MountInit ==
    /\ mbr \in [0 .. 3 -> Partition]
    /\ impls = <<>> /\ mount_pc = "boot" /\ p = 0
    /\ root = NULL /\ ino = 0 /\ inode = NULL

SECTOR == 512
EXT2_OFFSET == 1024
EXT2_SB_SIZE == 1024

-----------------------------------------------------------------------------
\* ext2_init and FS_register.
ext2_init ==
    /\ mount_pc = "boot"
    /\ impls' = <<"ext2">> \o impls
    /\ mount_pc' = "probe"
    /\ UNCHANGED <<mbr, p, root, ino, inode>>

\* FS_probe tries the next probe, which reads the partition table, or gives
\* up.
FS_probe ==
    /\ mount_pc = "probe"
    /\ mount_pc' = IF impls = <<>> THEN "none" ELSE "partition"
    /\ impls' = IF impls = <<>> THEN impls ELSE Tail(impls)
    /\ p' = 0
    /\ UNCHANGED <<mbr, root, ino, inode>>

pow2(n) == 2 ^ n
sb_block_size(sb) == pow2(sb.log_sub_10_block_size + 10)
num_groups(sb) == (sb.num_blocks + sb.num_group_blocks - 1)
                      \div sb.num_group_blocks

\* External: where the medium keeps the group table, and the start of the
\* inode table of group g.
GroupTableSector(sb) == IF sb.log_sub_10_block_size = 0 THEN 4
                        ELSE sb_block_size(sb) \div SECTOR
InodeTable(g) == 5 + 10 * g

\* ext2_superblock_init reads the group table from the sector behind the
\* superblock: sixteen descriptors of 32 bytes.
grp_table(sb, g) ==
    IF /\ (EXT2_OFFSET + EXT2_SB_SIZE) \div SECTOR = GroupTableSector(sb)
       /\ g < SECTOR \div 32
    THEN InodeTable(g) ELSE 0

\* Fault: inodes numbered from 0.
InodeFromZero(sb, n) ==
    IF n > sb.num_inodes \/ n \div sb.num_group_inodes >= num_groups(sb)
    THEN NULL
    ELSE LET off == (n % sb.num_group_inodes) * sb.inode_size
         IN  (grp_table(sb, n \div sb.num_group_inodes)
                  + (off \div sb_block_size(sb))) * sb_block_size(sb)
             + (off % sb_block_size(sb))

\* Number 0 wraps around and falls outside every group.
read_inode(sb, n) ==
    IF \/ n > sb.num_inodes \/ n = 0
       \/ (n - 1) \div sb.num_group_inodes >= num_groups(sb)
    THEN NULL
    ELSE LET off == ((n - 1) % sb.num_group_inodes) * sb.inode_size
             block_num == grp_table(sb, (n - 1) \div sb.num_group_inodes)
                          + (off \div sb_block_size(sb))
         IN  block_num * sb_block_size(sb) + (off % sb_block_size(sb))

\* mbr_init reads the table whole, and MBR_read_block counts sectors from the
\* first one of partition q: at the superblock's place is that of q.
MBR_read_block(q) == mbr[q].sb

Sb(q) == MBR_read_block(q)

\* One turn of the loop of ext2_probe; the first unused entry ends it.
TableEnds == IF p > 3 THEN TRUE ELSE mbr[p].part_type = 0

ext2_probe ==
    /\ mount_pc = "partition"
    /\ \/ TableEnds /\ mount_pc' = "probe" /\ UNCHANGED <<p, root>>
       \/ /\ ~TableEnds /\ mbr[p].num_sectors >= 2 /\ Sb(p) # NoFS
          /\ mount_pc' = "mounted" /\ root' = read_inode(Sb(p), 2)
          /\ UNCHANGED p
       \/ /\ ~TableEnds /\ ~(mbr[p].num_sectors >= 2 /\ Sb(p) # NoFS)
          /\ p' = p + 1 /\ UNCHANGED <<mount_pc, root>>
    /\ UNCHANGED <<mbr, impls, ino, inode>>

\* sb->read_inode of a mounted file system, as kmain.c and readdir call it.
\* It changes nothing, so one call says what every call does.
ReadInode ==
    /\ mount_pc = "mounted"
    /\ \E n \in 0 .. Sb(p).num_inodes + 1 :
           ino' = n /\ inode' = read_inode(Sb(p), n)
    /\ mount_pc' = "read"
    /\ UNCHANGED <<mbr, impls, p, root>>

MountNext == ext2_init \/ FS_probe \/ ext2_probe \/ ReadInode

MountSpec == MountInit /\ [][MountNext]_mountVars

-----------------------------------------------------------------------------
\* A file system whose group table is the sector that ext2_superblock_init
\* reads: blocks of 1K or 2K and no more groups than a sector describes, which
\* hold all its inodes, the root among them.
Readable(sb) ==
    /\ sb.log_sub_10_block_size \in {0, 1}
    /\ sb.num_group_blocks # 0 /\ sb.num_group_inodes # 0
    /\ num_groups(sb) <= SECTOR \div 32
    /\ sb.num_inodes \in 2 .. num_groups(sb) * sb.num_group_inodes

\* All file systems of the drive are of this kind.
MediaReadable == \A e \in Partition : e.sb # NoFS => Readable(e.sb)

Used(q) == \A k \in 0 .. q : mbr[k].part_type # 0
HasExt2(q) == Used(q) /\ mbr[q].num_sectors >= 2 /\ Sb(q) # NoFS

\* The file system mounted is the first one of the partition table, and
\* FS_probe returns NULL only when the table has none.
MountsFirst ==
    /\ mount_pc = "mounted" =>
           HasExt2(p) /\ \A q \in 0 .. p - 1 : ~HasExt2(q)
    /\ mount_pc = "none" => \A q \in 0 .. 3 : ~HasExt2(q)

\* Where the medium keeps inode n: the tables of the groups, each a plain
\* array of inodes.
InodeAt(sb, n) ==
    InodeTable((n - 1) \div sb.num_group_inodes) * sb_block_size(sb)
    + ((n - 1) % sb.num_group_inodes) * sb.inode_size

\* read_inode reads each inode from its place and refuses every other
\* number, 0 included, in every group and at every block boundary.
InodeFound ==
    mount_pc \in {"mounted", "read"} =>
        /\ root = InodeAt(Sb(p), 2)
        /\ inode = IF ino \in 1 .. Sb(p).num_inodes
                   THEN InodeAt(Sb(p), ino) ELSE NULL

\* The inodes the kernel reads are those of the first ext2 file system.
FindsInode == MountsFirst /\ InodeFound
=============================================================================
