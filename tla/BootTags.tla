------------------------------ MODULE BootTags ------------------------------
(***************************************************************************)
(* multiboot_tags_parse_to_mem_regions of src/multiboot_tags.c: the walk   *)
(* over the boot loader's tags that finds the memory map and the section   *)
(* table.  What build_mem_regions makes of them is module MemoryMap.       *)
(***************************************************************************)
EXTENDS Integers, Sequences

CONSTANTS TagLists,    \* the tags a boot loader passes, the terminator last
          Unset        \* a table that was not found

TAG_MEM_MAP == 6
TAG_ELF_HEADER == 9

\* A tag has a type, a size in bytes without its padding and, for the two
\* tables, a number of entries of entry_size bytes.
TagCommonHeader == [type : Nat, size : Nat, num_entries : Nat, entry_size : Nat]

TagsHeaderSize == 8
TagMemMapHeaderSize == 16
TagELFHeaderSize == 20
TagMemMapEntrySize == 24

is_tags_terminator(tag) == tag.type = 0 /\ tag.size = 8

\* Only the last tag is a terminator; the size of a tag counts its header of
\* eight bytes, that of a memory map its header and entries, and these have the
\* size the code asserts.
TagsWellFormed(list) ==
    /\ list \in Seq(TagCommonHeader) /\ list # <<>>
    /\ \A k \in DOMAIN list :
          /\ is_tags_terminator(list[k]) <=> k = Len(list)
          /\ list[k].size >= 8
          /\ list[k].type = TAG_MEM_MAP =>
                /\ list[k].entry_size = TagMemMapEntrySize
                /\ list[k].size = TagMemMapHeaderSize
                                  + list[k].num_entries * TagMemMapEntrySize

\* There is one memory map and one section table at most.
OneOfEach(list) ==
    \A j, k \in DOMAIN list :
        list[j].type \in {TAG_MEM_MAP, TAG_ELF_HEADER} \cap {list[k].type}
            => j = k

ASSUME BootTagsAssumption ==
    /\ \A list \in TagLists : TagsWellFormed(list) /\ OneOfEach(list)
    /\ Unset \notin [d : Nat, size : Nat]

VARIABLES tags, curtag,
          tag_mem, tag_elf    \* mem_entries and elf_entries

tagVars == <<tags, curtag, tag_mem, tag_elf>>

TagsInit ==
    /\ tags \in TagLists
    /\ curtag = TagsHeaderSize
    /\ tag_mem = Unset /\ tag_elf = Unset

-----------------------------------------------------------------------------
align_pointer_after(addr, boundary) ==
    IF addr % boundary = 0 THEN addr
                           ELSE addr + boundary - (addr % boundary)

\* External: the addresses at which the boot loader puts the tags, each at
\* the next multiple of 8.
Address == LET f[k \in 1 .. Len(tags)] ==
                   IF k = 1 THEN TagsHeaderSize
                   ELSE ((f[k - 1] + tags[k - 1].size + 7) \div 8) * 8
           IN  f

\* The tag at curtag.
Cur == tags[CHOOSE k \in DOMAIN tags : Address[k] = curtag]

\* Fault: the header is counted as an entry.
CountHeader(tag) == (tag.size + TagMemMapHeaderSize) \div tag.entry_size

NumEntries(tag) == (tag.size - TagMemMapHeaderSize) \div tag.entry_size

NextTag ==
    /\ ~is_tags_terminator(Cur)
    /\ tag_mem' = IF Cur.type = TAG_MEM_MAP
                  THEN [d |-> curtag + TagMemMapHeaderSize,
                        size |-> NumEntries(Cur)]
                  ELSE tag_mem
    /\ tag_elf' = IF Cur.type = TAG_ELF_HEADER
                  THEN [d |-> curtag + TagELFHeaderSize,
                        size |-> Cur.num_entries]
                  ELSE tag_elf
    /\ curtag' = align_pointer_after(curtag + Cur.size, 8)
    /\ UNCHANGED tags

TagsSpec == TagsInit /\ [][NextTag]_tagVars

-----------------------------------------------------------------------------
\* When it ends, what build_mem_regions gets are the tables of the boot
\* loader, with all their entries and no more, wherever they are.
Table(type, header) ==
    {[d |-> Address[k] + header, size |-> tags[k].num_entries] :
        k \in {n \in DOMAIN tags : tags[n].type = type}}

TablesFound ==
    curtag = Address[Len(tags)] =>
        /\ {tag_mem} \ {Unset} = Table(TAG_MEM_MAP, TagMemMapHeaderSize)
        /\ {tag_elf} \ {Unset} = Table(TAG_ELF_HEADER, TagELFHeaderSize)
=============================================================================
