------------------------------ MODULE MemoryMap ------------------------------
(***************************************************************************)
(* build_mem_regions of src/multiboot_tags.c: from the boot loader's memory *)
(* map and the kernel's ELF sections to the regions that the page frame    *)
(* allocator hands out.  The variables are those of the function, one      *)
(* action per way through a loop; end is starting_addr + length and an ELF *)
(* section ends at segment_address + segment_size.                         *)
(***************************************************************************)
EXTENDS Integers, Sequences

CONSTANTS MMU_PAGE_SIZE,
          MEM_REGIONS_LEN,  \* the size of the table of regions
          MemMaps,          \* the memory maps a boot loader passes
          ElfTables         \* the section tables of a kernel

Sorted(s) == \A a, b \in 1 .. Len(s) : a < b => s[a].start <= s[b].start

Disjoint(s) == \A a, b \in 1 .. Len(s) : a < b => s[a].end <= s[b].start

\* What the function takes for granted: both tables come in address order,
\* entries of the map do not overlap.  Sections may, and may have any type.
ASSUME MemoryMapAssumption ==
    /\ MMU_PAGE_SIZE \in Nat \ {0}
    /\ MEM_REGIONS_LEN \in Nat
    /\ \A m \in MemMaps : /\ m \in Seq([type : Nat, start : Nat, end : Nat])
                          /\ \A e \in 1 .. Len(m) : m[e].start < m[e].end
                          /\ Disjoint(m)
    /\ \A s \in ElfTables : /\ s \in Seq([type : Nat, start : Nat, end : Nat])
                            /\ \A e \in 1 .. Len(s) : s[e].start <= s[e].end
                            /\ Sorted(s)

\* What ELF says of a null section: nothing is there.  The section loop knows
\* no null section once it has begun.
NullSections ==
    \A t \in ElfTables : \A k \in 1 .. Len(t) : t[k].type = 0 => t[k].end = 0

VARIABLES mem_entries, elf_entries,
          i, j,           \* the entry and the section under consideration
          cur_start,      \* where the free memory of the entry goes on
          mem_regions,
          pc              \* the loop the function is in

mapVars == <<mem_entries, elf_entries, i, j, cur_start, mem_regions, pc>>

MapInit == /\ mem_entries \in MemMaps
           /\ elf_entries \in ElfTables
           /\ i = 1 /\ j = 1
           /\ cur_start = 0
           /\ mem_regions = <<>>
           /\ pc = "entry"

-----------------------------------------------------------------------------
align_pointer(addr, after) ==
    IF addr % MMU_PAGE_SIZE = 0 THEN addr
    ELSE IF after THEN addr + (MMU_PAGE_SIZE - (addr % MMU_PAGE_SIZE))
         ELSE addr - (addr % MMU_PAGE_SIZE)

\* The table once add_region has accepted the region; next is start.
Region(start, end) ==
    LET first == align_pointer(start, TRUE)
        last == align_pointer(end, FALSE)
    IN  IF first < last
        THEN Append(mem_regions, [start |-> first, end |-> last])
        ELSE mem_regions

\* The assertion stops the kernel before the table overflows.
add_region(start, end, then) ==
    \/ /\ Len(mem_regions) < MEM_REGIONS_LEN
       /\ mem_regions' = Region(start, end)
       /\ pc' = then
    \/ /\ Len(mem_regions) = MEM_REGIONS_LEN
       /\ pc' = "exit"
       /\ UNCHANGED mem_regions

-----------------------------------------------------------------------------
Entry == mem_entries[i]

\* Null is not a valid address.
EntryStart == IF Entry.start = 0 THEN 1 ELSE Entry.start

Section == elf_entries[j]

Larger(a, b) == IF a > b THEN a ELSE b
Smaller(a, b) == IF a < b THEN a ELSE b

SkipReserved ==
    /\ pc = "entry" /\ i <= Len(mem_entries) /\ Entry.type # 1
    /\ i' = i + 1
    /\ UNCHANGED <<mem_entries, elf_entries, j, cur_start, mem_regions, pc>>

TakeEntry ==
    /\ pc = "entry" /\ i <= Len(mem_entries) /\ Entry.type = 1
    /\ cur_start' = EntryStart
    /\ pc' = "before"
    /\ UNCHANGED <<mem_entries, elf_entries, i, j, mem_regions>>

Before == /\ j <= Len(elf_entries)
          /\ Section.type = 0 \/ Section.end <= EntryStart

SkipSection ==
    /\ pc = "before" /\ Before
    /\ j' = j + 1
    /\ UNCHANGED <<mem_entries, elf_entries, i, cur_start, mem_regions, pc>>

EndSkip ==
    /\ pc = "before" /\ ~Before
    /\ pc' = "section"
    /\ UNCHANGED <<mem_entries, elf_entries, i, j, cur_start, mem_regions>>

Inside == j <= Len(elf_entries) /\ Section.start < Entry.end

\* Fault: the free memory goes on behind the section seen last.
SectionEndOnly == Section.end

NextStart == Larger(cur_start, Section.end)

\* The gap before a section is a region, and what follows it starts at its
\* end; a section that reaches the end of the entry is looked at again.
SplitAtSection ==
    /\ pc = "section" /\ Inside
    /\ LET then == IF NextStart >= Entry.end THEN "rest" ELSE "section"
       IN  \/ /\ Section.start > cur_start
              /\ add_region(cur_start, Smaller(Section.start, Entry.end), then)
           \/ /\ Section.start <= cur_start
              /\ pc' = then
              /\ UNCHANGED mem_regions
    /\ cur_start' = NextStart
    /\ j' = IF NextStart >= Entry.end THEN j ELSE j + 1
    /\ UNCHANGED <<mem_entries, elf_entries, i>>

EndSections ==
    /\ pc = "section" /\ ~Inside
    /\ pc' = "rest"
    /\ UNCHANGED <<mem_entries, elf_entries, i, j, cur_start, mem_regions>>

\* Fault: what is left of an entry is taken from its start.
WholeEntry ==
    /\ pc = "rest"
    /\ \/ cur_start < Entry.end /\ add_region(EntryStart, Entry.end, "entry")
       \/ cur_start >= Entry.end /\ pc' = "entry" /\ UNCHANGED mem_regions
    /\ i' = i + 1
    /\ UNCHANGED <<mem_entries, elf_entries, j, cur_start>>

AddRest ==
    /\ pc = "rest"
    /\ \/ cur_start < Entry.end /\ add_region(cur_start, Entry.end, "entry")
       \/ cur_start >= Entry.end /\ pc' = "entry" /\ UNCHANGED mem_regions
    /\ i' = i + 1
    /\ UNCHANGED <<mem_entries, elf_entries, j, cur_start>>

MapNext == \/ SkipReserved \/ TakeEntry
           \/ SkipSection \/ EndSkip
           \/ SplitAtSection \/ EndSections
           \/ AddRest

MapSpec == MapInit /\ [][MapNext]_mapVars

-----------------------------------------------------------------------------
Finished == pc = "entry" /\ i > Len(mem_entries)

\* The address p * MMU_PAGE_SIZE starts a page of usable memory: one entry of
\* the map holds all of it, no section reaches into it (an empty one that
\* lies inside a page counts), and it is not page 0.
Usable(p) ==
    LET first == p * MMU_PAGE_SIZE
        last == first + MMU_PAGE_SIZE
    IN  /\ p > 0
        /\ \E e \in 1 .. Len(mem_entries) :
              /\ mem_entries[e].type = 1
              /\ mem_entries[e].start <= first /\ last <= mem_entries[e].end
        /\ \A s \in 1 .. Len(elf_entries) :
              elf_entries[s].end <= first \/ last <= elf_entries[s].start

InRegion(p) ==
    \E r \in 1 .. Len(mem_regions) :
       /\ mem_regions[r].start <= p * MMU_PAGE_SIZE
       /\ p * MMU_PAGE_SIZE < mem_regions[r].end

\* The last page of the map.
LastPage == IF mem_entries = <<>> THEN 0
            ELSE mem_entries[Len(mem_entries)].end \div MMU_PAGE_SIZE

\* The regions are the usable pages: build_mem_regions neither hands out a
\* page with a byte of the kernel, of reserved memory or of address 0, nor
\* loses a page that has none.
ExactlyUsable ==
    Finished => \A p \in 0 .. LastPage : InRegion(p) <=> Usable(p)

\* At every moment the regions are not empty, aligned and in address order
\* without overlap: init_page_table maps up to the end of the last one, and
\* MMU_pf_alloc hands a page out once only if no two regions share it.
Ordered ==
    /\ Disjoint(mem_regions)
    /\ \A r \in 1 .. Len(mem_regions) :
          /\ mem_regions[r].start < mem_regions[r].end
          /\ mem_regions[r].start % MMU_PAGE_SIZE = 0
          /\ mem_regions[r].end % MMU_PAGE_SIZE = 0
=============================================================================
