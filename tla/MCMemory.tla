------------------------------ MODULE MCMemory ------------------------------
(* The memory modules for TLC, which share no variable: in a behaviour one  *)
(* of them moves.                                                           *)
EXTENDS MemoryMap, Kmalloc, BootTags, PageAlloc, SequencesExt

CONSTANT MaxAddr            \* of MemoryMap's inputs

VARIABLE moves

-----------------------------------------------------------------------------
(* Two tables among up to two other tags of unpadded sizes, in any order.   *)

Tag(type, size, n, e) ==
    [type |-> type, size |-> size, num_entries |-> n, entry_size |-> e]

MemTags == {Tag(6, 16 + n * 24, n, 24) : n \in {0, 1, 3}}
ElfTags == {Tag(9, 20 + n * 64, n, 64) : n \in {0, 2}}
OtherTags == {Tag(1, 9, 0, 0), Tag(0, 12, 0, 0), Tag(4, 16, 0, 0)}
Terminator == Tag(0, 8, 0, 0)

MCTagLists ==
    {<<Terminator>>} \cup
    {Append(l, Terminator) :
        l \in UNION {SetToSeqs(s) : s \in
            {{t, e} \cup o : t \in MemTags, e \in ElfTags,
                o \in {u \in SUBSET OtherTags : u # OtherTags}}}}

(* Every map of up to two entries and every table of up to two sections     *)
(* behind a null section, over three pages.  Type 2 is reserved memory.    *)

Intervals(types, least) ==
    {e \in [type : types, start : 0 .. MaxAddr, end : 0 .. MaxAddr] :
        e.start + least <= e.end}

UpToTwo(S) == {<<>>} \cup {<<a>> : a \in S} \cup (S \X S)

MCMemMaps == {e \in UpToTwo(Intervals({1, 2}, 1)) : Disjoint(e)}

NullSection == [type |-> 0, start |-> 0, end |-> 0]

MCElfTables == {<<NullSection>> \o s :
                   s \in {t \in UpToTwo(Intervals({1}, 0)) : Sorted(t)}}

(* Tables of four entries on three levels, 15 frames in two regions.  Six   *)
(* frames map memory, two or three more map the heap; its five pages span   *)
(* two tables, so memory runs out.                                          *)

MCRegions == <<[start |-> 1, end |-> 4], [start |-> 6, end |-> 15]>>

(* The page, header, stack and frame sizes of the source, in words of eight *)
(* bytes, and the two largest pools.                                        *)

MCBlockSizes == <<128, 256>>

\* What the theorems on usable regions and on stacks suppose.
ASSUME NullSections /\ StackInTwoPages

-----------------------------------------------------------------------------
MCInit ==
    /\ moves \in {"tags", "map", "pages", "kmalloc"}
    /\ IF moves = "tags" THEN TRUE ELSE tags = <<Terminator>>
    /\ IF moves = "map" THEN TRUE
       ELSE mem_entries = <<>> /\ elf_entries = <<NullSection>>
    /\ TagsInit /\ MapInit /\ PageInit /\ Init

MCNext ==
    \/ moves = "tags" /\ NextTag
       /\ UNCHANGED <<moves, mapVars, pageVars, vars>>
    \/ moves = "map" /\ MapNext
       /\ UNCHANGED <<moves, tagVars, pageVars, vars>>
    \/ moves = "pages" /\ PageNext
       /\ UNCHANGED <<moves, tagVars, mapVars, vars>>
    \/ moves = "kmalloc" /\ Next
       /\ UNCHANGED <<moves, tagVars, mapVars, pageVars>>

MCSpec == MCInit /\ [][MCNext]_<<moves, tagVars, mapVars, pageVars, vars>>

=============================================================================
